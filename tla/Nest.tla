-------------------------------- MODULE Nest --------------------------------
(***************************************************************************)
(* One CPU address space (Nest): its occupancy of virtual pages, the views *)
(* mapped into it, its page table, and the state machine that makes the    *)
(* harts forget old translations (Invalidation) before a page, a frame or  *)
(* an address is used again.                                               *)
(*                                                                         *)
(* An address is a page number.  A reservation's generation is also the    *)
(* identity of the view attached with it.  Frame p of view i is named      *)
(* <<i, p>>: a view owns its source, and a frame is freed when neither the *)
(* view nor the list of retired frames holds it any more.  A retirement    *)
(* ticket is named by the generation and the pages it covers, because a    *)
(* generation retires a page only once.                                    *)
(***************************************************************************)
EXTENDS Integers, FiniteSets, FiniteSetsExt, Sequences, SequencesExt

CONSTANTS Actors,
          Pages,     \* 0 .. n - 1
          MaxId,     \* bound: reservations ever made
          MaxSize,   \* bound: pages of a reservation
          MaxFail,   \* bound: preparations and shootdowns that fail
          Levels,    \* the access a view is attached with: 1 read, 2 write
          Ops,       \* the operations the callers use besides attach and dispose
          None

\* What the constants of an instance satisfy.
Assumptions ==
    /\ Pages = 0 .. Cardinality(Pages) - 1 /\ MaxId \in Nat /\ MaxSize \in Nat /\ MaxFail \in Nat
    /\ Levels \subseteq 1 .. 2
    /\ Ops \subseteq {"publish", "access", "narrow", "detach", "retry", "close", "release"}

VARIABLES slot,      \* page -> [id, tix]: who occupies it and the ticket it retires under
          nextId,    \* the next generation
          cleanups,  \* generations with a cleanup node set aside
          reserved,  \* generations reserved and not attached
          held,      \* views whose callers hold them
          index,     \* views in the index
          active,    \* view -> page -> current access (0: not active)
          ceiling,   \* view -> page -> most access it may have
          published, \* view -> pages with a published frame
          pte,       \* page -> [id, acc] or None
          stale,     \* translations some hart may still hold though pte dropped them
          inv,       \* the Invalidation
          phase,     \* the ClosePhase
          retired,   \* retired frames
          pending,   \* views kept until the next shootdown
          tickets,   \* retirement: tickets not yet settled
          chain,     \* views on the cleanup chain
          freed,     \* the ASID has been given back
          fails,     \* how many failed
          job        \* actor -> the operation it is in

space == <<slot, nextId, cleanups, reserved>>
maps == <<index, active, ceiling, published, pte, stale>>
sync == <<inv, phase, retired, pending, fails>>
vars == <<space, maps, sync, held, tickets, chain, freed, job>>

Ids == 1 .. MaxId
Free == [id |-> 0, tix |-> {}]
Idle == [op |-> "idle", at |-> "idle", ret |-> "idle", id |-> 0, node |-> 0,
         todo |-> << >>, span |-> {}, acc |-> 0, tix |-> {}]

Init ==
    /\ slot = [p \in Pages |-> Free]
    /\ nextId = 1
    /\ cleanups = {} /\ reserved = {} /\ held = {} /\ index = {}
    /\ active = [i \in Ids |-> [p \in Pages |-> 0]]
    /\ ceiling = [i \in Ids |-> [p \in Pages |-> 0]]
    /\ published = [i \in Ids |-> {}]
    /\ pte = [p \in Pages |-> None]
    /\ stale = {}
    /\ inv = "Clean" /\ phase = "Open"
    /\ retired = {} /\ pending = {} /\ tickets = {} /\ chain = {}
    /\ freed = FALSE
    /\ fails = 0
    /\ job = [a \in Actors |-> Idle]

Closed == phase = "Closed"
Spans == {S \in SUBSET Pages : S # {} /\ Cardinality(S) <= MaxSize /\ S = Min(S) .. Max(S)}
Extent(i) == {p \in Pages : slot[p].id = i}
Active(i) == {p \in Pages : active[i][p] # 0}

\* Where a call goes on; the job's other fields stay.
Goto(a, at) == job' = [job EXCEPT ![a].at = at]
Return(a) == job' = [job EXCEPT ![a] = Idle]
Call(a, op, at, i) == job' = [job EXCEPT ![a] = [Idle EXCEPT !.op = op, !.at = at, !.id = i]]
\* finish_invalidation, and then ret.
Sync(a, ret) == job' = [job EXCEPT ![a].at = "sync", ![a].ret = ret]

----------------------------------------------------------------------------
(* Reserving an address *)

Reserve(a, S) ==
    /\ job[a].op = "idle" /\ nextId <= MaxId
    /\ \A p \in S : slot[p] = Free
    /\ slot' = [p \in Pages |-> IF p \in S THEN [id |-> nextId, tix |-> {}] ELSE slot[p]]
    /\ reserved' = reserved \cup {nextId}
    /\ nextId' = nextId + 1
    /\ UNCHANGED <<maps, sync, cleanups, held, tickets, chain, freed, job>>

\* release of Occupancy: generation and end points must match, and no ticket.
GiveBack(i) ==
    /\ slot' = [p \in Pages |-> IF slot[p] = [id |-> i, tix |-> {}] THEN Free ELSE slot[p]]
    /\ cleanups' = cleanups \ {i}

ReleaseReserved(a, i) ==
    /\ "release" \in Ops /\ job[a].op = "idle" /\ i \in reserved
    /\ GiveBack(i)
    /\ reserved' = reserved \ {i}
    /\ UNCHANGED <<maps, sync, nextId, held, tickets, chain, freed, job>>

----------------------------------------------------------------------------
(* finish_invalidation and ready_state *)

FinishClean(a) ==
    /\ job[a].at = "sync" /\ inv = "Clean"
    /\ Goto(a, job[a].ret)
    /\ UNCHANGED <<space, maps, sync, held, tickets, chain, freed>>

FinishBegin(a) ==
    /\ job[a].at = "sync" /\ inv \in {"Dirty", "Failed"}
    /\ inv' = "Fencing"
    /\ Goto(a, "fence")
    /\ UNCHANGED <<space, maps, phase, retired, pending, fails, held, tickets, chain, freed>>

\* The shootdown was answered: the harts hold nothing but what pte says.
FinishOk(a) ==
    /\ job[a].at = "fence"
    /\ inv' = "Clean"
    /\ phase' = IF phase = "Closing" THEN "Closed" ELSE phase
    /\ retired' = {} /\ pending' = {}
    /\ stale' = {}
    /\ Goto(a, job[a].ret)
    /\ UNCHANGED <<space, index, active, ceiling, published, pte, fails, held, tickets, chain, freed>>

\* What was to be retired stays for a retry.
FinishFail(a) ==
    /\ job[a].at = "fence" /\ fails < MaxFail
    /\ inv' = "Failed"
    /\ fails' = fails + 1
    /\ Goto(a, "failed")
    /\ UNCHANGED <<space, maps, phase, retired, pending, held, tickets, chain, freed>>

\* ready_state finds the space closed or the last shootdown failed.
NotReady(a) ==
    /\ job[a].at = "ready"
    /\ Closed \/ inv = "Failed"
    /\ Goto(a, "failed")
    /\ UNCHANGED <<space, maps, sync, held, tickets, chain, freed>>

ReadyWait(a) ==
    /\ job[a].at = "ready" /\ ~Closed /\ inv \in {"Dirty", "Fencing"}
    /\ Sync(a, "ready")
    /\ UNCHANGED <<space, maps, sync, held, tickets, chain, freed>>

Ready(a) == job[a].at = "ready" /\ ~Closed /\ inv = "Clean"

\* A step wrote the page table: the view is kept and the change announced.
Touch(a, i, ret) ==
    /\ pending' = pending \cup {i}
    /\ inv' = "Dirty"
    /\ Sync(a, ret)
    /\ UNCHANGED <<retired, fails>>

MarkDirty(a, i, ret) == Touch(a, i, ret)

----------------------------------------------------------------------------
(* Attaching a view *)

Attach(a, i) ==
    /\ job[a].op = "idle" /\ i \in reserved
    /\ reserved' = reserved \ {i}
    /\ cleanups' = cleanups \cup {i}
    /\ Call(a, "attach", "ready", i)
    /\ UNCHANGED <<maps, sync, slot, nextId, held, tickets, chain, freed>>

\* commit: the pages in M are materialised and published, the rest wait for a fault.
Commit(a, M, acc) ==
    LET i == job[a].id IN
    /\ Ready(a) /\ job[a].op = "attach"
    /\ M \subseteq Extent(i)
    /\ active' = [active EXCEPT ![i] = [p \in Pages |-> IF p \in Extent(i) THEN acc ELSE 0]]
    /\ ceiling' = [ceiling EXCEPT ![i] = [p \in Pages |-> IF p \in Extent(i) THEN 2 ELSE 0]]
    /\ published' = [published EXCEPT ![i] = M]
    /\ pte' = [p \in Pages |-> IF p \in M THEN [id |-> i, acc |-> acc] ELSE pte[p]]
    /\ index' = index \cup {i}
    /\ MarkDirty(a, i, "attached")
    /\ UNCHANGED <<space, stale, phase, held, tickets, chain, freed>>

Attached(a) ==
    /\ job[a].at = "attached"
    /\ held' = held \cup {job[a].id}
    /\ Return(a)
    /\ UNCHANGED <<space, maps, sync, tickets, chain, freed>>

\* enqueue_cleanup
Enqueue(i) == chain' = IF Closed THEN chain ELSE chain \cup {i}

SettleFailedInstall(a) ==
    LET i == job[a].id IN
    /\ job[a].op = "attach" /\ job[a].at = "failed"
    /\ IF i \in index
       THEN /\ cleanups' = cleanups \ {i}
            /\ IF i \in cleanups THEN Enqueue(i) ELSE UNCHANGED chain
            /\ UNCHANGED slot
       ELSE GiveBack(i) /\ UNCHANGED chain
    /\ Return(a)
    /\ UNCHANGED <<maps, sync, nextId, reserved, held, tickets, freed>>

----------------------------------------------------------------------------
(* Publishing a page and changing access *)

Change(a, op, i, p, acc) ==
    /\ op \in Ops /\ job[a].op = "idle" /\ i \in held
    /\ job' = [job EXCEPT ![a] = [Idle EXCEPT !.op = op, !.at = "ready", !.id = i,
                                              !.span = {p}, !.acc = acc]]
    /\ UNCHANGED <<space, maps, sync, held, tickets, chain, freed>>

Page(a) == CHOOSE p \in job[a].span : TRUE

\* The page is not active any more, or its ceiling does not allow the access.
Refused(a) ==
    LET i == job[a].id IN
    /\ Ready(a) /\ job[a].op \in {"publish", "access", "narrow"}
    /\ \/ active[i][Page(a)] = 0
       \/ job[a].op # "publish" /\ ceiling[i][Page(a)] < job[a].acc
       \/ job[a].op = "publish" /\ Page(a) \in published[i]
    /\ Return(a)
    /\ UNCHANGED <<space, maps, sync, held, tickets, chain, freed>>

PublishSpan(a) ==
    LET i == job[a].id  p == Page(a) IN
    /\ Ready(a) /\ job[a].op = "publish"
    /\ active[i][p] # 0 /\ p \notin published[i]
    /\ published' = [published EXCEPT ![i] = @ \cup {p}]
    /\ pte' = [pte EXCEPT ![p] = [id |-> i, acc |-> active[i][p]]]
    /\ MarkDirty(a, i, "done")
    /\ UNCHANGED <<space, index, active, ceiling, stale, phase, held, tickets, chain, freed>>

\* The page table entry of p, if it has one, becomes e.
Rewrite(p, e) ==
    /\ pte' = [pte EXCEPT ![p] = IF @ = None THEN None ELSE e]
    /\ stale' = stale \cup IF pte[p] \in {None, e} THEN {} ELSE {<<p, pte[p]>>}

SetAccess(a) ==
    LET i == job[a].id  p == Page(a) IN
    /\ Ready(a) /\ job[a].op = "access"
    /\ active[i][p] # 0 /\ job[a].acc <= ceiling[i][p]
    /\ active' = [active EXCEPT ![i][p] = job[a].acc]
    /\ Rewrite(p, [id |-> i, acc |-> job[a].acc])
    /\ MarkDirty(a, i, "done")
    /\ UNCHANGED <<space, index, ceiling, published, phase, held, tickets, chain, freed>>

NarrowIf(a, lower, rewrite) ==
    LET i == job[a].id  p == Page(a)
        acc == IF lower THEN Min({active[i][p], job[a].acc}) ELSE active[i][p] IN
    /\ Ready(a) /\ job[a].op = "narrow"
    /\ active[i][p] # 0 /\ job[a].acc <= ceiling[i][p]
    /\ ceiling' = [ceiling EXCEPT ![i][p] = job[a].acc]
    /\ active' = [active EXCEPT ![i][p] = acc]
    /\ IF rewrite THEN Rewrite(p, [id |-> i, acc |-> acc]) ELSE UNCHANGED <<pte, stale>>
    /\ MarkDirty(a, i, "done")
    /\ UNCHANGED <<space, index, published, phase, held, tickets, chain, freed>>

\* As if the page table entry were left as it was.
NarrowLazy(a) == NarrowIf(a, TRUE, FALSE)

Narrow(a) == NarrowIf(a, TRUE, TRUE)

----------------------------------------------------------------------------
(* Detaching *)

DetachPages(a, i, S) ==
    /\ "detach" \in Ops /\ job[a].op = "idle" /\ i \in held
    /\ job' = [job EXCEPT ![a] = [Idle EXCEPT !.op = "detach", !.at = "detach", !.id = i, !.span = S]]
    /\ UNCHANGED <<space, maps, sync, held, tickets, chain, freed>>

\* dispose consumes the caller's view and takes the cleanup node set aside for it.
Dispose(a, i) ==
    /\ job[a].op = "idle" /\ i \in held
    /\ held' = held \ {i}
    /\ cleanups' = cleanups \ {i}
    /\ job' = [job EXCEPT ![a] = [Idle EXCEPT !.op = "dispose", !.at = "detach", !.id = i, !.span = Pages,
                                              !.node = IF i \in cleanups THEN i ELSE 0]]
    /\ UNCHANGED <<maps, sync, slot, nextId, reserved, tickets, chain, freed>>

\* detach settles an earlier shootdown before it looks at the view.
Detach(a) ==
    /\ job[a].at = "detach"
    /\ IF Closed THEN Goto(a, "failed") ELSE Sync(a, "owed")
    /\ UNCHANGED <<space, maps, sync, held, tickets, chain, freed>>

\* Active pages and pages still retiring, cut where access or ticket changes.
Owed(i, S) == {p \in S : active[i][p] # 0 \/ (slot[p].id = i /\ slot[p].tix # {})}

OwedSpans(i, S) ==
    LET piece(p) == {q \in Owed(i, S) : active[i][q] = active[i][p] /\ slot[q].tix = slot[p].tix}
    IN SetToSortSeq({piece(p) : p \in Owed(i, S)}, LAMBDA S1, S2 : Min(S1) < Min(S2))

\* A selection of pages must be owed in full; a whole view takes what is left of it.
OwedStep(a) ==
    LET i == job[a].id  S == job[a].span IN
    /\ job[a].at = "owed"
    /\ IF S # Pages /\ Owed(i, S) # S
       THEN Goto(a, "failed")
       ELSE job' = [job EXCEPT ![a].at = "next", ![a].todo = OwedSpans(i, S)]
    /\ UNCHANGED <<space, maps, sync, held, tickets, chain, freed>>

NextSpan(a) ==
    /\ job[a].at = "next"
    /\ IF job[a].todo = << >>
       THEN Goto(a, "done")
       ELSE job' = [job EXCEPT ![a].at = "ready", ![a].span = Head(job[a].todo), ![a].todo = Tail(@)]
    /\ UNCHANGED <<space, maps, sync, held, tickets, chain, freed>>

\* withdraw lets the lock of ready_state go before it takes occupancy and state together.
WithdrawReady(a) ==
    /\ Ready(a) /\ job[a].op \in {"detach", "dispose", "retry"}
    /\ Goto(a, "cut")
    /\ UNCHANGED <<space, maps, sync, held, tickets, chain, freed>>

\* The span is not this generation's any more, another change came first, or preparing failed.
WithdrawFails(a) ==
    LET i == job[a].id IN
    /\ job[a].at = "cut"
    /\ \/ Closed \/ inv # "Clean" \/ \E p \in job[a].span : slot[p].id # i
       \/ fails < MaxFail
    /\ fails' = IF Closed \/ inv # "Clean" \/ \E p \in job[a].span : slot[p].id # i
                THEN fails ELSE fails + 1
    /\ Goto(a, "failed")
    /\ UNCHANGED <<space, maps, inv, phase, retired, pending, held, tickets, chain, freed>>

WithdrawIf(a, listed, keep) ==
    LET i == job[a].id
        S == job[a].span
        fresh == {p \in S : slot[p].tix = {}}
        tix(p) == IF p \in fresh THEN fresh ELSE slot[p].tix
        mine == {<<i, tix(p)>> : p \in S}
    IN
    /\ job[a].at = "cut" /\ ~Closed /\ inv = "Clean"
    /\ \A p \in S : slot[p].id = i
    /\ slot' = [p \in Pages |-> IF p \notin S THEN slot[p]
                                ELSE IF keep THEN [id |-> i, tix |-> tix(p)] ELSE Free]
    /\ pte' = [p \in Pages |-> IF p \in S THEN None ELSE pte[p]]
    /\ stale' = stale \cup {<<p, pte[p]>> : p \in {q \in S : pte[q] # None}}
    /\ published' = [published EXCEPT ![i] = @ \ S]
    /\ retired' = retired \cup {<<i, p>> : p \in S \cap published[i]}
    /\ active' = [active EXCEPT ![i] = [p \in Pages |-> IF p \in S THEN 0 ELSE @[p]]]
    /\ index' = IF Active(i) \subseteq S THEN index \ {i} ELSE index \cup {i}
    /\ tickets' = tickets \cup IF listed THEN mine ELSE {}
    /\ pending' = pending \cup {i}
    /\ inv' = "Dirty"
    /\ job' = [job EXCEPT ![a].at = "sync", ![a].ret = "settle", ![a].tix = mine]
    /\ UNCHANGED <<nextId, cleanups, reserved, ceiling, phase, fails, held, chain, freed>>

\* As if the address were given back before the harts had forgotten it.
WithdrawEager(a) == WithdrawIf(a, TRUE, FALSE)

Withdraw(a) == WithdrawIf(a, TRUE, TRUE)

WithdrawSettle(a) ==
    /\ job[a].at = "settle"
    /\ tickets' = tickets \ job[a].tix
    /\ Goto(a, "reclaim")
    /\ UNCHANGED <<space, maps, sync, held, chain, freed>>

\* reclaim of Occupancy, one call for all tickets: the lock is held throughout.
Reclaim(T) ==
    LET gone == {p \in Pages : <<slot[p].id, slot[p].tix>> \in T} IN
    /\ slot' = [p \in Pages |-> IF p \in gone THEN Free ELSE slot[p]]
    /\ cleanups' = cleanups \ {i \in {slot[p].id : p \in gone} : Extent(i) \subseteq gone}

ReclaimStep(a) ==
    /\ job[a].at = "reclaim"
    /\ Reclaim(job[a].tix)
    /\ job' = [job EXCEPT ![a].at = "next", ![a].tix = {}]
    /\ UNCHANGED <<maps, sync, nextId, reserved, held, tickets, chain, freed>>

Done(a) ==
    /\ job[a].at = "done"
    /\ IF job[a].op = "retry" THEN Goto(a, "drain") ELSE Return(a)
    /\ UNCHANGED <<space, maps, sync, held, tickets, chain, freed>>

\* The call returns an error; a cleanup node in hand goes to the chain.
FailedIf(a, keep) ==
    /\ job[a].at = "failed" /\ job[a].op # "attach"
    /\ chain' = IF Closed /\ job[a].op = "retry" THEN {}
                ELSE chain \cup IF job[a].node # 0 /\ keep /\ ~Closed THEN {job[a].node} ELSE {}
    /\ Return(a)
    /\ UNCHANGED <<space, maps, sync, held, tickets, freed>>

\* As if the view of a failed dispose were simply dropped.
FailedForgets(a) == FailedIf(a, FALSE)

Failed(a) == FailedIf(a, TRUE)

----------------------------------------------------------------------------
(* Retrying and closing *)

RetryInvalidation(a) ==
    /\ "retry" \in Ops /\ job[a].op = "idle"
    /\ job' = [job EXCEPT ![a] = [Idle EXCEPT !.op = "retry", !.at = "sync", !.ret = "take"]]
    /\ UNCHANGED <<space, maps, sync, held, tickets, chain, freed>>

\* retry_invalidation after the shootdown: take all tickets, or drain a closed space.
RetryTake(a) ==
    /\ job[a].at = "take"
    /\ tickets' = IF Closed THEN tickets ELSE {}
    /\ chain' = IF Closed THEN {} ELSE chain
    /\ job' = [job EXCEPT ![a] = IF Closed THEN Idle ELSE [@ EXCEPT !.at = "give", !.tix = tickets]]
    /\ UNCHANGED <<space, maps, sync, held, freed>>

RetryReclaim(a) ==
    /\ job[a].at = "give"
    /\ Reclaim(job[a].tix)
    /\ job' = [job EXCEPT ![a].at = "drain", ![a].tix = {}, ![a].node = 0]
    /\ UNCHANGED <<maps, sync, nextId, reserved, held, tickets, chain, freed>>

\* take_cleanup: the next view of the chain is detached as a whole.
RetryNode(a, i) ==
    /\ job[a].at = "drain" /\ i \in chain
    /\ chain' = chain \ {i}
    /\ job' = [job EXCEPT ![a] = [@ EXCEPT !.at = "detach", !.id = i, !.node = i, !.span = Pages]]
    /\ UNCHANGED <<space, maps, sync, held, tickets, freed>>

RetryEnd(a) ==
    /\ job[a].at = "drain" /\ chain = {}
    /\ Return(a)
    /\ UNCHANGED <<space, maps, sync, held, tickets, chain, freed>>

Close(a) ==
    /\ "close" \in Ops /\ job[a].op = "idle" /\ ~freed
    /\ Call(a, "close", "close", 0)
    /\ UNCHANGED <<space, maps, sync, held, tickets, chain, freed>>

CloseWait(a) ==
    /\ job[a].at = "close" /\ ~Closed /\ inv # "Clean"
    /\ Sync(a, "close")
    /\ UNCHANGED <<space, maps, sync, held, tickets, chain, freed>>

CloseAll(a) ==
    /\ job[a].at = "close" /\ ~Closed /\ inv = "Clean"
    /\ pte' = [p \in Pages |-> None]
    /\ stale' = stale \cup {<<p, pte[p]>> : p \in {q \in Pages : pte[q] # None}}
    /\ retired' = retired \cup UNION {{<<i, p>> : p \in published[i]} : i \in index}
    /\ pending' = pending \cup index
    /\ published' = [i \in Ids |-> IF i \in index THEN {} ELSE published[i]]
    /\ active' = [i \in Ids |-> IF i \in index THEN [p \in Pages |-> 0] ELSE active[i]]
    /\ index' = {}
    /\ inv' = "Dirty" /\ phase' = "Closing"
    /\ Sync(a, "close")
    /\ UNCHANGED <<space, ceiling, fails, held, tickets, chain, freed>>

\* drain_closed; retire goes on and gives the ASID back, unless its shootdown fails.
CloseDrainIf(a, f, ok) ==
    /\ job[a].at = "close" /\ ok
    /\ chain' = {}
    /\ freed' = (freed \/ f)
    /\ Return(a)
    /\ UNCHANGED <<space, maps, sync, held, tickets>>

CloseDrain(a, f) == CloseDrainIf(a, f, Closed)

----------------------------------------------------------------------------
Begin(a) ==
    \/ \E S \in Spans : Reserve(a, S)
    \/ \E i \in Ids : ReleaseReserved(a, i) \/ Attach(a, i) \/ Dispose(a, i)
    \/ \E i \in Ids, p \in Pages : Change(a, "publish", i, p, 0)
    \/ \E i \in Ids, p \in Pages, acc \in 1 .. 2 :
          Change(a, "access", i, p, acc) \/ Change(a, "narrow", i, p, acc)
    \/ \E i \in Ids, S \in Spans : DetachPages(a, i, S)
    \/ RetryInvalidation(a) \/ Close(a)

Invalidate(a) ==
    \/ FinishClean(a) \/ FinishBegin(a) \/ FinishOk(a) \/ FinishFail(a)
    \/ NotReady(a) \/ ReadyWait(a)

Map(a) ==
    \/ \E M \in SUBSET Pages, acc \in Levels : Commit(a, M, acc)
    \/ Attached(a) \/ SettleFailedInstall(a)
    \/ Refused(a) \/ PublishSpan(a) \/ SetAccess(a) \/ Narrow(a)

Unmap(a) ==
    \/ Detach(a) \/ OwedStep(a) \/ NextSpan(a) \/ WithdrawReady(a) \/ WithdrawFails(a)
    \/ Withdraw(a) \/ WithdrawSettle(a) \/ ReclaimStep(a) \/ Done(a) \/ Failed(a)
    \/ RetryTake(a) \/ RetryReclaim(a) \/ (\E i \in Ids : RetryNode(a, i)) \/ RetryEnd(a)
    \/ CloseWait(a) \/ CloseAll(a) \/ \E f \in BOOLEAN : CloseDrain(a, f)

Next == \E a \in Actors : Begin(a) \/ Invalidate(a) \/ Map(a) \/ Unmap(a)

Spec == Init /\ [][Next]_vars

----------------------------------------------------------------------------
(* Properties *)

\* The variables have their types; a ticket in a slot covers that slot.
TypeOK ==
    /\ \A p \in Pages : slot[p].id \in 0 .. MaxId /\ (slot[p].tix # {} => p \in slot[p].tix)
    /\ nextId \in 1 .. MaxId + 1
    /\ UNION {cleanups, reserved, held, index, pending, chain} \subseteq Ids
    /\ inv \in {"Clean", "Dirty", "Fencing", "Failed"}
    /\ phase \in {"Open", "Closing", "Closed"}
    /\ fails \in 0 .. MaxFail
    /\ freed \in BOOLEAN
    /\ \A i \in Ids, p \in Pages : active[i][p] <= ceiling[i][p]

\* While some hart may hold an old translation of a page, the page belongs to the
\* reservation it was mapped for: the address cannot be handed to another view.
NoReuse == ~Closed => \A s \in stale : slot[s[1]].id = s[2].id

\* A page is not mapped for a view while a hart may translate it for another one.
NoAlias == \A s \in stale : pte[s[1]] = None \/ pte[s[1]].id = s[2].id

\* The harts have nothing old to forget when the space says it is clean.
CleanIsFlushed == inv = "Clean" => stale = {}

\* audit: a page has an entry exactly when its view published it and is active there,
\* with the access the view has, and the view occupies it without a ticket.
Audit ==
    \A p \in Pages :
        IF pte[p] = None
        THEN \A i \in index : p \notin published[i]
        ELSE LET i == pte[p].id IN
             /\ i \in index /\ p \in published[i] /\ active[i][p] = pte[p].acc
             /\ slot[p] = [id |-> i, tix |-> {}]

\* A page that retires is settled by someone: its ticket is listed or in a call's hands.
TicketOwed ==
    ~Closed => \A p \in Pages : slot[p].tix # {} =>
        <<slot[p].id, slot[p].tix>> \in tickets \cup UNION {job[a].tix : a \in Actors}

\* A view no caller holds and that still occupies pages is on the cleanup chain or in a
\* call's hands, or its pages only wait for their tickets: a failed dispose loses nothing.
DisposeOwed ==
    ~Closed => \A i \in 1 .. nextId - 1 :
        \/ i \in reserved \cup held \cup chain \cup {job[a].id : a \in Actors}
        \/ \A p \in Pages : slot[p].id = i => slot[p].tix # {}

\* An ASID is given back only by a closed space that no hart remembers, and such a
\* space takes no mapping again.
FreedIsQuiet == freed => Closed /\ stale = {} /\ \A p \in Pages : pte[p] = None
=============================================================================
