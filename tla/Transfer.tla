------------------------------ MODULE Transfer ------------------------------
(***************************************************************************)
(* Moving the frame of one page of a source (Flat) into an empty page of   *)
(* another while views of several address spaces map it, tasks fault on    *)
(* it, views come and go, and shootdowns fail.                             *)
(*                                                                         *)
(* A page of a Flat is a member of Pages.  The states of a page's slot are *)
(* those of Slot, Fresh standing for a page without a slot.  The custody   *)
(* of a frame is InTransit exactly while a Moving slot holds it, so it is  *)
(* not a variable.  An address of a view is named by the page it maps.     *)
(* How a nest settles an invalidation is the subject of module Nest; here  *)
(* finish_invalidation is one step that succeeds or fails.                 *)
(***************************************************************************)
EXTENDS Integers, FiniteSets, FiniteSetsExt

CONSTANTS Actors,
          Pages,
          Flat(_),    \* the Flat of a page
          Frames,
          Views,
          Window(_),  \* the pages of one Flat a view maps
          Owner(_),   \* the nest of a view
          Global,     \* the views of the kernel, or of global entries
          MaxFail,    \* bound: shootdowns and preparations that fail
          Ops,        \* the calls made besides transfer
          None

\* What the constants of an instance satisfy.
Assumptions ==
    /\ Global \subseteq Views /\ MaxFail \in Nat
    /\ \A v \in Views : Window(v) \subseteq Pages /\ Window(v) # {}
    /\ Ops \subseteq {"attach", "dispose", "fault", "hold"}

VARIABLES slot,       \* page -> its Slot
          pins,       \* actor -> pages its residency covers
          plain,      \* Flats that may still be transferred
          registered, \* views source_views knows
          index,      \* views in the index of their nest
          chain,      \* views on the cleanup chain of their nest
          published,  \* view -> page -> the published frame
          stale,      \* translations harts may hold though the PTE is gone
          dirty,      \* nests whose invalidation is not clean
          fails,      \* how many failed
          job         \* actor -> the call it is in

flats == <<slot, pins, plain>>
nests == <<registered, index, chain, published, stale, dirty>>
vars == <<flats, nests, fails, job>>

Nests == {Owner(v) : v \in Views}
Flats == {Flat(p) : p \in Pages}
Fresh == [is |-> "Fresh", frame |-> None, by |-> None]
Missing == [is |-> "Missing", frame |-> None, by |-> None]
Resident(f) == [is |-> "Resident", frame |-> f, by |-> None]
Moving(f, a) == [is |-> "Moving", frame |-> f, by |-> a]
\* Reserved remembers which kind of empty page it was.
Reserved(a, was) == [is |-> was, frame |-> None, by |-> a]
Idle == [op |-> "idle", at |-> "idle", ret |-> "idle", view |-> None, from |-> None,
         to |-> None, todo |-> {}, affected |-> {}, snap |-> {}]

Init ==
    /\ slot = [p \in Pages |-> Fresh]
    /\ pins = [a \in Actors |-> {}]
    /\ plain = Flats
    /\ registered = {} /\ index = {} /\ chain = {}
    /\ published = [v \in Views |-> [p \in Window(v) |-> None]]
    /\ stale = {} /\ dirty = {}
    /\ fails = 0
    /\ job = [a \in Actors |-> Idle]

InTransit(p) == slot[p].by # None
CanMaterialize(p) == ~InTransit(p) /\ slot[p].is \in {"Fresh", "Resident"}
Pinned(p) == \E a \in Actors : p \in pins[a]
Busy(P) == \E p \in P : InTransit(p)
Free == Frames \ {slot[p].frame : p \in Pages}
Pressing(p) == {v \in registered : p \in Window(v)}

Goto(a, at) == job' = [job EXCEPT ![a].at = at]
Return(a) == job' = [job EXCEPT ![a] = Idle]
\* finish_invalidation of the nest of view v, and then ret.
Sync(a, v, ret) == job' = [job EXCEPT ![a].at = "sync", ![a].view = v, ![a].ret = ret]

----------------------------------------------------------------------------
(* finish_invalidation *)

SyncOk(a) ==
    LET n == Owner(job[a].view) IN
    /\ job[a].at = "sync"
    /\ dirty' = dirty \ {n}
    /\ stale' = {x \in stale : Owner(x.view) # n}
    /\ Goto(a, job[a].ret)
    /\ UNCHANGED <<flats, registered, index, chain, published, fails>>

SyncFail(a) ==
    /\ job[a].at = "sync" /\ Owner(job[a].view) \in dirty /\ fails < MaxFail
    /\ fails' = fails + 1
    /\ Goto(a, "failed")
    /\ UNCHANGED <<flats, nests>>

\* The PTE of page p and the record of its frame go; harts may still hold them.
Unpublish(v, P) ==
    /\ published' = [published EXCEPT ![v] = [p \in Window(v) |-> IF p \in P THEN None ELSE @[p]]]
    /\ stale' = stale \cup {[view |-> v, page |-> p, frame |-> published[v][p]] :
                              p \in {q \in P : published[v][q] # None}}
    /\ dirty' = dirty \cup {Owner(v)}

----------------------------------------------------------------------------
(* Transfer::execute *)

\* Transaction::claim, with the candidates collected inside it.  The affected
\* views are those of the candidates whose window has one of the two pages.
ClaimWith(a, p, q, asked, affected) ==
    /\ job[a].op = "idle" /\ p # q
    /\ {Flat(p), Flat(q)} \subseteq plain
    /\ \A r \in asked : ~Pinned(r)
    /\ ~InTransit(p) /\ ~InTransit(q)
    /\ slot[p].is = "Resident" /\ slot[q].is \in {"Fresh", "Missing"}
    /\ slot' = [slot EXCEPT ![p] = Moving(@.frame, a), ![q] = Reserved(a, @.is)]
    /\ job' = [job EXCEPT ![a] = [Idle EXCEPT !.op = "transfer", !.at = "press", !.from = p,
                                              !.to = q, !.affected = affected]]
    /\ UNCHANGED <<pins, plain, nests, fails>>

Claim(a, p, q) == ClaimWith(a, p, q, {p, q}, Pressing(p) \cup Pressing(q))

\* pressings_over; what cannot be withdrawn is refused before anything is.
Press(a) ==
    LET P == Pressing(job[a].from) IN
    /\ job[a].at = "press"
    /\ job' = [job EXCEPT ![a].at = IF P \cap Global = {} THEN "next" ELSE "failed", ![a].todo = P]
    /\ UNCHANGED <<flats, nests, fails>>

PressNext(a) ==
    /\ job[a].at = "next"
    /\ IF job[a].todo = {} THEN Goto(a, "commit")
       ELSE \E v \in job[a].todo : Sync(a, v, "unpublish")
    /\ UNCHANGED <<flats, nests, fails>>

\* unpublish_page of the view at hand, between the two settlements of its nest.
UnpublishPageIf(a, v, p, clean) ==
    /\ job[a].at = "unpublish"
    /\ IF ~clean
       THEN Goto(a, "failed") /\ UNCHANGED <<nests, fails>>
       ELSE IF published[v][p] = None
       THEN job' = [job EXCEPT ![a].at = "next", ![a].todo = @ \ {v}] /\ UNCHANGED <<nests, fails>>
       ELSE \/ Unpublish(v, {p})
               /\ job' = [job EXCEPT ![a].at = "sync", ![a].ret = "next", ![a].todo = @ \ {v}]
               /\ UNCHANGED <<registered, index, chain, fails>>
            \/ fails < MaxFail /\ fails' = fails + 1
               /\ Goto(a, "failed") /\ UNCHANGED nests
    /\ UNCHANGED flats

\* As if the page were looked up without asking whether the nest is clean.
UnpublishDirty(a, v, p) == UnpublishPageIf(a, v, p, TRUE)
UnpublishPage(a, v, p) == UnpublishPageIf(a, v, p, Owner(v) \notin dirty)

SettleAs(a, left, filled) ==
    /\ job[a].at = "commit"
    /\ slot' = [slot EXCEPT ![job[a].from] = left, ![job[a].to] = filled]
    /\ Goto(a, "wake")
    /\ UNCHANGED <<pins, plain, nests, fails>>

Settle(a) == SettleAs(a, Missing, Resident(slot[job[a].from].frame))

\* The transaction dropped: both pages as they were.
RollbackTo(a, was) ==
    LET p == job[a].from
        q == job[a].to IN
    /\ job[a].op = "transfer" /\ job[a].at = "failed"
    /\ slot' = [slot EXCEPT ![p] = Resident(@.frame), ![q] = was]
    /\ Goto(a, "wake")
    /\ UNCHANGED <<pins, plain, nests, fails>>

\* As if the reservation always came back fresh.
RollbackFresh(a) == RollbackTo(a, Fresh)
Rollback(a) == RollbackTo(a, [slot[job[a].to] EXCEPT !.by = None])

\* A signal on the key of view v, among the jobs j.
Signal(j, v) == [t \in Actors |-> IF j[t].at = "asleep" /\ j[t].view = v THEN Idle ELSE j[t]]

Wake(a) ==
    /\ job[a].op = "transfer" /\ job[a].at = "wake"
    /\ IF job[a].affected = {} THEN Return(a)
       ELSE \E v \in job[a].affected : job' = Signal([job EXCEPT ![a].affected = @ \ {v}], v)
    /\ UNCHANGED <<flats, nests, fails>>

----------------------------------------------------------------------------
(* Attaching a view: Nest::commit *)

AttachLease(a, v, lease) ==
    /\ "attach" \in Ops /\ job[a].op = "idle" /\ v \notin registered
    /\ \A b \in Actors : job[b].view # v
    /\ ~Busy(lease)
    /\ pins' = [pins EXCEPT ![a] = lease]
    /\ job' = [job EXCEPT ![a] = [Idle EXCEPT !.op = "attach", !.at = "snap", !.view = v]]
    /\ UNCHANGED <<slot, plain, nests, fails>>

Attach(a, v) == AttachLease(a, v, Window(v))

\* The frames the pages hold now; the nest is settled before the entries go in.
AttachSnap(a) ==
    LET v == job[a].view IN
    /\ job[a].at = "snap"
    /\ job' = [job EXCEPT ![a].at = "sync", ![a].ret = "install",
                          ![a].snap = {<<p, slot[p].frame>> : p \in {q \in Window(v) : slot[q].is = "Resident"}}]
    /\ UNCHANGED <<flats, nests, fails>>

Installed(v, snap) == [p \in Window(v) |-> IF \E x \in snap : x[1] = p
                                           THEN (CHOOSE x \in snap : x[1] = p)[2] ELSE published[v][p]]

Install(a) ==
    LET v == job[a].view IN
    /\ job[a].at = "install"
    /\ IF Owner(v) \in dirty THEN Sync(a, v, "install") /\ UNCHANGED <<flats, nests>>
       ELSE /\ registered' = registered \cup {v}
            /\ plain' = IF v \in Global THEN plain \ {Flat(p) : p \in Window(v)} ELSE plain
            /\ published' = [published EXCEPT ![v] = Installed(v, job[a].snap)]
            /\ index' = index \cup {v}
            /\ dirty' = dirty \cup {Owner(v)}
            /\ pins' = [pins EXCEPT ![a] = {}]
            /\ Sync(a, v, "done")
            /\ UNCHANGED <<slot, chain, stale>>
    /\ UNCHANGED fails

Done(a) ==
    /\ job[a].at = "done"
    /\ Return(a)
    /\ UNCHANGED <<flats, nests, fails>>

\* settle_failed_install: what was published is left to the cleanup chain.
AttachFailed(a) ==
    LET v == job[a].view IN
    /\ job[a].op = "attach" /\ job[a].at = "failed"
    /\ chain' = IF v \in index THEN chain \cup {v} ELSE chain
    /\ pins' = [pins EXCEPT ![a] = {}]
    /\ Return(a)
    /\ UNCHANGED <<slot, plain, registered, index, published, stale, dirty, fails>>

----------------------------------------------------------------------------
(* Space::dispose of a view *)

Dispose(a, v) ==
    /\ "dispose" \in Ops /\ job[a].op = "idle" /\ v \in index \ chain
    /\ \A b \in Actors : job[b].op # "dispose" \/ job[b].view # v
    /\ job' = [job EXCEPT ![a] = [Idle EXCEPT !.op = "dispose", !.at = "sync", !.ret = "withdraw", !.view = v]]
    /\ UNCHANGED <<flats, nests, fails>>

\* The detach inside dispose, and inside the drain of the cleanup chain.
Withdraw(a) ==
    LET v == job[a].view IN
    /\ job[a].at = "withdraw"
    /\ IF Owner(v) \in dirty
       THEN Goto(a, "failed") /\ UNCHANGED <<published, stale, dirty, index>>
       ELSE IF v \notin index
       THEN Goto(a, "withdrawn") /\ UNCHANGED <<published, stale, dirty, index>>
       ELSE /\ Unpublish(v, Window(v))
            /\ index' = index \ {v}
            /\ Sync(a, v, "withdrawn")
    /\ UNCHANGED <<flats, registered, chain, fails>>

Disposed(a) ==
    LET v == job[a].view IN
    /\ job[a].op = "dispose" /\ job[a].at \in {"withdrawn", "failed"}
    /\ chain' = IF job[a].at = "failed" THEN chain \cup {v} ELSE chain
    /\ job' = Signal([job EXCEPT ![a] = Idle], v)
    /\ UNCHANGED <<flats, registered, index, published, stale, dirty, fails>>

----------------------------------------------------------------------------
(* A page fault *)

Probe(v, p) ==
    IF Owner(v) \in dirty THEN "Materialize"
    ELSE IF v \notin index THEN "Invalid"
    ELSE IF ~CanMaterialize(p) THEN "Wait"
    ELSE IF published[v][p] # None THEN "Resolved" ELSE "Materialize"

Fault(a, v, p) ==
    /\ "fault" \in Ops /\ job[a].op = "idle" /\ p \in Window(v)
    /\ published[v][p] = None /\ v \in index
    /\ job' = [job EXCEPT ![a] = [Idle EXCEPT !.op = "fault", !.at = "probe", !.view = v, !.from = p]]
    /\ UNCHANGED <<flats, nests, fails>>

\* The first probe of the trap handler, and the one resolve_fault makes after
\* it settled what was pending.
FaultProbe(a) ==
    LET v == job[a].view
        to == IF job[a].at = "probe" THEN "retry" ELSE "materialize" IN
    /\ job[a].at \in {"probe", "again"}
    /\ CASE Probe(v, job[a].from) = "Materialize" -> Goto(a, to)
         [] Probe(v, job[a].from) = "Wait" -> Goto(a, "wait")
         [] OTHER -> Return(a)
    /\ UNCHANGED <<flats, nests, fails>>

\* retry_invalidation, when something is pending.
Retry(a) ==
    /\ job[a].at = "retry"
    /\ IF Owner(job[a].view) \in dirty THEN Sync(a, job[a].view, "drain") ELSE Goto(a, "again")
    /\ UNCHANGED <<flats, nests, fails>>

\* One view of the cleanup chain is taken off and detached: view is now that
\* view, and the faulting view waits in todo.
DrainTake(a) ==
    LET v == job[a].view
        C == {c \in chain : Owner(c) = Owner(v)} IN
    /\ job[a].at = "drain"
    /\ IF C = {} THEN Goto(a, "again") /\ UNCHANGED chain
       ELSE \E c \in C :
              /\ chain' = chain \ {c}
              /\ job' = [job EXCEPT ![a].at = "sync", ![a].ret = "withdraw", ![a].view = c, ![a].todo = {v}]
    /\ UNCHANGED <<flats, registered, index, published, stale, dirty, fails>>

Drained(a) ==
    /\ job[a].op = "fault" /\ job[a].at = "withdrawn"
    /\ job' = [job EXCEPT ![a].at = "drain", ![a].view = CHOOSE v \in job[a].todo : TRUE, ![a].todo = {}]
    /\ UNCHANGED <<flats, nests, fails>>

\* A resource failure ends the task; a view taken off the chain goes back.
FaultFailed(a) ==
    /\ job[a].op = "fault" /\ job[a].at = "failed"
    /\ chain' = IF job[a].todo = {} THEN chain ELSE chain \cup {job[a].view}
    /\ Return(a)
    /\ UNCHANGED <<flats, registered, index, published, stale, dirty, fails>>

\* materialize_page: the Flat first.  Busy and Missing are probed again.
Materialize(a) ==
    LET p == job[a].from IN
    /\ job[a].at = "materialize"
    /\ IF job[a].view \notin index \/ ~CanMaterialize(p)
       THEN Goto(a, "last") /\ UNCHANGED slot
       ELSE /\ IF slot[p] = Fresh THEN \E f \in Free : slot' = [slot EXCEPT ![p] = Resident(f)]
               ELSE UNCHANGED slot
            /\ Goto(a, "publish")
    /\ UNCHANGED <<pins, plain, nests, fails>>

\* publish_span, then the settlement of its own entry.
PublishSpan(a) ==
    LET v == job[a].view
        p == job[a].from IN
    /\ job[a].at = "publish"
    /\ IF Owner(v) \in dirty THEN Sync(a, v, "publish") /\ UNCHANGED <<published, dirty, plain>>
       ELSE IF v \notin index \/ InTransit(p) \/ slot[p].is # "Resident" \/ published[v][p] # None
       THEN Goto(a, "last") /\ UNCHANGED <<published, dirty, plain>>
       ELSE /\ published' = [published EXCEPT ![v][p] = slot[p].frame]
            /\ plain' = IF v \in Global THEN plain \ {Flat(p)} ELSE plain
            /\ dirty' = dirty \cup {Owner(v)}
            /\ Sync(a, v, "last")
    /\ UNCHANGED <<slot, pins, registered, index, chain, stale, fails>>

\* The last probe: wait, or run the instruction again.
FaultLast(a) ==
    /\ job[a].at = "last"
    /\ IF Probe(job[a].view, job[a].from) = "Wait" THEN Goto(a, "wait") ELSE Return(a)
    /\ UNCHANGED <<flats, nests, fails>>

\* wait_until: the predicate is read and the key registered in one commit.
FaultWaitIf(a, ready) ==
    /\ job[a].at = "wait"
    /\ IF ready THEN Return(a) ELSE Goto(a, "asleep")
    /\ UNCHANGED <<flats, nests, fails>>

FaultWait(a) == FaultWaitIf(a, Probe(job[a].view, job[a].from) # "Wait")

----------------------------------------------------------------------------
(* A residency of its own: an independent hold over a page *)

Reside(a, p) ==
    /\ "hold" \in Ops /\ job[a].op = "idle" /\ ~Busy({p})
    /\ pins' = [pins EXCEPT ![a] = {p}]
    /\ job' = [job EXCEPT ![a] = [Idle EXCEPT !.op = "hold", !.at = "hold"]]
    /\ UNCHANGED <<slot, plain, nests, fails>>

ReleaseResidency(a) ==
    /\ job[a].at = "hold"
    /\ pins' = [pins EXCEPT ![a] = {}]
    /\ Return(a)
    /\ UNCHANGED <<slot, plain, nests, fails>>

----------------------------------------------------------------------------
Next == \E a \in Actors :
    \/ SyncOk(a) \/ SyncFail(a)
    \/ \E p, q \in Pages : Claim(a, p, q)
    \/ Press(a) \/ PressNext(a)
    \/ UnpublishPage(a, job[a].view, job[a].from)
    \/ Settle(a) \/ Rollback(a) \/ Wake(a)
    \/ \E v \in Views : Attach(a, v) \/ Dispose(a, v) \/ \E p \in Pages : Fault(a, v, p)
    \/ AttachSnap(a) \/ Install(a) \/ Done(a) \/ AttachFailed(a)
    \/ Withdraw(a) \/ Disposed(a)
    \/ FaultProbe(a) \/ Retry(a) \/ DrainTake(a) \/ Drained(a) \/ FaultFailed(a)
    \/ Materialize(a) \/ PublishSpan(a) \/ FaultLast(a) \/ FaultWait(a)
    \/ \E p \in Pages : Reside(a, p)
    \/ ReleaseResidency(a)

Spec == Init /\ [][Next]_vars

----------------------------------------------------------------------------
(* Properties *)

Slots == {Fresh, Missing} \cup {Resident(f) : f \in Frames}
         \cup {Moving(f, a) : f \in Frames, a \in Actors}
         \cup {Reserved(a, was) : a \in Actors, was \in {"Fresh", "Missing"}}

\* Every page is in one of the states of Slot, and a Flat is missing a frame
\* only because a transfer took it.
TypeOK ==
    /\ slot \in [Pages -> Slots]
    /\ pins \in [Actors -> SUBSET Pages]
    /\ plain \subseteq Flats /\ index \subseteq registered /\ registered \subseteq Views
    /\ dirty \subseteq Nests /\ chain \subseteq registered
    /\ \A v \in Views : published[v] \in [Window(v) -> Frames \cup {None}]
    /\ fails \in 0 .. MaxFail

\* What a hart can reach through a view, by a current entry or by one it has
\* not forgotten, is the frame its page holds: a transfer never leaves a view
\* reading memory that belongs to another page (transfer/mod.rs).
NoStaleCarrier ==
    /\ \A v \in Views : \A p \in Window(v) :
         published[v][p] # None => slot[p].frame = published[v][p]
    /\ \A x \in stale : slot[x.page].frame = x.frame

\* A frame is in one slot, and the slots in transit are exactly the two pages
\* of a transfer that has not settled.
OneHome ==
    /\ \A p, q \in Pages : slot[p].frame # None /\ slot[p].frame = slot[q].frame => p = q
    /\ \A p \in Pages : InTransit(p) => p \in {job[slot[p].by].from, job[slot[p].by].to}
    /\ \A p, q \in Pages : slot[p].is = "Moving" /\ slot[q].by = slot[p].by /\ p # q
                             => slot[q].frame = None

\* No page in transit, and no page of a Flat with a kernel or global entry,
\* is covered by a residency or by an entry that no shootdown can remove.
FixedStays ==
    /\ \A p \in Pages : InTransit(p) => ~Pinned(p)
    /\ \A v \in Global, p \in Pages :
         p \in Window(v) /\ v \in index /\ published[v][p] # None
           => ~InTransit(p) /\ Flat(p) \notin plain

\* A tombstone becomes a page again only by a transfer into it: it never turns
\* fresh, where the next fault would fill it with zeroes (flat/transaction.rs).
TombstoneKeptStep ==
    \A p \in Pages : slot[p].is = "Missing" => slot'[p].is \in {"Missing", "Resident"}

Owes(a, v) == \/ job[a].op = "transfer" /\ v \in job[a].affected
              \/ job[a].op = "dispose" /\ job[a].view = v

\* A task asleep on a page that has its frame again is owed a wake.
PageHeard ==
    \A t \in Actors :
        job[t].at = "asleep" /\ job[t].view \in index /\ CanMaterialize(job[t].from)
          => \E a \in Actors : Owes(a, job[t].view)

=============================================================================
