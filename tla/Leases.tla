------------------------------- MODULE Leases -------------------------------
(***************************************************************************)
(* The lease source of the system supply: one provider's ledger of leases   *)
(* and watermarks (system/supply/lease.rs), the source that runs a request  *)
(* against it (system/supply/mod.rs), and the two users of that source: the *)
(* composition root, which owns one lease per task and binding              *)
(* (system/app/supplies.rs), and remote requesters, whose calls may be      *)
(* repeated, reordered or lost (system/client/src/supply/face.rs).          *)
(*                                                                          *)
(* A lease key is <<requester, id>>.  A parameter set is the pair of target *)
(* and binding.  Everything runs in the system's one task, so a request is  *)
(* one step; what may fail inside it (a derivation, a delivery, a           *)
(* revocation) is chosen with the step and bounded by Failures.             *)
(***************************************************************************)
EXTENDS Naturals, FiniteSets, FiniteSetsExt, Sequences, SequencesExt

CONSTANTS Tasks,      \* tasks that receive leases
          Bindings,   \* bindings a unit may declare
          Absent,     \* bindings whose resource no definition provides
          Remotes,    \* requesters other than the system itself
          MaxId,      \* bound on lease ids
          Width,      \* roots of one provision (MAX_ROOTS)
          RecordCap,  \* MAX_LEASES
          CallerCap,  \* MAX_CALLERS
          Failures    \* bound on failing effects

VARIABLES book,    \* the ledger: records, watermarks, and the kernel's live roots
          leases,  \* Supplies.leases
          next,    \* LeaseIds.next
          dead,    \* tasks that have ended
          stopped, \* the definitions have been shut down
          faults   \* failing effects left

leasesVars == <<book, leases, next, dead, stopped, faults>>

System == "system"
Phases == {"acquiring", "granted", "releasing", "released", "closed"}
Params == Tasks \X Bindings
NoParams == <<"none", "none">>
Keys == (Remotes \cup {System}) \X (1 .. MaxId)

Assumptions == /\ Absent \subseteq Bindings
               /\ System \notin Remotes
               /\ {MaxId, Width, RecordCap, CallerCap} \subseteq Nat \ {0}
               /\ Failures \in Nat

(***************************************************************************)
(* The ledger.                                                              *)
(***************************************************************************)
Seen(b, k) == k \in DOMAIN b.records
Stale(b, k) == k[1] \in DOMAIN b.marks /\ k[2] <= b.marks[k[1]].last
Newest(b, k) == Stale(b, k) /\ k[2] = b.marks[k[1]].last
Settled(b, k) == Stale(b, k) /\ ~Seen(b, k)

With(f, k, v) == [x \in DOMAIN f \cup {k} |-> IF x = k THEN v ELSE f[x]]
Without(f, k) == [x \in DOMAIN f \ {k} |-> f[x]]

Record(p, phase, cancelled, failed, roots) ==
    [par |-> p, phase |-> phase, cancelled |-> cancelled, failed |-> failed, roots |-> roots]
Watermark(id, p, phase, failed) == [last |-> id, par |-> p, phase |-> phase, failed |-> failed]

\* The watermark follows the phase of the newest lease of its requester.
WatermarkState(b, k, phase, failed) ==
    IF Newest(b, k)
    THEN [b EXCEPT !.marks[k[1]].phase = phase, !.marks[k[1]].failed = failed]
    ELSE b

\* What the history says of a request: its recorded answer, a conflict, or nothing.
Said(r) == IF r.failed THEN "failed" ELSE r.phase

Prior(b, k, p) ==
    LET same(r) == IF r.par = p THEN Said(r) ELSE "conflict"
    IN CASE Seen(b, k) -> same(b.records[k])
         [] Settled(b, k) /\ Newest(b, k) -> same(b.marks[k[1]])
         [] Settled(b, k) /\ ~Newest(b, k) -> "conflict"
         [] OTHER -> "unseen"

\* Room for one more record: a full ledger gives up a settled record, any of
\* them here, the eldest in the code; without one it stays full.
Evictable(b) == {k \in DOMAIN b.records : /\ b.records[k].phase \in {"released", "closed"}
                                          /\ b.records[k].roots = {}}
ReserveRecord(b) ==
    IF Cardinality(DOMAIN b.records) < RecordCap THEN {b}
    ELSE {[b EXCEPT !.records = Without(@, k)] : k \in Evictable(b)}

Reserved(b) == IF ReserveRecord(b) = {} THEN {b} ELSE ReserveRecord(b)

\* The books after a new record k is entered; none when the ledger is full.
Enter(b, k, r) ==
    {[c EXCEPT !.records = With(@, k, r),
               !.marks = With(@, k[1], Watermark(k[2], r.par, r.phase, FALSE))] :
        c \in {d \in ReserveRecord(b) : \/ k[1] \in DOMAIN d.marks
                                        \/ Cardinality(DOMAIN d.marks) < CallerCap}}

Begin(b, k, p) == Enter(b, k, Record(p, "acquiring", FALSE, FALSE, {}))

\* abort and abort_with_roots: the failed acquisition is released, with the
\* roots it had already derived.
Abort(b, k, roots) ==
    WatermarkState([b EXCEPT !.records[k] = Record(@.par, "releasing", TRUE, TRUE, roots),
                             !.live = @ \cup ({k} \X roots)], k, "releasing", TRUE)

Complete(b, k) ==
    WatermarkState([b EXCEPT !.records[k] = Record(@.par, "granted", FALSE, FALSE, 1 .. Width),
                             !.live = @ \cup ({k} \X (1 .. Width))], k, "granted", FALSE)

\* cancel: an acquisition under way is released, an unseen id is closed for
\* good; the answer says which.
Cancel(b, k) ==
    CASE Seen(b, k) /\ b.records[k].phase = "acquiring" ->
           {[book |-> WatermarkState([b EXCEPT !.records[k].phase = "releasing",
                                               !.records[k].cancelled = TRUE], k, "releasing", FALSE),
             said |-> "releasing"]}
      [] Seen(b, k) /\ b.records[k].phase # "acquiring" ->
           {[book |-> b, said |-> b.records[k].phase]}
      [] Settled(b, k) -> {[book |-> c, said |-> "conflict"] : c \in Reserved(b)}
      [] OTHER ->
           LET entered == Enter(b, k, Record(NoParams, "closed", FALSE, FALSE, {}))
           IN IF entered = {} THEN {[book |-> c, said |-> "full"] : c \in Reserved(b)}
              ELSE {[book |-> c, said |-> "closed"] : c \in entered}

ReleaseBegin(b, k) ==
    IF Seen(b, k) /\ b.records[k].phase = "granted"
    THEN {[book |-> WatermarkState([b EXCEPT !.records[k].phase = "releasing"], k, "releasing", FALSE),
           said |-> "releasing"]}
    ELSE Cancel(b, k)

\* finish_release: a lease whose roots are all revoked is settled and forgotten.
FinishRelease(b, k) ==
    IF b.records[k].roots # {} THEN b
    ELSE LET r == b.records[k]
             end == IF r.cancelled THEN "closed" ELSE "released"
         IN [WatermarkState(b, k, end, r.failed) EXCEPT !.records = Without(@, k)]

(***************************************************************************)
(* The source: a request against the ledger, the provider and the kernel.   *)
(***************************************************************************)

\* cleanup: every root is revoked but those in kept, whose revocation failed.
Cleanup(b, k, kept) ==
    FinishRelease([b EXCEPT !.records[k].roots = @ \cap kept,
                            !.live = {r \in @ : r[1] # k \/ r[2] \in kept}], k)

\* What the provider and the deliveries make of an accepted acquisition: the
\* whole provision, no answer yet, a failure without a root, or one that
\* leaves some roots, of which kept survive the cleanup.
Provided(b, k, outcome, kept) ==
    CASE outcome.kind = "granted" -> Complete(b, k)
      [] outcome.kind = "pending" -> b
      [] outcome.kind = "failed"  -> Cleanup(Abort(b, k, 1 .. outcome.roots), k, kept)

Outcomes == {[kind |-> "granted", roots |-> 0], [kind |-> "pending", roots |-> 0]}
              \cup {[kind |-> "failed", roots |-> n] : n \in 0 .. Width}

Admitted(p) == p[1] \notin dead /\ p[2] \notin Absent /\ ~stopped

\* acquire_from: the history answers first, admission comes before the ledger
\* is touched, and the provider runs only for a lease just begun.
AcquireFrom(b, k, p, outcome, kept) ==
    CASE Prior(b, k, p) # "unseen" -> {[book |-> b, said |-> Prior(b, k, p)]}
      [] Prior(b, k, p) = "unseen" /\ ~Admitted(p) -> {[book |-> b, said |-> "denied"]}
      [] Prior(b, k, p) = "unseen" /\ Admitted(p) /\ Begin(b, k, p) = {} ->
           {[book |-> c, said |-> "full"] : c \in Reserved(b)}
      [] OTHER -> {[book |-> Provided(c, k, outcome, kept), said |-> outcome.kind] :
                      c \in Begin(b, k, p)}

\* inspect_from: a pending acquisition is asked after, a lease under release
\* without a failure is cleaned up, a failure is only told.
InspectFrom(b, k, outcome, kept) ==
    CASE ~Seen(b, k) -> b
      [] Seen(b, k) /\ b.records[k].phase = "acquiring" -> Provided(b, k, outcome, kept)
      [] Seen(b, k) /\ b.records[k].phase = "releasing" /\ ~b.records[k].failed -> Cleanup(b, k, kept)
      [] OTHER -> b

\* release_from and cancel_from: whatever is then being released is cleaned up.
Settle(answers, k, kept) ==
    {IF a.said = "releasing"
     THEN LET c == Cleanup(a.book, k, kept)
          IN [book |-> c, said |-> IF Seen(c, k) THEN "lost" ELSE "settled"]
     ELSE a : a \in answers}
ReleaseFrom(b, k, kept) == Settle(ReleaseBegin(b, k), k, kept)
CancelFrom(b, k, kept) == Settle(Cancel(b, k), k, kept)

\* Effects that fail cost the budget: one for a failed provision, one for
\* revocations that leave roots behind.
Cost(outcome, kept) == (IF outcome.kind = "failed" THEN 1 ELSE 0) + (IF kept # {} THEN 1 ELSE 0)
Pay(n) == n <= faults /\ faults' = faults - n

(***************************************************************************)
(* Remote requesters.  Each call may come at any time, any number of times: *)
(* a lost reply is a repeated call.                                         *)
(***************************************************************************)
Tokens == 1 .. Width
RemoteAcquire(k, p) ==
    \E outcome \in Outcomes, kept \in SUBSET Tokens :
        /\ Pay(Cost(outcome, kept))
        /\ \E a \in AcquireFrom(book, k, p, outcome, kept) : book' = a.book
        /\ UNCHANGED <<leases, next, dead, stopped>>
RemoteInspect(k) ==
    \E outcome \in Outcomes, kept \in SUBSET Tokens :
        /\ Pay(Cost(outcome, kept))
        /\ book' = InspectFrom(book, k, outcome, kept)
        /\ UNCHANGED <<leases, next, dead, stopped>>
RemoteEnd(k) ==
    \E kept \in SUBSET Tokens :
        /\ Pay(IF kept # {} THEN 1 ELSE 0)
        /\ \E a \in ReleaseFrom(book, k, kept) \cup CancelFrom(book, k, kept) : book' = a.book
        /\ UNCHANGED <<leases, next, dead, stopped>>

(***************************************************************************)
(* The composition root.                                                    *)
(***************************************************************************)
Done == {"settled", "released", "closed"}
Lease(t, bd, id, delivered) == [task |-> t, binding |-> bd, id |-> id, delivered |-> delivered]
IdsOf(tasks) == {l.id : l \in {m \in leases : m.task \in tasks}}

\* What inspect tells without a failure of a lease that is over.
ToldOver(b, k) == Settled(b, k) /\ (Newest(b, k) => ~b.marks[k[1]].failed)

\* supply: a lease of the task and binding is reused, or its id reserved and
\* entered before the source is asked; a grant whose descriptor cannot be
\* sent is released again, a refused one is forgotten if inspect says so.
Supply(t, bd) ==
    LET old == {l \in leases : l.task = t /\ l.binding = bd}
        id == IF old = {} THEN next + 1 ELSE (CHOOSE l \in old : TRUE).id
        k == <<System, id>>
        kept0 == leases \ old
        mine(delivered) == kept0 \cup {Lease(t, bd, id, delivered)}
    IN /\ \A l \in old : ~l.delivered
       /\ id <= MaxId
       /\ next' = IF old = {} THEN id ELSE next
       /\ \E outcome \in {o \in Outcomes : o.kind # "pending"}, kept \in SUBSET Tokens, sent \in BOOLEAN :
            /\ Pay(Cost(outcome, kept) + (IF sent THEN 0 ELSE 1))
            /\ \E a \in AcquireFrom(book, k, <<t, bd>>, outcome, kept) :
                 \/ /\ a.said = "granted" /\ sent
                    /\ book' = a.book
                    /\ leases' = mine(TRUE)
                 \/ /\ a.said = "granted" /\ ~sent
                    /\ \E r \in ReleaseFrom(a.book, k, kept) :
                         /\ book' = r.book
                         /\ leases' = IF r.said \in Done THEN kept0 ELSE mine(FALSE)
                 \/ /\ a.said # "granted"
                    /\ book' = InspectFrom(a.book, k, outcome, kept)
                    /\ leases' = IF ToldOver(book', k) THEN kept0 ELSE mine(FALSE)
       /\ UNCHANGED <<dead, stopped>>

\* release_lease: the owner's record goes when the source says the lease is over.
ReleaseLease(s, id, kept) ==
    {[book |-> a.book, ok |-> a.said \in Done,
      leases |-> IF a.said \in Done THEN {l \in s.leases : l.id # id} ELSE s.leases] :
        a \in ReleaseFrom(s.book, <<System, id>>, kept)}

\* The leases of ids in order, the revocations of kept failing at lease bad;
\* the first that does not end stops the walk when stops.
ReleaseEach(ids, stops, bad, kept) ==
    FoldLeft(LAMBDA states, id :
               UNION {IF id \notin ids \/ (stops /\ ~s.ok) THEN {s}
                      ELSE ReleaseLease(s, id, IF id = bad THEN kept ELSE {}) : s \in states},
             {[book |-> book, ok |-> TRUE, leases |-> leases]},
             [i \in 1 .. MaxId |-> i])

Walk(ids, stops) ==
    \E bad \in ids, kept \in SUBSET Tokens :
        /\ Pay(IF kept # {} THEN 1 ELSE 0)
        /\ \E s \in ReleaseEach(ids, stops, bad, kept) : book' = s.book /\ leases' = s.leases
        /\ UNCHANGED <<next, dead, stopped>>

ReleaseTarget(t) == Walk(IdsOf({t}), TRUE)
SweepImages == Walk(IdsOf(dead), FALSE)

\* The source's shutdown releases the active leases in turn, up to one whose
\* roots resist; the definitions go only after the last of them.
Active == {k \in DOMAIN book.records : book.records[k].phase \in {"acquiring", "granted", "releasing"}}
Released(b, k, kept) == (CHOOSE a \in ReleaseFrom(b, k, kept) : TRUE).book
Shutdown ==
    \E over \in SUBSET Active :
        LET left == FoldSet(LAMBDA k, b : Released(b, k, {}), book, over)
        IN \/ /\ over = Active
              /\ book' = left /\ stopped' = TRUE
              /\ UNCHANGED <<leases, next, dead, faults>>
           \/ \E k \in Active \ over : \E kept \in SUBSET book.records[k].roots \ {{}} :
              /\ Pay(1)
              /\ book' = Released(left, k, kept)
              /\ UNCHANGED <<leases, next, dead, stopped>>

\* A task that is a lease's target ends.
Die(t) == /\ t \notin dead
          /\ dead' = dead \cup {t}
          /\ UNCHANGED <<book, leases, next, stopped, faults>>

leasesInit == /\ book = [records |-> <<>>, marks |-> <<>>, live |-> {}]
              /\ leases = {} /\ next = 0 /\ dead = {} /\ stopped = FALSE
              /\ faults = Failures

Requests == \E k \in Remotes \X (1 .. MaxId) :
                RemoteInspect(k) \/ RemoteEnd(k) \/ \E p \in Params : RemoteAcquire(k, p)
Owner == \/ \E t \in Tasks : ReleaseTarget(t) \/ Die(t) \/ \E bd \in Bindings : Supply(t, bd)
         \/ SweepImages
         \/ Shutdown

leasesNext == \/ ~stopped /\ (Requests \/ Owner)
              \/ stopped /\ UNCHANGED leasesVars

-----------------------------------------------------------------------------
\* The ledger, the live roots and the owner's records are well formed.
TypeOK ==
    /\ DOMAIN book.records \subseteq Keys /\ DOMAIN book.marks \subseteq Remotes \cup {System}
    /\ \A k \in DOMAIN book.records : /\ book.records[k].phase \in Phases
                                      /\ book.records[k].roots \subseteq Tokens
    /\ book.live \subseteq Keys \X Tokens
    /\ next \in 0 .. MaxId /\ dead \subseteq Tasks /\ stopped \in BOOLEAN /\ faults \in 0 .. Failures

\* A root that is alive in the kernel is in the record of its lease, where a
\* later release can still revoke it: a lease the source calls Released or
\* Closed, and a source that has shut down, leave no root behind.
RootsOwned == /\ book.live = UNION {{k} \X book.records[k].roots : k \in DOMAIN book.records}
              /\ stopped => book.live = {}

\* The composition root still owns every lease of its own that has roots,
\* and no task is given one binding through two leases.
LeaseOwned ==
    /\ \A r \in book.live : r[1][1] = System => \E l \in leases : l.id = r[1][2]
    /\ \A l, m \in leases : l.task = m.task /\ l.binding = m.binding => l = m

\* A settled lease stays settled: no repeated or late request revives an id.
NoRevivalStep == \A k \in Keys : Settled(book, k) => Settled(book', k)

=============================================================================
