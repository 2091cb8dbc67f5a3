------------------------------- MODULE Grants -------------------------------
(***************************************************************************)
(* Operator's tree of names and the grants that may change it              *)
(* (system/operator: tree, authority, runtime/authority.rs).  Operator is  *)
(* one thread: a request is one step, except that a revoke walks its plan  *)
(* grant by grant, any kernel call of it may fail, and a failure ends the  *)
(* request where it is.  A grant is known by its key, and its entrance by  *)
(* the key too: requests arrive through the entrance of a grant, from its  *)
(* holder.  Key 0 is the root grant, entry 0 the root of the tree.         *)
(***************************************************************************)
EXTENDS Naturals, Sequences, FiniteSets, SequencesExt

CONSTANTS Names,       \* names an entry may have
          Resources,   \* resource_id of a binding
          OpSets,      \* sets of operations a grant may carry
          MaxKey,      \* grants made
          MaxSlot,     \* entries made
          MaxId,       \* GrantIds per entrance
          MaxOp,       \* OperationIds per entrance
          MaxPie,      \* resources imported
          Failures     \* kernel calls that fail

VARIABLES slots,       \* Operator.slots: an entry keeps its number for good
          records,     \* Authority.records
          high,        \* Authority.watermarks, by entrance
          opHigh,      \* Operator.operations and operation_watermarks, by entrance
          pies,        \* kernel: the imports Operator holds
          pending,     \* pending_import_release
          plan,        \* the rest of the revoke under way
          count,       \* keys, imports and failures so far
          used,        \* ghost: GrantIds granted or cancelled, by entrance
          applied      \* ghost: how often each operation changed the tree

grantVars == <<slots, records, high, opHigh, pies, pending, plan, count, used, applied>>

Keys == 0..MaxKey
Root == [key |-> 0, id |-> 0, parent |-> 0, ops |-> UNION OpSets, anchor |-> 0,
         state |-> "Granted", step |-> "attached"]

Init ==
    /\ slots = <<>> /\ records = <<Root>> /\ plan = <<>>
    /\ high = [k \in Keys |-> 0] /\ opHigh = [k \in Keys |-> 0]
    /\ pies = {} /\ pending = {} /\ count = [key |-> 0, pie |-> 0, fail |-> 0]
    /\ used = {} /\ applied = [k \in Keys |-> [o \in 1..MaxOp |-> 0]]

TypeOK ==
    /\ \A i \in DOMAIN slots : slots[i].at \in 0..MaxSlot /\ slots[i].by \in Keys
    /\ \A i \in DOMAIN records : /\ records[i].key \in Keys
                                 /\ records[i].state \in {"Granted", "Revoking"}
    /\ pies \subseteq 1..MaxPie /\ pending \subseteq pies /\ used \subseteq Keys \X (1..MaxId)

----------------------------------------------------------------------------
(* What the tree and the grants say *)

On(e) == e \in DOMAIN slots /\ slots[e].on
Kids(at) == {e \in DOMAIN slots : slots[e].on /\ slots[e].at = at}
Pane(at) == at = 0 \/ (On(at) /\ slots[at].pie = 0)

At(k) == CHOOSE i \in DOMAIN records : records[i].key = k
Known(k) == \E i \in DOMAIN records : records[i].key = k
Parent(k) == records[At(k)].parent
\* Authority::live and ancestors_live.
Above[k \in Keys] == {k} \cup IF k = 0 \/ ~Known(k) THEN {} ELSE Above[Parent(k)]
Live(k) == \A a \in Above[k] : Known(a) /\ records[At(a)].state = "Granted"
\* Operator::visible.
Visible(e) == On(e) /\ Live(slots[e].by)
Seen(at) == at = 0 \/ Visible(at)

\* The entries from e to the root.
Road[e \in 0..MaxSlot] == {e} \cup IF e = 0 \/ e \notin DOMAIN slots THEN {} ELSE Road[slots[e].at]
\* relative_to: both are seen, and one is above the other.
Within(anchor, e) == Seen(anchor) /\ Seen(e) /\ anchor \in Road[e]

\* authorize
Allowed(k, op, at) ==
    Live(k) /\ op \in records[At(k)].ops /\ Within(records[At(k)].anchor, at)

\* Operator::kid
Kid(at, n) == {e \in Kids(at) : Visible(e) /\ slots[e].name = n}
Idle == plan = <<>>
Fail == count.fail < Failures

----------------------------------------------------------------------------
(* Operations, once each *)

\* begin_operation finds no record and no later number.  A record answers its
\* own replay and nothing else, so the last number alone says what is new.
Fresh(k, o) == o > opHigh[k]
Finish(k, o, done) ==
    /\ opHigh' = [opHigh EXCEPT ![k] = o]
    /\ applied' = [applied EXCEPT ![k][o] = IF done THEN @ + 1 ELSE @]

CancelOperation(k, o) ==
    /\ Idle /\ Allowed(k, "cancel", records[At(k)].anchor) /\ Fresh(k, o)
    /\ opHigh' = [opHigh EXCEPT ![k] = o]
    /\ UNCHANGED <<slots, records, high, pies, pending, plan, count, used, applied>>

----------------------------------------------------------------------------
(* Changing the tree *)

Slot(at, n, p, k, r) ==
    [at |-> at, name |-> n, pie |-> p, by |-> k, res |-> r, on |-> TRUE]
Room == Len(slots) < MaxSlot
\* put finds no entry of that name, seen or not.
Vacant(at, n) == \A e \in Kids(at) : slots[e].name # n

\* PART
Part(k, o, at, n) ==
    LET free == Pane(at) /\ Kid(at, n) = {} /\ Vacant(at, n)
    IN /\ Idle /\ Allowed(k, "part", at) /\ Fresh(k, o) /\ (free => Room)
       /\ slots' = IF free THEN Append(slots, Slot(at, n, 0, k, 0)) ELSE slots
       /\ Finish(k, o, free)
       /\ UNCHANGED <<records, high, pies, pending, plan, count, used>>

\* The request brings a resource into Operator's table; the revision of a
\* binding is the number of the import that made it.
Imported(p) == p = count.pie + 1 /\ p <= MaxPie
Spend(p, f) == count' = [count EXCEPT !.pie = p, !.fail = @ + f]
\* release_import: given back, or kept for retry_import_cleanup.
Release(held, p, f) ==
    IF f = 0 THEN pies' = held \ {p} /\ pending' = pending
    ELSE Fail /\ pies' = held /\ pending' = pending \cup {p}

\* The operation was done before, or refused.
ImportBack(p, f) == Release(pies \cup {p}, p, f)

\* BIND of resource r
Bind(k, o, at, n, r, p, f) ==
    LET free == Pane(at) /\ Kid(at, n) = {} /\ Vacant(at, n)
    IN /\ Idle /\ Allowed(k, "bind", at) /\ Imported(p)
       /\ \/ /\ Fresh(k, o) /\ free /\ Room /\ f = 0
             /\ slots' = Append(slots, Slot(at, n, p, k, r))
             /\ pies' = pies \cup {p} /\ pending' = pending /\ Spend(p, 0)
             /\ Finish(k, o, TRUE)
          \/ /\ Fresh(k, o) /\ ~free /\ slots' = slots
             /\ ImportBack(p, f) /\ Spend(p, f)
             /\ Finish(k, o, FALSE)
          \/ /\ ~Fresh(k, o) /\ slots' = slots
             /\ ImportBack(p, f) /\ Spend(p, f) /\ UNCHANGED <<opHigh, applied>>
       /\ UNCHANGED <<records, high, plan, used>>

\* REPLACE of the binding with this revision.  The same owner keeps the entry
\* and changes its resource; another one takes it over (put), which leaves
\* resource_id as it was.  The old import goes first, and may fail to.
Replace(k, e, rev, r, p, f) ==
    LET s == slots[e]
        same == s.by = k /\ s.res = r
        old == pies \cap {s.pie}
    IN /\ Idle /\ On(e) /\ s.pie # 0 /\ Allowed(k, "replace", e) /\ Imported(p)
       /\ \/ /\ rev = s.pie /\ ~same /\ f = 0
             /\ slots' = [slots EXCEPT ![e] = [@ EXCEPT !.pie = p, !.by = k,
                                               !.res = IF s.by = k THEN r ELSE @]]
             /\ pies' = (pies \ old) \cup {p} /\ pending' = pending /\ Spend(p, 0)
          \/ /\ rev # s.pie \/ same
             /\ slots' = slots /\ ImportBack(p, f) /\ Spend(p, f)
          \/ /\ rev = s.pie /\ ~same /\ old # {} /\ Fail /\ f = 0
             /\ slots' = slots /\ ImportBack(p, f) /\ Spend(p, 1)
       /\ UNCHANGED <<records, high, opHigh, plan, used, applied>>

Trimmed(all, e) == [all EXCEPT ![e].on = FALSE]
\* UNBIND at the revision the caller knows.
Unbind(k, e, rev) ==
    /\ Idle /\ On(e) /\ slots[e].pie # 0 /\ Allowed(k, "unbind", e) /\ rev = slots[e].pie
    /\ slots' = Trimmed(slots, e) /\ pies' = pies \ {slots[e].pie}
    /\ UNCHANGED <<records, high, opHigh, pending, plan, count, used, applied>>
\* UNPART, never of the grant's own anchor.
Unpart(k, e) ==
    /\ Idle /\ On(e) /\ slots[e].pie = 0 /\ Allowed(k, "unpart", e)
    /\ e # records[At(k)].anchor /\ Kids(e) = {}
    /\ slots' = Trimmed(slots, e)
    /\ UNCHANGED <<records, high, opHigh, pies, pending, plan, count, used, applied>>
\* Operator::find meets a resource that is gone.
FindDead(e) ==
    /\ Idle /\ Visible(e) /\ slots[e].pie # 0 /\ slots[e].pie \notin pies
    /\ slots' = Trimmed(slots, e)
    /\ UNCHANGED <<records, high, opHigh, pies, pending, plan, count, used, applied>>
\* The owner of a resource takes it away.
Dies(p) ==
    /\ Idle /\ p \in pies /\ pies' = pies \ {p} /\ pending' = pending \ {p}
    /\ UNCHANGED <<slots, records, high, opHigh, plan, count, used, applied>>
RetryCleanup(p) ==
    /\ Idle /\ p \in pending /\ pies' = pies \ {p} /\ pending' = pending \ {p}
    /\ UNCHANGED <<slots, records, high, opHigh, plan, count, used, applied>>

----------------------------------------------------------------------------
(* Granting *)

Issued(k, id) == {i \in DOMAIN records : records[i].parent = k /\ records[i].id = id /\ records[i].key # 0}
Unseen(k, id) == Issued(k, id) = {} /\ id > high[k]

\* Authority::grant: no more than its parent has, at an entry below its anchor.
Narrows(k, os, anchor) ==
    /\ os \in OpSets /\ os \subseteq records[At(k)].ops
    /\ anchor # 0 /\ Within(records[At(k)].anchor, anchor)

\* The entrance is opened, handed to the holder and watched; when one of these
\* fails the grant is revoked at once, as far as that succeeds.
Grant(k, id, os, anchor, step) ==
    LET key == count.key + 1
        ok == step = "attached"
        made == [key |-> key, id |-> id, parent |-> k, ops |-> os, anchor |-> anchor,
                 state |-> IF ok THEN "Granted" ELSE "Revoking", step |-> step]
    IN /\ Idle /\ Live(k) /\ "grant" \in records[At(k)].ops /\ Unseen(k, id)
       /\ Narrows(k, os, anchor) /\ key <= MaxKey /\ (ok \/ Fail)
       /\ records' = IF step = "none" THEN records ELSE Append(records, made)
       /\ plan' = IF step = "open" THEN <<key>> ELSE <<>>
       /\ high' = [high EXCEPT ![k] = id] /\ used' = used \cup {<<k, id>>}
       /\ count' = [count EXCEPT !.key = key, !.fail = IF ok THEN @ ELSE @ + 1]
       /\ UNCHANGED <<slots, opHigh, pies, pending, applied>>

----------------------------------------------------------------------------
(* Revoking *)

Branch(k) == {j \in Keys : Known(j) /\ k \in Above[j]}
\* revoke_plan: the records of the branch, last first.
PlanOf(k) == LET all == [i \in DOMAIN records |-> records[i].key]
             IN SelectSeq(Reverse(all), LAMBDA j : j \in Branch(k))

\* Authority::revoke of a grant not seen: it may never come.
CancelGrant(k, id) ==
    /\ high' = [high EXCEPT ![k] = id] /\ used' = used \cup {<<k, id>>}

Revoke(k, id) ==
    /\ Idle /\ Allowed(k, "revoke", records[At(k)].anchor)
    /\ \/ \E i \in Issued(k, id) :
            LET branch == Branch(records[i].key)
            IN /\ plan' = PlanOf(records[i].key)
               /\ records' = [j \in DOMAIN records |->
                    IF records[j].key \in branch THEN [records[j] EXCEPT !.state = "Revoking"]
                                                 ELSE records[j]]
               /\ UNCHANGED <<high, used>>
       \/ Unseen(k, id) /\ CancelGrant(k, id) /\ UNCHANGED <<records, plan>>
    /\ UNCHANGED <<slots, opHigh, pies, pending, count, applied>>

Next1 == [open |-> "detached", attached |-> "detached", detached |-> "sealed", sealed |-> "released"]
\* One kernel call on the entrance: detach, seal, release; each is noted.
CleanEntrance ==
    /\ ~Idle
    /\ LET i == At(Head(plan))
       IN /\ records[i].step # "released"
          /\ records' = [records EXCEPT ![i].step = Next1[@]]
    /\ UNCHANGED <<slots, high, opHigh, pies, pending, plan, count, used, applied>>
\* A kernel call fails: the request ends with Dead.
CleanFails ==
    /\ ~Idle /\ Fail /\ plan' = <<>> /\ count' = [count EXCEPT !.fail = @ + 1]
    /\ UNCHANGED <<slots, records, high, opHigh, pies, pending, used, applied>>

\* cleanup_authority: the entries of grant k.
Cleaned(k, e) == slots[e].by = k
\* A pane is trimmed only when it is empty, the newest first.
Stuck(k) == {e \in DOMAIN slots : /\ slots[e].on /\ Cleaned(k, e) /\ slots[e].pie = 0
                                  /\ \E c \in Kids(e) : ~Cleaned(k, c)}
CleanTree(k) ==
    LET worst == IF Stuck(k) = {} THEN 0 ELSE CHOOSE e \in Stuck(k) : \A x \in Stuck(k) : x <= e
    IN slots' = [e \in DOMAIN slots |->
           IF slots[e].on /\ Cleaned(k, e) /\ (slots[e].pie # 0 \/ e > worst)
           THEN [slots[e] EXCEPT !.on = FALSE] ELSE slots[e]]

\* Authority::closed takes the record out by swap_remove.
SwapRemove(s, i) ==
    IF i = Len(s) THEN Front(s) ELSE [Front(s) EXCEPT ![i] = Last(s)]
Childless(k) == \A i \in DOMAIN records : records[i].key = 0 \/ records[i].parent # k

\* The entrance is gone: the tree next, the operations that came through the
\* issuer's entrance (forget_operations), and the record last.
CleanGrant ==
    /\ ~Idle
    /\ LET k == Head(plan)
           i == At(k)
           via == records[i].parent
           clean == Stuck(k) = {}
           done == clean /\ Childless(k)
       IN /\ records[i].step = "released"
          /\ CleanTree(k)
          /\ pies' = pies \ {slots[e].pie : e \in {x \in DOMAIN slots : slots[x].on /\ Cleaned(k, x)}}
          /\ opHigh' = IF clean THEN [opHigh EXCEPT ![via] = 0] ELSE opHigh
          /\ records' = IF done THEN SwapRemove(records, i) ELSE records
          /\ high' = IF done THEN [high EXCEPT ![k] = 0] ELSE high
          /\ plan' = IF done THEN Tail(plan) ELSE <<>>
    /\ UNCHANGED <<pending, count, used, applied>>

Next ==
    \/ \E k \in Keys : Known(k) /\
        \/ \E o \in 1..MaxOp, at \in 0..Len(slots), n \in Names :
             \/ Part(k, o, at, n)
             \/ \E r \in Resources, p \in 1..MaxPie, f \in {0, 1} : Bind(k, o, at, n, r, p, f)
        \/ \E o \in 1..MaxOp : CancelOperation(k, o)
        \/ \E e \in DOMAIN slots, rev \in 1..MaxPie :
             \/ \E r \in Resources, p \in 1..MaxPie, f \in {0, 1} : Replace(k, e, rev, r, p, f)
             \/ Unbind(k, e, rev)
        \/ \E e \in DOMAIN slots : Unpart(k, e)
        \/ \E id \in 1..MaxId :
             \/ Revoke(k, id)
             \/ \E os \in OpSets, a \in DOMAIN slots, s \in {"none", "open", "attached"} :
                  Grant(k, id, os, a, s)
    \/ \E e \in DOMAIN slots : FindDead(e)
    \/ \E p \in 1..MaxPie : Dies(p) \/ RetryCleanup(p)
    \/ CleanEntrance \/ CleanFails \/ CleanGrant

----------------------------------------------------------------------------

\* Every entry belongs to a grant that is not closed: a revoke reports success
\* only after the branch has left the tree.
ClosedIsClean == \A e \in DOMAIN slots : On(e) => Known(slots[e].by)

\* No grant outlives the one it came from, and none is wider than it.
Narrowed ==
    \A i \in DOMAIN records : records[i].key # 0 =>
        /\ Known(records[i].parent)
        /\ records[i].ops \subseteq records[At(records[i].parent)].ops

\* An entry that is on the tree hangs from a pane that is on it.
Rooted == \A e \in DOMAIN slots : On(e) => Pane(slots[e].at)

\* Operator holds no import that is neither bound nor waiting to be released.
ImportsOwed == pies \subseteq pending \cup {slots[e].pie : e \in {x \in DOMAIN slots : slots[x].on}}

\* A grant refused, cancelled or closed under an id never comes to be under it
\* again, while the entrance it came through lives.
NoRevivalStep ==
    \A i \in DOMAIN records' :
        (records'[i].key \notin {records[j].key : j \in DOMAIN records})
            => <<records'[i].parent, records'[i].id>> \notin used

=============================================================================
