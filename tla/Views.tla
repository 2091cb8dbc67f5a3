-------------------------------- MODULE Views --------------------------------
(***************************************************************************)
(* The relations (views) of one address space and the tree that finds them.*)
(* A view holds an ordered list of active ranges, each with a permission   *)
(* ceiling and a current permission; taking pages out of it or changing    *)
(* the permission of a window cuts ranges.  The index is a balanced tree   *)
(* keyed by the start of a view's first range, every node caching the      *)
(* height and the greatest end below it.  A view with a hole in it may     *)
(* have another view living in the hole, so the spans of views interleave. *)
(* Addresses are counted in pages.                                         *)
(***************************************************************************)
EXTENDS Integers, FiniteSets, Sequences, SequencesExt

CONSTANTS
    Top,       \* the last page of the address space
    MaxViews,   \* identities of views
    Levels      \* permissions are the sets {1..n}, n up to Levels

VARIABLES
    active,     \* view -> its active ranges, in order
    tree,       \* the index
    len,        \* the number of views the index counts
    book        \* page -> the view, ceiling and permission it should have

viewsVars == <<active, tree, len, book>>

Pages == 0 .. Top
ViewIds == 1 .. MaxViews
Rights == 1 .. Levels
Assumptions == Top \in Nat /\ MaxViews \in Nat \ {0} /\ Levels \in Nat \ {0}

Nobody == [view |-> 0, ceiling |-> 0, current |-> 0]

-----------------------------------------------------------------------------
(* Active ranges.                                                          *)

(* ActiveRange::overlaps *)
Overlaps(r, lo, hi) == r.lo <= hi /\ r.hi >= lo

(* the part of a range below the window, in it, above it *)
Below(r, lo) == IF r.lo < lo THEN <<[r EXCEPT !.hi = lo - 1]>> ELSE <<>>
Above(r, hi) == IF r.hi > hi THEN <<[r EXCEPT !.lo = hi + 1]>> ELSE <<>>
Within(r, lo, hi) ==
    [r EXCEPT !.lo = IF r.lo > lo THEN r.lo ELSE lo, !.hi = IF r.hi < hi THEN r.hi ELSE hi]

(* ActiveRange::split with no permission: the window is taken out *)

CutOut(ranges, lo, hi) ==
    FlattenSeq([i \in DOMAIN ranges |->
        IF Overlaps(ranges[i], lo, hi) THEN Below(ranges[i], lo) \o Above(ranges[i], hi)
        ELSE <<ranges[i]>>])

(* ActiveRange::split with a permission: the window's current changes *)
Recut(ranges, lo, hi, access) ==
    FlattenSeq([i \in DOMAIN ranges |->
        IF Overlaps(ranges[i], lo, hi)
        THEN Below(ranges[i], lo)
               \o <<[Within(ranges[i], lo, hi) EXCEPT !.current = access]>>
               \o Above(ranges[i], hi)
        ELSE <<ranges[i]>>])

(* ActiveRange::narrow: the ceiling comes down, the current with it *)
NarrowTo(current, ceiling) == IF current < ceiling THEN current ELSE ceiling

Lowered(ranges, lo, hi, ceiling) ==
    FlattenSeq([i \in DOMAIN ranges |->
        IF Overlaps(ranges[i], lo, hi)
        THEN Below(ranges[i], lo)
               \o <<[Within(ranges[i], lo, hi) EXCEPT
                        !.ceiling = ceiling, !.current = NarrowTo(ranges[i].current, ceiling)]>>
               \o Above(ranges[i], hi)
        ELSE <<ranges[i]>>])

(* ActiveRange::cover: one pass over the ranges, `at` the first page still *)
(* to be covered; -1 once the window is covered, -2 once a hole is found   *)
CoverStep(at, r, hi) ==
    IF at < 0 \/ r.hi < at THEN at
    ELSE IF r.lo > at THEN -2
    ELSE IF r.hi >= hi THEN -1
    ELSE r.hi + 1

Covers(ranges, lo, hi) == FoldLeft(LAMBDA at, r : CoverStep(at, r, hi), lo, ranges) = -1

(* ViewState::range_at *)
RangeAt(ranges, p) == SelectSeq(ranges, LAMBDA r : Overlaps(r, p, p))

-----------------------------------------------------------------------------
(* The index.  A subtree is a sequence: empty, or of one node.             *)

Least(S) == CHOOSE x \in S : \A y \in S : x <= y
Most(S) == CHOOSE x \in S : \A y \in S : x >= y

(* IndexNode::span and ::cached *)
Start(ranges) == Least({ranges[i].lo : i \in DOMAIN ranges})
End(ranges) == Most({ranges[i].hi : i \in DOMAIN ranges})
NodeOf(v, ranges) ==
    [view |-> v, left |-> <<>>, right |-> <<>>, start |-> Start(ranges), height |-> 1,
     end |-> End(ranges)]

Height(t) == IF t = <<>> THEN 0 ELSE t[1].height
Ends(t) == IF t = <<>> THEN {} ELSE {t[1].end}

(* IndexNode::update: height and greatest end are taken again, the start   *)
(* only when the view still has ranges                                     *)

Update(n, ranges) ==
    [n EXCEPT
        !.height = 1 + Most({Height(n.left), Height(n.right)}),
        !.start = IF ranges = <<>> THEN @ ELSE Start(ranges),
        !.end = Most((IF ranges = <<>> THEN {0} ELSE {End(ranges)})
                        \cup Ends(n.left) \cup Ends(n.right))]

RotateLeft(n, act) ==
    LET r == n.right[1]
        m == Update([n EXCEPT !.right = r.left], act[n.view])
    IN Update([r EXCEPT !.left = <<m>>], act[r.view])

RotateRight(n, act) ==
    LET l == n.left[1]
        m == Update([n EXCEPT !.left = l.right], act[n.view])
    IN Update([l EXCEPT !.right = <<m>>], act[l.view])

Balance(n, act) ==
    LET m == Update(n, act[n.view]) IN
    IF Height(m.left) > Height(m.right) + 1
    THEN RotateRight(IF Height(m.left[1].right) > Height(m.left[1].left)
                     THEN [m EXCEPT !.left = <<RotateLeft(@[1], act)>>] ELSE m, act)
    ELSE IF Height(m.right) > Height(m.left) + 1
    THEN RotateLeft(IF Height(m.right[1].left) > Height(m.right[1].right)
                    THEN [m EXCEPT !.right = <<RotateRight(@[1], act)>>] ELSE m, act)
    ELSE m

RECURSIVE InsertNode(_, _, _)
InsertNode(t, node, act) ==
    IF t = <<>> THEN <<node>>
    ELSE <<Balance(IF node.start < t[1].start
                   THEN [t[1] EXCEPT !.left = InsertNode(@, node, act)]
                   ELSE [t[1] EXCEPT !.right = InsertNode(@, node, act)], act)>>

(* IndexNode::take_min *)
RECURSIVE MinOf(_)
MinOf(n) == IF n.left = <<>> THEN n ELSE MinOf(n.left[1])

RECURSIVE WithoutMin(_, _)
WithoutMin(n, act) ==
    IF n.left = <<>> THEN n.right
    ELSE <<Balance([n EXCEPT !.left = WithoutMin(n.left[1], act)], act)>>

(* IndexNode::detach *)
Detach(n, act) ==
    IF n.left = <<>> THEN n.right
    ELSE IF n.right = <<>> THEN n.left
    ELSE <<Balance([MinOf(n.right[1]) EXCEPT
                      !.left = n.left, !.right = WithoutMin(n.right[1], act)], act)>>

RECURSIVE Holds(_, _)
Holds(t, v) == t # <<>> /\ (t[1].view = v \/ Holds(t[1].left, v) \/ Holds(t[1].right, v))

(* remove_view: by identity, the key having changed already *)
RECURSIVE RemoveView(_, _, _)
RemoveView(t, v, act) ==
    IF ~Holds(t, v) THEN t
    ELSE IF t[1].view = v THEN Detach(t[1], act)
    ELSE IF Holds(t[1].left, v) THEN <<Balance([t[1] EXCEPT !.left = RemoveView(@, v, act)], act)>>
    ELSE <<Balance([t[1] EXCEPT !.right = RemoveView(@, v, act)], act)>>

(* Index::refresh *)
RECURSIVE Refresh(_, _, _)
Refresh(t, v, act) ==
    IF ~Holds(t, v) THEN t
    ELSE IF t[1].view = v THEN <<Update(t[1], act[v])>>
    ELSE <<Update([t[1] EXCEPT !.left = Refresh(@, v, act), !.right = Refresh(@, v, act)],
                  act[t[1].view])>>

HitsIn(v, act, lo, hi) == \E i \in DOMAIN act[v] : Overlaps(act[v][i], lo, hi)

(* find_view *)
RECURSIVE Find(_, _, _)
Find(t, p, act) ==
    IF t = <<>> THEN 0
    ELSE LET n == t[1]
             low == IF n.left # <<>> /\ n.left[1].end >= p THEN Find(n.left, p, act) ELSE 0
         IN IF low # 0 THEN low
            ELSE IF HitsIn(n.view, act, p, p) THEN n.view
            ELSE IF n.start <= p THEN Find(n.right, p, act) ELSE 0

(* first_overlap *)
RECURSIVE FirstOverlap(_, _, _, _)
FirstOverlap(t, lo, hi, act) ==
    IF t = <<>> \/ t[1].end < lo THEN 0
    ELSE LET n == t[1]
             low == IF n.left # <<>> /\ n.left[1].end >= lo
                    THEN FirstOverlap(n.left, lo, hi, act) ELSE 0
         IN IF low # 0 THEN low
            ELSE IF HitsIn(n.view, act, lo, hi) THEN n.view
            ELSE IF n.start <= hi THEN FirstOverlap(n.right, lo, hi, act) ELSE 0

(* collect_views *)
RECURSIVE Collect(_)
Collect(t) ==
    IF t = <<>> THEN <<>> ELSE Collect(t[1].left) \o <<t[1].view>> \o Collect(t[1].right)

-----------------------------------------------------------------------------
(* What the address space does with them.                                  *)

Init ==
    /\ active = [v \in ViewIds |-> <<>>]
    /\ tree = <<>> /\ len = 0
    /\ book = [p \in Pages |-> Nobody]

Unused(v) == active[v] = <<>> /\ \A u \in ViewIds : active[u] = <<>> => v <= u

(* commit: a view over lo..hi, refused where first_overlap finds another *)
Attach(v, lo, hi, ceiling, current) ==
    LET act == [active EXCEPT ![v] = <<[lo |-> lo, hi |-> hi, ceiling |-> ceiling, current |-> current]>>] IN
    /\ Unused(v) /\ current <= ceiling
    /\ FirstOverlap(tree, lo, hi, active) = 0
    /\ active' = act
    /\ tree' = InsertNode(tree, NodeOf(v, act[v]), act)
    /\ len' = len + 1
    /\ book' = [p \in Pages |-> IF p \in lo .. hi
                                THEN [view |-> v, ceiling |-> ceiling, current |-> current]
                                ELSE book[p]]

(* withdraw: the node leaves the index and comes back under its new key *)

Reindex(v, act) ==
    IF act[v] = <<>> THEN RemoveView(tree, v, act)
    ELSE InsertNode(RemoveView(tree, v, act), NodeOf(v, act[v]), act)

Withdraw(v, lo, hi) ==
    LET act == [active EXCEPT ![v] = CutOut(@, lo, hi)] IN
    /\ Covers(active[v], lo, hi)
    /\ active' = act
    /\ tree' = Reindex(v, act)
    /\ len' = IF act[v] = <<>> THEN len - 1 ELSE len
    /\ book' = [p \in Pages |-> IF p \in lo .. hi THEN Nobody ELSE book[p]]

(* set_access: within every ceiling of the window, or not at all *)
SetAccess(v, lo, hi, access) ==
    LET act == [active EXCEPT ![v] = Recut(@, lo, hi, access)] IN
    /\ Covers(active[v], lo, hi)
    /\ \A i \in DOMAIN active[v] :
          Overlaps(active[v][i], lo, hi) => access <= active[v][i].ceiling
    /\ active' = act
    /\ tree' = Refresh(tree, v, act)
    /\ book' = [p \in Pages |-> IF p \in lo .. hi THEN [book[p] EXCEPT !.current = access] ELSE book[p]]
    /\ UNCHANGED len

(* narrow: no ceiling of the window may be below the new one *)
Narrow(v, lo, hi, ceiling) ==
    LET act == [active EXCEPT ![v] = Lowered(@, lo, hi, ceiling)] IN
    /\ Covers(active[v], lo, hi)
    /\ \A i \in DOMAIN active[v] :
          Overlaps(active[v][i], lo, hi) => ceiling <= active[v][i].ceiling
    /\ active' = act
    /\ tree' = Refresh(tree, v, act)
    /\ book' = [p \in Pages |->
         IF p \in lo .. hi
         THEN [book[p] EXCEPT !.ceiling = ceiling, !.current = NarrowTo(@, ceiling)] ELSE book[p]]
    /\ UNCHANGED len

(* with one permission there is nothing to change *)
Next ==
    \E v \in ViewIds, lo, hi \in Pages, a, b \in Rights :
        /\ lo <= hi
        /\ \/ Attach(v, lo, hi, a, b)
           \/ b = 1 /\ a = 1 /\ Withdraw(v, lo, hi)
           \/ b = 1 /\ Levels > 1 /\ SetAccess(v, lo, hi, a)
           \/ b = 1 /\ Levels > 1 /\ Narrow(v, lo, hi, a)

-----------------------------------------------------------------------------
(* Looking a page up finds the view that owns it and the permission it     *)
(* has there, and an overlap query answers exactly when something of the   *)
(* window is owned, whatever order views were cut, emptied and re-keyed in *)
(* (Index::find, first_overlap, range_at).                                 *)
FoundExact ==
    /\ \A p \in Pages :
          /\ Find(tree, p, active) = book[p].view
          /\ book[p] # Nobody =>
                LET r == RangeAt(active[book[p].view], p) IN
                Len(r) = 1 /\ r[1].ceiling = book[p].ceiling /\ r[1].current = book[p].current
    /\ \A lo, hi \in Pages :
          lo <= hi => ((FirstOverlap(tree, lo, hi, active) # 0)
                         <=> \E p \in lo .. hi : book[p] # Nobody)

(* The index is a balanced search tree over exactly the views that have    *)
(* ranges, and every cached start, height and end is right: what           *)
(* audit_index asserts.                                                    *)
RECURSIVE NodeSound(_, _, _)
NodeSound(t, low, high) ==
    t = <<>> \/
    LET n == t[1]
        ranges == active[n.view]
    IN /\ ranges # <<>> /\ n.start = Start(ranges) /\ low < n.start /\ n.start < high
       /\ n.height = 1 + Most({Height(n.left), Height(n.right)})
       /\ Height(n.left) - Height(n.right) \in -1 .. 1
       /\ n.end = Most({End(ranges)} \cup Ends(n.left) \cup Ends(n.right))
       /\ \A i \in 1 .. Len(ranges) - 1 : ranges[i].hi < ranges[i + 1].lo
       /\ NodeSound(n.left, low, n.start) /\ NodeSound(n.right, n.start, high)

IndexSound ==
    /\ NodeSound(tree, -1, Top + 1)
    /\ LET seq == Collect(tree) IN
       /\ len = Len(seq)
       /\ {seq[i] : i \in DOMAIN seq} = {v \in ViewIds : active[v] # <<>>}

(* The window query says "covered" exactly when every page of the window   *)
(* is the view's (ActiveRange::cover, whose one pass needs the ranges in   *)
(* order).                                                                 *)
CoverExact ==
    \A v \in ViewIds, lo, hi \in Pages :
        lo <= hi => (Covers(active[v], lo, hi) <=> \A p \in lo .. hi : book[p].view = v)
=============================================================================
