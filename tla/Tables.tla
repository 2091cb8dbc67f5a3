------------------------------- MODULE Tables -------------------------------
(***************************************************************************)
(* The hardware page table of one address space, as nest/table keeps it: a *)
(* tree of table pages, each with its entries (the words the hardware      *)
(* walks) and beside them the list of the child tables it owns.  Addresses *)
(* are counted in pages, a table has Fan entries instead of 512.  A run of *)
(* pages is mapped with the largest leaves that fit; changing part of a    *)
(* large leaf splits it first.  A table page may fail to be allocated at   *)
(* any point of an operation.                                              *)
(*                                                                         *)
(* `image` is what the table should translate: it is written by what an    *)
(* operation was asked to do, never by looking at the tables.              *)
(***************************************************************************)
EXTENDS Integers, FiniteSets, FiniteSetsExt

CONSTANTS
    Fan,        \* entries of a table page
    Levels,     \* levels of the tree
    Runs,       \* the runs that may be mapped, <<va, pa, size>>
    Cuts,       \* the windows that may be changed, <<va, size>>
    Rights,     \* the permissions a leaf may have
    MaxTables,  \* table pages one operation may get before one is refused
    MapStarves  \* may a table page be refused while a mapping is prepared?

VARIABLES
    root,       \* the root table
    image       \* page -> what it should translate to

tablesVars == <<root, image>>

Slots == 0 .. Fan - 1
Span(level) == Fan ^ level
Space == Span(Levels)
Pages == 0 .. Space - 1

Assumptions ==
    /\ Fan \in Nat \ {0, 1} /\ Levels \in Nat \ {0} /\ MaxTables \in Nat
    /\ \A r \in Runs : r \in Nat \X Nat \X (Nat \ {0}) /\ r[1] + r[3] <= Space
    /\ \A c \in Cuts : c \in Nat \X (Nat \ {0}) /\ c[1] + c[2] <= Space
    /\ MapStarves \in BOOLEAN

Hole == [kind |-> "none", pa |-> 0, rights |-> "none"]
Leaf(pa, rights) == [kind |-> "leaf", pa |-> pa, rights |-> rights]
Branch == [kind |-> "branch", pa |-> 0, rights |-> "none"]

NoKids == [s \in {} |-> Hole]
Empty == [pte |-> [s \in Slots |-> Hole], kids |-> NoKids]

Nothing == [home |-> -1, pa |-> 0, rights |-> "none"]

(* VirtAddr::vpn *)
Vpn(va, level) == (va \div Span(level)) % Fan

(* push a child table and point the entry at it *)
WithKid(n, s, kid) ==
    [pte |-> [n.pte EXCEPT ![s] = Branch],
     kids |-> [x \in DOMAIN n.kids \cup {s} |-> IF x = s THEN kid ELSE n.kids[x]]]

-----------------------------------------------------------------------------
(* The walk.                                                               *)

(* leaf_ref_geometry: the first entry on the way down that is not a branch *)
RECURSIVE LeafRef(_, _, _)
LeafRef(n, level, va) ==
    LET s == Vpn(va, level) IN
    IF n.pte[s].kind # "branch" THEN [pte |-> n.pte[s], level |-> level, ok |-> TRUE]
    ELSE IF level = 0 \/ s \notin DOMAIN n.kids THEN [pte |-> Hole, level |-> 0, ok |-> FALSE]
    ELSE LeafRef(n.kids[s], level - 1, va)

(* walk_ref_geometry: a misaligned large leaf does not translate *)
WalkRef(n, va) ==
    LET at == LeafRef(n, Levels - 1, va) IN
    IF ~at.ok \/ at.pte.kind # "leaf" \/ at.pte.pa % Span(at.level) # 0 THEN Hole
    ELSE Leaf(at.pte.pa + (va % Span(at.level)), at.pte.rights)

(* entry_at with `alloc`: the entry for va at the target level, the tables *)
(* on the way allocated; `left` is how many table pages are still granted  *)
RECURSIVE EntryAt(_, _, _, _, _)
EntryAt(n, level, va, target, left) ==
    LET s == Vpn(va, level)
        e == n.pte[s] IN
    IF level = target THEN [node |-> n, left |-> left, err |-> "ok", pte |-> e]
    ELSE IF e.kind = "leaf" THEN [node |-> n, left |-> left, err |-> "mapped", pte |-> e]
    ELSE IF e.kind = "none" /\ left = 0
         THEN [node |-> n, left |-> 0, err |-> "memory", pte |-> e]
    ELSE LET m == IF e.kind = "none" THEN WithKid(n, s, Empty) ELSE n
             r == EntryAt(m.kids[s], level - 1, va, target,
                          IF e.kind = "none" THEN left - 1 ELSE left)
         IN [r EXCEPT !.node = [m EXCEPT !.kids[s] = r.node]]

(* the entry for va at the target level is overwritten *)
RECURSIVE SetEntry(_, _, _, _, _)
SetEntry(n, level, va, target, e) ==
    LET s == Vpn(va, level) IN
    IF level = target THEN [n EXCEPT !.pte[s] = e]
    ELSE [n EXCEPT !.kids[s] = SetEntry(n.kids[s], level - 1, va, target, e)]

-----------------------------------------------------------------------------
(* Mapping a run: prepare every table, then write the leaves.              *)

(* the largest leaf that fits a run at v, p with `rest` pages to go *)
TargetUnaligned(v, p, rest) ==
    Max({t \in 0 .. Min({2, Levels - 1}) :
            t = 0 \/ (rest >= Span(t) /\ v % Span(t) = 0)})

TargetFor(v, p, rest) ==
    Max({t \in 0 .. Min({2, Levels - 1}) :
            t = 0 \/ (rest >= Span(t) /\ v % Span(t) = 0 /\ p % Span(t) = 0)})

(* prepare_range_geometry, the inner loop: a table already there pushes    *)
(* the leaf one level down                                                 *)
RECURSIVE Descend(_, _, _, _)
Descend(n, va, target, left) ==
    LET r == EntryAt(n, Levels - 1, va, target, left) IN
    IF r.err # "ok" THEN [node |-> r.node, left |-> r.left, err |-> r.err, target |-> target]
    ELSE IF r.pte.kind = "none"
         THEN [node |-> r.node, left |-> r.left, err |-> "ok", target |-> target]
    ELSE IF target = 0 \/ r.pte.kind = "leaf"
         THEN [node |-> r.node, left |-> r.left, err |-> "mapped", target |-> target]
    ELSE Descend(r.node, va, target - 1, r.left)

RECURSIVE PrepareRange(_, _, _, _, _)
PrepareRange(n, va, pa, size, left) ==
    IF size = 0 THEN [node |-> n, err |-> "ok"]
    ELSE LET r == Descend(n, va, TargetFor(va, pa, size), left)
             step == Span(r.target)
         IN IF r.err # "ok" THEN [node |-> r.node, err |-> r.err]
            ELSE PrepareRange(r.node, va + step, pa + step, size - step, r.left)

(* map_range_prepared_geometry: the level is worked out again from the     *)
(* run alone, and what the entry holds is overwritten                      *)
RECURSIVE MapPrepared(_, _, _, _, _)
MapPrepared(n, va, pa, size, rights) ==
    IF size = 0 THEN n
    ELSE LET t == TargetFor(va, pa, size)
             m == SetEntry(n, Levels - 1, va, t, Leaf(pa, rights))
         IN MapPrepared(m, va + Span(t), pa + Span(t), size - Span(t), rights)

-----------------------------------------------------------------------------
(* Changing part of a mapping: split the large leaves at both ends first.  *)

(* the child table a large leaf is split into *)

SplitLeaf(e, level) ==
    [pte |-> [i \in Slots |-> Leaf(e.pa + i * Span(level - 1), e.rights)], kids |-> NoKids]

(* split_at_geometry *)
RECURSIVE SplitAt(_, _, _, _, _)
SplitAt(n, level, va, target, left) ==
    LET s == Vpn(va, level)
        e == n.pte[s] IN
    IF level = target \/ e.kind = "none" THEN [node |-> n, left |-> left, err |-> "ok"]
    ELSE IF e.kind = "leaf" /\ left = 0 THEN [node |-> n, left |-> 0, err |-> "memory"]
    ELSE LET m == IF e.kind = "leaf" THEN WithKid(n, s, SplitLeaf(e, level)) ELSE n
             r == SplitAt(m.kids[s], level - 1, va, target,
                          IF e.kind = "leaf" THEN left - 1 ELSE left)
         IN [r EXCEPT !.node = [m EXCEPT !.kids[s] = r.node]]

(* prepare_with, one end of the window: split until the leaf there lies    *)
(* inside the window                                                       *)

Covered(point, size, atStart, span) ==
    /\ size >= span
    /\ IF atStart THEN point % span = 0 ELSE (point % span) + 1 = span

RECURSIVE PrepareEnd(_, _, _, _, _)
PrepareEnd(n, point, size, atStart, left) ==
    LET at == LeafRef(n, Levels - 1, point) IN
    IF \/ ~at.ok \/ at.pte.kind = "none" \/ at.level = 0
       \/ Covered(point, size, atStart, Span(at.level))
    THEN [node |-> n, left |-> left, err |-> IF at.ok THEN "ok" ELSE "unmapped"]
    ELSE LET r == SplitAt(n, Levels - 1, point, at.level - 1, left) IN
         IF r.err # "ok" THEN r ELSE PrepareEnd(r.node, point, size, atStart, r.left)

Prepare(n, va, size, left) ==
    LET first == PrepareEnd(n, va, size, TRUE, left) IN
    IF first.err # "ok" THEN first
    ELSE PrepareEnd(first.node, va + size - 1, size, FALSE, first.left)

(* clear_leaf_range *)
RECURSIVE ClearLeaves(_, _, _, _, _)
ClearLeaves(n, level, base, lo, hi) ==
    LET span == Span(level)
        touched == {s \in Slots : base + s * span <= hi /\ base + (s + 1) * span - 1 >= lo}
    IN [pte |-> [s \in Slots |-> IF s \in touched /\ n.pte[s].kind = "leaf" THEN Hole ELSE n.pte[s]],
        kids |-> [s \in DOMAIN n.kids |->
                    IF s \in touched /\ n.pte[s].kind = "branch"
                    THEN ClearLeaves(n.kids[s], level - 1, base + s * span, lo, hi)
                    ELSE n.kids[s]]]

(* prune_empty: children first, then the entries that pointed at them *)
PrunedKids(kids) == {s \in DOMAIN kids : \A x \in Slots : kids[s].pte[x].kind = "none"}

RECURSIVE PruneEmpty(_)
PruneEmpty(n) ==
    LET kids == [s \in DOMAIN n.kids |-> PruneEmpty(n.kids[s])]
        gone == PrunedKids(kids)
    IN [pte |-> [s \in Slots |-> IF s \in gone THEN Hole ELSE n.pte[s]],
        kids |-> [s \in DOMAIN kids \ gone |-> kids[s]]]

-----------------------------------------------------------------------------
(* The operations, as the address space calls them.                        *)

Window(va, size) == va .. va + size - 1

(* the pages of one relation *)
OneHome(window) ==
    /\ \E p \in window : image[p] # Nothing
    /\ \A p, q \in window : image[p] # Nothing /\ image[q] # Nothing => image[p].home = image[q].home

Init == root = Empty /\ image = [p \in Pages |-> Nothing]

(* a run of a relation being published: the index has seen to it that      *)
(* nothing lives there                                                     *)
Map(va, pa, size, rights, left) ==
    LET r == PrepareRange(root, va, pa, size, left) IN
    /\ \A p \in Window(va, size) : image[p] = Nothing
    /\ r.err # "ok" => MapStarves
    /\ IF r.err # "ok" THEN root' = r.node /\ UNCHANGED image
       ELSE /\ root' = MapPrepared(r.node, va, pa, size, rights)
            /\ image' = [p \in Pages |->
                 IF p \in Window(va, size)
                 THEN [home |-> va, pa |-> pa + (p - va), rights |-> rights] ELSE image[p]]

(* withdraw: prepare, clear, give up the empty tables *)

UnmapPrepared(n, va, size) ==
    PruneEmpty(ClearLeaves(n, Levels - 1, 0, va, va + size - 1))

Unmap(va, size, left) ==
    LET r == Prepare(root, va, size, left) IN
    /\ OneHome(Window(va, size))
    /\ IF r.err # "ok" THEN root' = r.node /\ UNCHANGED image
       ELSE /\ root' = UnmapPrepared(r.node, va, size)
            /\ image' = [p \in Pages |-> IF p \in Window(va, size) THEN Nothing ELSE image[p]]

(* set_access and narrow: every published page of the window is made a     *)
(* leaf of its own, then all of them are rewritten                         *)
RECURSIVE PrepareEach(_, _, _, _)
PrepareEach(n, va, size, left) ==
    IF size = 0 THEN [node |-> n, left |-> left, err |-> "ok"]
    ELSE IF image[va] = Nothing THEN PrepareEach(n, va + 1, size - 1, left)
    ELSE LET r == Prepare(n, va, 1, left) IN
         IF r.err # "ok" THEN r ELSE PrepareEach(r.node, va + 1, size - 1, r.left)

RECURSIVE SetEach(_, _, _, _)
SetEach(n, va, size, rights) ==
    IF size = 0 THEN n
    ELSE IF image[va] = Nothing THEN SetEach(n, va + 1, size - 1, rights)
    ELSE SetEach(SetEntry(n, Levels - 1, va, 0, Leaf(WalkRef(n, va).pa, rights)),
                 va + 1, size - 1, rights)

SetPermissions(va, size, rights, left) ==
    LET r == PrepareEach(root, va, size, left) IN
    /\ OneHome(Window(va, size))
    /\ IF r.err # "ok" THEN root' = r.node /\ UNCHANGED image
       ELSE /\ root' = SetEach(r.node, va, size, rights)
            /\ image' = [p \in Pages |->
                 IF p \in Window(va, size) /\ image[p] # Nothing
                 THEN [image[p] EXCEPT !.rights = rights] ELSE image[p]]

Next ==
    \/ \E r \in Runs, rights \in Rights, left \in IF MapStarves THEN 0 .. MaxTables ELSE {MaxTables} :
          Map(r[1], r[2], r[3], rights, left)
    \/ \E c \in Cuts, left \in 0 .. MaxTables :
          \/ Unmap(c[1], c[2], left)
          \/ \E rights \in Rights : SetPermissions(c[1], c[2], rights, left)

-----------------------------------------------------------------------------
(* The hardware finds, for every page, exactly what was asked for: through *)
(* large leaves, splits, splits that ran out of memory half way, and       *)
(* tables given up (walk_ref_geometry over everything Nest did).           *)
Translates ==
    \A p \in Pages : WalkRef(root, p) =
        IF image[p] = Nothing THEN Hole ELSE Leaf(image[p].pa, image[p].rights)

(* The entries and the owned child tables agree at every node, no large    *)
(* leaf is misaligned, and no branch sits at the last level: what          *)
(* visit_leaves asserts in a debug build.                                  *)
RECURSIVE NodeOwned(_, _)
NodeOwned(n, level) ==
    /\ DOMAIN n.kids = {s \in Slots : n.pte[s].kind = "branch"}
    /\ \A s \in Slots : n.pte[s].kind = "leaf" => n.pte[s].pa % Span(level) = 0
    /\ level = 0 => DOMAIN n.kids = {}
    /\ \A s \in DOMAIN n.kids : NodeOwned(n.kids[s], level - 1)

Owned == NodeOwned(root, Levels - 1)

(* No table page stays behind empty: the next large mapping of that        *)
(* stretch would meet it (reclaim_empty_tables after every unmap).         *)
RECURSIVE NodeTrim(_)
NodeTrim(n) ==
    \A s \in DOMAIN n.kids :
        /\ \E x \in Slots : n.kids[s].pte[x].kind # "none"
        /\ NodeTrim(n.kids[s])

Trim == NodeTrim(root)
=============================================================================
