---------------------------- MODULE PendProofs ----------------------------
(* What the grant tree promises, for every number of tasks and pies: each  *)
(* step keeps the invariant of PendTree, and narrows the rights handed on. *)
EXTENDS PendTree

-----------------------------------------------------------------------------
(* From the task that steps to the rest.                                   *)

\* The invariant holds after a step that changes the ledgers of T, tells
\* whoever saw them, and leaves the operations of U sound.
LEMMA StepSound ==
  ASSUME Assumptions, PendInv, TreeInv', dead \subseteq dead', NoGain,
         NEW T \in SUBSET Tasks, Kept(T), NEW U \in SUBSET Tasks,
         op' = [s \in Tasks |-> op'[s]], \A s \in Tasks \ U : Outdates(T, s),
         \A s \in U : op'[s] \in Op /\ OpSound(s)' /\ DoomSound(s)'
  PROVE  PendInv'
<1>1. ASSUME NEW s \in Tasks \ U PROVE op'[s] \in Op /\ OpSound(s)' /\ DoomSound(s)'
  <2>1. /\ op'[s] \in Op /\ OpSound(s)'
        /\ op'[s].kind = op[s].kind /\ op'[s].root = op[s].root /\ op'[s].left = op[s].left
    BY <1>1, OpKept DEF PendInv
  <2>2. \A k \in Tokens : s \in dead /\ Held(s, k)' => Held(s, k)
    BY <1>1 DEF NoGain
  <2>3. DoomSound(s)
    BY <1>1 DEF PendInv
  <2> QED
    BY <2>1, <2>2, <2>3 DEF DoomSound
<1>2. op' \in [Tasks -> Op]
  BY <1>1
<1>3. TypeOK'
  BY <1>2 DEF TypeOK, TreeInv, TreeType
<1> QED
  BY <1>1, <1>3 DEF PendInv

\* A step that leaves the tree alone.
Still == UNCHANGED <<pie, heirs, next>> /\ sealed' \in BOOLEAN /\ dead \subseteq dead' /\ dead' \subseteq Tasks

\* A step that leaves the ledgers alone keeps the tree.
LEMMA TreeStill == ASSUME PendInv, Still PROVE TreeInv' /\ NoGain /\ Kept({})
<1>1. /\ pie' = pie /\ heirs' = heirs /\ next' = next
      /\ sealed' \in BOOLEAN /\ dead' \subseteq Tasks /\ TreeInv
  BY DEF Still, PendInv
<1>2. TreeType' /\ Fresh' /\ Paired' /\ Older' /\ Marked'
  BY <1>1 DEF TreeInv, TreeType, Fresh, Paired, Older, Marked
<1>3. NoOrphan' /\ NoGhost'
  BY <1>1 DEF TreeInv, NoOrphan, NoGhost, Held
<1>4. NoGain /\ Kept({})
  BY <1>1 DEF NoGain, Kept, Held
<1> QED
  BY <1>2, <1>3, <1>4 DEF TreeInv

\* A task whose operation is as it was has missed nothing if nothing changed.
LEMMA Untold == ASSUME PendInv, NEW s \in Tasks, op'[s] = op[s] PROVE Outdates({}, s)
<1>1. PICK q \in Op : q = op[s] /\ q = op'[s]
  BY DEF PendInv, TypeOK
<1>2. (q.stale \/ q.seen \cap {} # {}) = q.stale
  BY Zenon DEF Op
<1>3. q = [q EXCEPT !.stale = q.stale \/ q.seen \cap {} # {}]
  BY <1>2, Zenon DEF Op
<1> QED
  BY <1>1, <1>3, Zenon DEF Outdates

\* A step that changes neither the ledgers nor the operations keeps everything.
LEMMA StillSound == ASSUME Assumptions, PendInv, Still, UNCHANGED op PROVE PendInv'
<1>1. op' = [s \in Tasks |-> op'[s]] /\ dead \subseteq dead'
  BY DEF PendInv, TypeOK, Still
<1>2. {} \in SUBSET Tasks /\ \A s \in {} : op'[s] \in Op /\ OpSound(s)' /\ DoomSound(s)'
  OBVIOUS
<1>3. \A s \in Tasks \ {} : Outdates({}, s)
  BY Untold
<1> QED
  BY <1>1, <1>2, <1>3, TreeStill, StepSound

\* A step of t alone that leaves the ledgers alone: only t's own operation is
\* to be looked at.
LEMMA BookSound ==
  ASSUME Assumptions, PendInv, Still, NEW t \in Tasks, NEW o, Put(t, o),
         op'[t] \in Op, OpSound(t)', DoomSound(t)'
  PROVE  PendInv'
<1>1. op' = [s \in Tasks |-> op'[s]] /\ \A s \in Tasks : s # t => op'[s] = op[s]
  BY Zenon DEF Put, PendInv, TypeOK
<1>2. \A s \in Tasks \ {t} : Outdates({}, s)
  BY <1>1, Untold
<1>3. \A s \in {t} : op'[s] \in Op /\ OpSound(s)' /\ DoomSound(s)'
  OBVIOUS
<1>4. {} \in SUBSET Tasks /\ {t} \in SUBSET Tasks /\ dead \subseteq dead'
  BY DEF Still
<1> QED
  BY <1>1, <1>2, <1>3, <1>4, TreeStill, StepSound, Zenon

-----------------------------------------------------------------------------
(* The steps, one lemma each.                                              *)

\* At first there is one pie, the root, and no operation.
LEMMA InitSound == Assumptions /\ Init => PendInv
<1> SUFFICES ASSUME Assumptions, Init PROVE PendInv
  OBVIOUS
<1>1. PICK p \in Pie : p = [holder |-> Root, sire |-> None, lord |-> None, perm |-> Rights, heir |-> None]
  <2>1. Rights \in (SUBSET Rights) \ {{}}
    BY Zenon DEF Assumptions
  <2> QED
    BY <2>1, Zenon DEF Pie, Assumptions
<1>2. \A k \in Tokens : pie[k] = IF k = 1 THEN p ELSE None
  BY <1>1, Zenon DEF Init
<1>3. heirs = [t \in Tasks |-> {}] /\ next = 2 /\ sealed = FALSE /\ dead = {}
  BY DEF Init
<1>4. TreeInv
  <2>1. pie \in [Tokens -> Pie \cup {None}]
    BY <1>2 DEF Init
  <2>2. TreeType
    <3>1. heirs \in [Tasks -> SUBSET (Tokens \X Tasks \X Tokens)]
      BY <1>3
    <3>2. next \in 1 .. MaxToken + 1
      BY <1>3 DEF Assumptions
    <3> QED
      BY <1>3, <2>1, <3>1, <3>2, Zenon DEF TreeType
  <2>3. Fresh
    BY <1>2, <1>3 DEF Fresh, Tokens
  <2> QED
    BY <1>1, <1>2, <1>3, <2>2, <2>3 DEF TreeInv, Paired, Older, Marked, NoOrphan, NoGhost
<1>5. NoOp \in Op /\ NoOp.kind = "none"
  BY DEF NoOp, Op
<1>6. op = [t \in Tasks |-> NoOp]
  BY DEF Init
<1>7. TypeOK
  BY <1>4, <1>5, <1>6 DEF TypeOK, TreeInv, TreeType
<1>8. \A t \in Tasks : op[t].kind = "none"
  BY <1>5, <1>6
<1> QED
  BY <1>4, <1>7, <1>8 DEF PendInv, OpSound, DoomSound, Collecting

\* revoke, release and forget begin to collect.
LEMMA BeginStep ==
  ASSUME Assumptions, PendInv, NEW t \in Tasks, NEW u \in Tasks, NEW k \in Tokens,
         NEW kind \in {"revoke", "release", "forget"}, kind # "revoke" => u = t,
         Put(t, Begin(kind, u, k)), UNCHANGED <<pie, heirs, next, sealed, dead>>
  PROVE  PendInv'
<1>1. op'[t] = Begin(kind, u, k)
  BY DEF Put, PendInv, TypeOK
<1>2. Begin(kind, u, k) = [Begin(kind, u, k) EXCEPT !.left = {}]
  <2>1. PICK o : o = Begin(kind, u, k)
    OBVIOUS
  <2>2. o = [kind |-> kind, root |-> <<u, k>>, nodes |-> <<<<u, k>>>>, cur |-> 1, lord |-> None,
             seen |-> {}, stale |-> FALSE, left |-> {}]
    BY <2>1, Zenon DEF Begin, NoOp
  <2>3. o \in Op /\ o.left = {}
    BY <2>2 DEF Op
  <2>4. o = [o EXCEPT !.left = {}]
    BY <2>3 DEF Op
  <2> QED
    BY <2>1, <2>4
<1>3. Begins(t, kind, u, k, {})
  BY <1>1, <1>2 DEF Begins
<1>4. op'[t] \in Op /\ OpSound(t)' /\ op'[t].kind = kind
  BY <1>3, BeginSound
<1>5. DoomSound(t)'
  BY <1>4 DEF DoomSound
<1>6. Still
  BY DEF Still, PendInv, TypeOK
<1> QED
  BY <1>4, <1>5, <1>6, BookSound

\* What the tasks outside R learn of the ledgers T that change.
LEMMA OutdateAll ==
  ASSUME NEW T, NEW R, \A s \in Tasks \ R : op'[s] = Outdate(T, op)[s]
  PROVE  \A s \in Tasks \ R : Outdates(T, s)
BY DEF Outdate, Outdates

\* accord, reduce and reap change the ledgers of T at once.
LEMMA AtOnce ==
  ASSUME Assumptions, PendInv, TreeInv', NoGain, NEW T \in SUBSET Tasks, Kept(T),
         op' = Outdate(T, op), UNCHANGED dead
  PROVE  PendInv'
<1>1. op' = [s \in Tasks |-> op'[s]] /\ \A s \in Tasks \ {} : Outdates(T, s)
  <2>1. \A s \in Tasks \ {} : Outdates(T, s)
    BY OutdateAll
  <2>2. op' = [s \in Tasks |-> op'[s]]
    BY DEF Outdate
  <2> QED
    BY <2>1, <2>2
<1>2. {} \in SUBSET Tasks /\ \A s \in {} : op'[s] \in Op /\ OpSound(s)' /\ DoomSound(s)'
  OBVIOUS
<1> QED
  BY <1>1, <1>2, StepSound, Zenon

\* accord keeps the invariant, the notes of the other tasks included.
LEMMA AccordStep ==
  ASSUME Assumptions, PendInv, NEW t \in Tasks, NEW k \in Tokens, NEW u \in Tasks,
         NEW perm \in SUBSET Rights, Accord(t, k, u, perm)
  PROVE  PendInv'
<1>1. TreeInv' /\ Kept({t, u}) /\ NoGain
  BY AccordTree DEF PendInv
<1>2. {t, u} \in SUBSET Tasks /\ op' = Outdate({t, u}, op) /\ UNCHANGED dead
  BY DEF Accord, AccordIf
<1> QED
  BY <1>1, <1>2, AtOnce

\* reduce keeps the invariant.
LEMMA ReduceStep ==
  ASSUME Assumptions, PendInv, NEW t \in Tasks, NEW k \in Tokens,
         NEW perm \in SUBSET Rights, Reduce(t, k, perm)
  PROVE  PendInv'
<1>1. TreeInv' /\ Kept({t}) /\ NoGain
  BY ReduceTree DEF PendInv
<1>2. {t} \in SUBSET Tasks /\ op' = Outdate({t}, op) /\ UNCHANGED dead
  BY DEF Reduce, ReduceTo
<1> QED
  BY <1>1, <1>2, AtOnce

\* A release of a pie without parent and children takes it at once.
LEMMA ReapStep ==
  ASSUME Assumptions, PendInv, NEW t \in Tasks, NEW k \in Tokens, Reap(t, k)
  PROVE  PendInv'
<1>1. PICK N \in SUBSET (Tasks \X Tokens) : N = {<<t, k>>}
  <2>1. <<t, k>> \in Tasks \X Tokens
    OBVIOUS
  <2> QED
    BY <2>1, Zenon
<1>2. Held(t, k) /\ Lone(t, k) /\ Takes(N) /\ op' = Outdate({t}, op) /\ UNCHANGED <<next, sealed, dead>>
  BY <1>1 DEF Reap
<1>3. \A n \in N : n[1] = t /\ n[2] = k
  BY <1>1
<1>4. ASSUME NEW c \in Tokens, pie[c] # None, NEW n \in N, n[2] = pie[c].sire PROVE FALSE
  <2>1. pie[c].sire = k /\ k # None
    BY <1>3, <1>4 DEF Assumptions
  <2>2. Held(pie[c].lord, k) /\ <<k, pie[c].holder, c>> \in heirs[pie[c].lord]
    BY <1>4, <2>1 DEF PendInv, TreeInv, NoOrphan
  <2>3. pie[c].lord = t
    BY <1>2, <2>2 DEF Held
  <2>4. <<k, pie[c].holder, c>> \in heirs[t]
    BY <2>2, <2>3
  <2> QED
    BY <1>2, <2>4 DEF Lone
<1>5. \A c \in Tokens : pie[c] # None /\ (\E n \in N : n[2] = pie[c].sire) => \E n \in N : n[2] = c
  BY <1>4
<1>6. TreeInv' /\ Kept(Touched(N)) /\ NoGain
  <2>1. \A n \in N : Held(n[1], n[2])
    BY <1>2, <1>3
  <2> QED
    BY <1>2, <1>5, <2>1, TakesTree DEF PendInv
<1>7. Touched(N) = {t}
  <2>1. pie[k].lord = None
    BY <1>2 DEF PendInv, TreeInv, Paired, Lone, Held
  <2> QED
    BY <1>1, <1>3, <2>1 DEF Touched
<1>8. {t} \in SUBSET Tasks /\ Kept({t})
  BY <1>6, <1>7
<1> QED
  BY <1>2, <1>6, <1>8, AtOnce

\* So do sealing the resource and the death of a task.
LEMMA SealStep == ASSUME Assumptions, PendInv, NEW t \in Tasks, Seal(t) \/ Die(t) PROVE PendInv'
<1>1. Still /\ UNCHANGED op
  BY DEF Seal, Die, Still, PendInv, TypeOK
<1> QED
  BY <1>1, StillSound

\* doom lists what the dead task holds.
LEMMA DoomStep == ASSUME Assumptions, PendInv, NEW t \in Tasks, Doom(t) PROVE PendInv'
<1>1. PICK L \in SUBSET Tokens : L = {k \in Tokens : Held(t, k)}
  BY Zenon
<1>2. PICK o : o = [NoOp EXCEPT !.kind = "doom", !.left = L]
  OBVIOUS
<1>3. o = [kind |-> "doom", root |-> None, nodes |-> << >>, cur |-> 1, lord |-> None,
           seen |-> {}, stale |-> FALSE, left |-> L]
  BY <1>2, Zenon DEF NoOp
<1>4. o \in Op /\ o.kind = "doom" /\ o.left = L
  BY <1>3 DEF Op
<1>5. PICK n \in After(t, o) : op' = [Outdate({t}, op) EXCEPT ![t] = n]
  BY <1>1, <1>2, Zenon DEF Doom
<1>6. t \in dead /\ sealed' \in BOOLEAN /\ UNCHANGED <<pie, heirs, next, dead>>
  BY DEF Doom, PendInv, TypeOK
<1>7. TreeInv' /\ NoGain /\ Kept({t})
  <2>1. Still
    BY <1>6 DEF Still, PendInv, TypeOK
  <2> QED
    BY <2>1, TreeStill DEF Kept
<1>8. /\ op'[t] \in After(t, o) /\ op' = [s \in Tasks |-> op'[s]]
      /\ \A s \in Tasks \ {t} : op'[s] = Outdate({t}, op)[s]
  BY <1>5, Zenon DEF Outdate
<1>9. \A s \in Tasks \ {t} : Outdates({t}, s)
  BY <1>8, OutdateAll, Zenon
<1>10. t \in dead' /\ \A k \in Tokens : Held(t, k)' => k \in o.left
  BY <1>1, <1>4, <1>6 DEF Held
<1>11. op'[t] \in Op /\ OpSound(t)' /\ DoomSound(t)'
  BY <1>4, <1>8, <1>10, AfterSound
<1>12. {t} \in SUBSET Tasks /\ \A s \in {t} : op'[s] \in Op /\ OpSound(s)' /\ DoomSound(s)'
  BY <1>11
<1> QED
  BY <1>6, <1>7, <1>8, <1>9, <1>12, StepSound

\* The children of a node are nodes.
LEMMA ChildrenType ==
  ASSUME PendInv, NEW h \in Tasks, NEW k
  PROVE  Children(h, k) \in SUBSET (Tasks \X Tokens)
BY DEF Children, PendInv, TypeOK

\* A node has been collected: o becomes p, with more nodes.
Visited(o, p, h, found) ==
  /\ p \in Op /\ p.kind = o.kind /\ p.root = o.root /\ p.left = o.left /\ p.stale = o.stale
  /\ p.cur = o.cur + 1 /\ p.seen = o.seen \cup {h}
  /\ p.nodes = IF o.cur = 1 \/ o.kind # "forget" THEN o.nodes \o found ELSE o.nodes

\* The collecting of t is at the node <<h, k>>, which is there.
At(t, o, h, k) ==
  Collecting(t) /\ o = op[t] /\ o.cur <= Len(o.nodes) /\ o.nodes[o.cur] = <<h, k>> /\ Held(h, k)

\* What collect knows after it has visited one more node: the node is there,
\* and its children are on the list (cull.rs:54-89).
LEMMA VisitKnows ==
  ASSUME Assumptions, PendInv, NEW t \in Tasks, NEW o \in Op, NEW h \in Tasks, NEW k \in Tokens, At(t, o, h, k),
         NEW found \in Listings(Children(h, k)), NEW p, Visited(o, p, h, found), op'[t] = p, Still
  PROVE  OpSound(t)'
<1>1. found \in Seq(Tasks \X Tokens) /\ Range(found) = Children(h, k)
  <2>1. found \in Seq(Children(h, k)) /\ Range(found) = Children(h, k)
    BY ListingOf
  <2> QED
    BY <2>1, ChildrenType
<1>2. /\ o.nodes \in Seq(Tasks \X Tokens) /\ o.cur \in Nat \ {0} /\ p.nodes \in Seq(Tasks \X Tokens)
      /\ o.root \in Tasks \X Tokens /\ o.nodes # << >> /\ o.nodes[1] = o.root
      /\ o.cur = 1 => o.nodes = <<o.root>>
      /\ o.kind # "revoke" => o.root[1] = t
      /\ ~o.stale => Knows(o)
  BY Zenon DEF Visited, Op, PendInv, OpSound, At
<1>a. o.cur <= Len(o.nodes) /\ o.nodes[o.cur] = <<h, k>> /\ Held(h, k)
  BY DEF At
<1>3. /\ Len(o.nodes) <= Len(p.nodes) /\ p.nodes # << >>
      /\ \A i \in 1 .. Len(o.nodes) : p.nodes[i] = o.nodes[i]
  BY <1>1, <1>2 DEF Visited
<1>4. /\ Nodes(o) \subseteq Nodes(p)
      /\ o.cur = 1 \/ o.kind # "forget" => Nodes(p) = Nodes(o) \cup Children(h, k)
      /\ ~(o.cur = 1 \/ o.kind # "forget") => Nodes(p) = Nodes(o)
  <2>1. CASE o.cur = 1 \/ o.kind # "forget"
    <3>1. p.nodes = o.nodes \o found
      BY <2>1 DEF Visited
    <3>2. Range(o.nodes \o found) = Range(o.nodes) \cup Range(found)
      BY <1>1, <1>2, SetOfConcat
    <3> QED
      BY <1>1, <2>1, <3>1, <3>2 DEF Nodes
  <2>2. CASE ~(o.cur = 1 \/ o.kind # "forget")
    BY <2>2, Zenon DEF Visited, Nodes
  <2> QED
    BY <2>1, <2>2
<1>5. ASSUME ~p.stale PROVE Knows(p)
  <2>1. Knows(o) /\ p.kind = o.kind /\ p.root = o.root /\ p.seen = o.seen \cup {h} /\ p.cur = o.cur + 1
    BY <1>2, <1>5, Zenon DEF Visited
  <2>2. ASSUME NEW i \in 1 .. Len(p.nodes), i < p.cur
        PROVE  /\ p.nodes[i][1] \in p.seen
               /\ Held(p.nodes[i][1], p.nodes[i][2])
               /\ i = 1 \/ p.kind # "forget" => Children(p.nodes[i][1], p.nodes[i][2]) \subseteq Nodes(p)
    <3>1. i \in 1 .. Len(o.nodes) /\ p.nodes[i] = o.nodes[i]
      BY <1>2, <1>3, <1>a, <2>1, <2>2
    <3>2. CASE i < o.cur
      <4>1. /\ o.nodes[i][1] \in o.seen
            /\ Held(o.nodes[i][1], o.nodes[i][2])
            /\ i = 1 \/ o.kind # "forget" => Children(o.nodes[i][1], o.nodes[i][2]) \subseteq Nodes(o)
        BY <2>1, <3>1, <3>2, Zenon DEF Knows
      <4> QED
        BY <1>4, <2>1, <3>1, <4>1, Zenon
    <3>3. CASE i = o.cur
      BY <1>4, <1>a, <2>1, <3>1, <3>3
    <3> QED
      BY <1>2, <2>1, <2>2, <3>2, <3>3
  <2>3. ASSUME p.kind = "forget" PROVE Nodes(p) \ {p.root} \subseteq Children(p.root[1], p.root[2])
    <3>1. CASE o.cur = 1
      <4>1. Nodes(o) = {o.root} /\ o.root = <<h, k>>
        BY <1>2, <1>a, <3>1 DEF Nodes, Range
      <4> QED
        BY <1>4, <2>1, <3>1, <4>1
    <3>2. CASE o.cur # 1
      BY <1>4, <2>1, <2>3, <3>2, Zenon DEF Knows
    <3> QED
      BY <3>1, <3>2, Zenon
  <2> QED
    BY <2>2, <2>3 DEF Knows
<1>6. Knows(p)' = Knows(p)
  BY Zenon DEF Knows, Held, Children, Still
<1>7. /\ p.root = o.root /\ p.kind = o.kind /\ p.cur # 1 /\ p.nodes[1] = o.nodes[1]
  <2>1. 1 \in 1 .. Len(o.nodes)
    BY <1>2
  <2> QED
    BY <1>2, <1>3, <2>1 DEF Visited
<1> QED
  BY <1>2, <1>3, <1>5, <1>6, <1>7 DEF OpSound

\* One turn of collect's loop keeps the invariant.
LEMMA VisitStep == ASSUME Assumptions, PendInv, NEW t \in Tasks, Visit(t) PROVE PendInv'
<1>1. PICK o \in Op : o = op[t]
  BY DEF PendInv, TypeOK
<1>2. /\ Collecting(t) /\ o.cur <= Len(o.nodes) /\ UNCHANGED <<pie, heirs, next, sealed, dead>>
      /\ OpSound(t) /\ DoomSound(t) /\ TypeOK
  BY <1>1, Zenon DEF Visit, PendInv
<1>3. PICK h \in Tasks, k \in Tokens : o.nodes[o.cur] = <<h, k>>
  <2>1. o.nodes[o.cur] \in Tasks \X Tokens
    BY <1>2 DEF Op
  <2> QED
    BY <2>1
<1>4. Still
  BY <1>2 DEF Still, TypeOK
<1>5. CASE Held(h, k)
  <2>0. PICK found \in Listings(Children(h, k)) :
           Put(t, [o EXCEPT !.cur = @ + 1, !.seen = @ \cup {h},
                            !.nodes = IF o.cur = 1 \/ o.kind # "forget" THEN @ \o found ELSE @,
                            !.lord = IF o.cur = 1 THEN pie[k].lord ELSE None])
    <3>1. o.nodes[o.cur][1] = h /\ o.nodes[o.cur][2] = k
      BY <1>3
    <3> QED
      BY <1>1, <1>5, <3>1, Zenon DEF Visit
  <2>1. PICK p :
           /\ Put(t, p)
           /\ p = [o EXCEPT !.cur = @ + 1, !.seen = @ \cup {h},
                            !.nodes = IF o.cur = 1 \/ o.kind # "forget" THEN @ \o found ELSE @,
                            !.lord = IF o.cur = 1 THEN pie[k].lord ELSE None]
    BY <2>0, Zenon
  <2>2. PICK m, l : /\ m = IF o.cur = 1 \/ o.kind # "forget" THEN o.nodes \o found ELSE o.nodes
                    /\ l = IF o.cur = 1 THEN pie[k].lord ELSE None
    BY Zenon
  <2>3. m \in Seq(Tasks \X Tokens) /\ l \in Tasks \cup {None}
    <3>1. found \in Seq(Children(h, k))
      BY ListingOf
    <3>2. found \in Seq(Tasks \X Tokens)
      BY <3>1, ChildrenType
    <3>3. pie[k] \in Pie
      BY <1>2, <1>5 DEF TypeOK, Held
    <3> QED
      BY <2>2, <3>2, <3>3 DEF Op, Pie
  <2>4. p = [o EXCEPT !.cur = o.cur + 1, !.seen = o.seen \cup {h}, !.nodes = m, !.lord = l]
    BY <2>1, <2>2, Zenon
  <2>a. p = [kind |-> o.kind, root |-> o.root, nodes |-> m, cur |-> o.cur + 1, lord |-> l,
             seen |-> o.seen \cup {h}, stale |-> o.stale, left |-> o.left]
    BY <2>4, Zenon DEF Op
  <2>b. p \in Op
    BY <2>3, <2>a DEF Op
  <2>5. Visited(o, p, h, found)
    BY <2>2, <2>a, <2>b DEF Visited
  <2>6. op'[t] = p
    BY <1>2, <2>1 DEF Put, TypeOK
  <2>7. OpSound(t)'
    <3>1. At(t, o, h, k)
      BY <1>1, <1>2, <1>3, <1>5, Zenon DEF At
    <3> QED
      BY <1>4, <2>5, <2>6, <3>1, VisitKnows, Zenon
  <2>8. op'[t] \in Op /\ DoomSound(t)'
    BY <1>1, <1>2, <2>5, <2>6 DEF Visited, DoomSound, Held
  <2> QED
    BY <1>4, <2>1, <2>7, <2>8, BookSound
<1>6. CASE ~Held(h, k)
  <2>1. Retry(t, op[t])
    BY <1>1, <1>3, <1>6 DEF Visit
  <2>2. op'[t] \in Op /\ OpSound(t)' /\ DoomSound(t)'
    BY <1>2, <2>1, RetrySound
  <2>3. PICK p : Put(t, p)
    BY <2>1 DEF Retry
  <2> QED
    BY <1>4, <2>2, <2>3, BookSound
<1> QED
  BY <1>5, <1>6

\* observe of the parent or the caller keeps the invariant.
LEMMA LookStep == ASSUME Assumptions, PendInv, NEW t \in Tasks, Look(t) PROVE PendInv'
<1>1. PICK o \in Op : o = op[t]
  BY DEF PendInv, TypeOK
<1>2. /\ Collecting(t) /\ UNCHANGED <<pie, heirs, next, sealed, dead>>
      /\ OpSound(t) /\ DoomSound(t) /\ TypeOK
  BY DEF Look, PendInv
<1>3. PICK p : /\ Put(t, p)
               /\ \E h \in Tasks, l \in Tasks \cup {None} : p = [o EXCEPT !.lord = l, !.seen = o.seen \cup {h}]
  <2>1. o.lord \in Tasks \cup {None}
    BY DEF Op
  <2>2. CASE o.lord # None /\ Put(t, [o EXCEPT !.lord = None, !.seen = @ \cup {o.lord}])
    BY <2>1, <2>2, Zenon
  <2>3. CASE Put(t, [o EXCEPT !.seen = @ \cup {t}])
    <3>1. [o EXCEPT !.seen = @ \cup {t}] = [o EXCEPT !.lord = o.lord, !.seen = o.seen \cup {t}]
      BY Zenon DEF Op
    <3> QED
      BY <2>1, <2>3, <3>1, Zenon
  <2> QED
    BY <1>1, <2>2, <2>3, Zenon DEF Look
<1>4. /\ p \in Op /\ p.kind = o.kind /\ p.root = o.root /\ p.nodes = o.nodes /\ p.cur = o.cur
      /\ o.seen \subseteq p.seen /\ p.stale = o.stale /\ p.left = o.left
  <2>1. PICK h \in Tasks, l \in Tasks \cup {None} : p = [o EXCEPT !.lord = l, !.seen = o.seen \cup {h}]
    BY <1>3, Zenon
  <2>2. p = [kind |-> o.kind, root |-> o.root, nodes |-> o.nodes, cur |-> o.cur, lord |-> l,
             seen |-> o.seen \cup {h}, stale |-> o.stale, left |-> o.left]
    BY <2>1, Zenon DEF Op
  <2>3. p \in Op
    BY <2>2 DEF Op
  <2> QED
    BY <2>2, <2>3
<1>5. op'[t] = p
  BY <1>2, <1>3, Zenon DEF Put, TypeOK
<1>6. Knows(o) => Knows(p)'
  BY <1>2, <1>4 DEF Knows, Held, Children, Nodes
<1>7. OpSound(t)' /\ DoomSound(t)'
  BY <1>1, <1>2, <1>4, <1>5, <1>6, Zenon DEF OpSound, DoomSound, Collecting, Held
<1>8. Still /\ op'[t] \in Op
  BY <1>2, <1>4, <1>5, Zenon DEF Still, TypeOK
<1> QED
  BY <1>3, <1>7, <1>8, BookSound

\* When the versions hold, or else the relations do, the nodes of a cull that
\* are still there are closed under children.
LEMMA CullClosed ==
  ASSUME Assumptions, PendInv, NEW t \in Tasks, NEW o \in Op, o = op[t], Collected(t), o.kind # "forget",
         Current(o) \/ RelationsMatch(o), NEW N, N = {n \in Nodes(o) : Held(n[1], n[2])},
         NEW c \in Tokens, pie[c] # None, NEW n \in N, n[2] = pie[c].sire
  PROVE  <<pie[c].holder, c>> \in N
<1>1. o.nodes \in Seq(Tasks \X Tokens) /\ o.cur > Len(o.nodes)
  BY Zenon DEF Collected, Op
<1>2. n \in Nodes(o) /\ Held(n[1], n[2]) /\ n[2] # None
  BY DEF Held, Assumptions
<1>3. Children(n[1], n[2]) \subseteq Nodes(o)
  <2>1. CASE Current(o)
    <3>1. Knows(o)
      BY <2>1, Zenon DEF PendInv, OpSound, Collected, Current
    <3>2. PICK i \in 1 .. Len(o.nodes) : n = o.nodes[i]
      BY <1>1, <1>2 DEF Nodes, Range
    <3>3. i < o.cur
      BY <1>1, <3>2 DEF Op
    <3> QED
      BY <3>1, <3>2, <3>3, Zenon DEF Knows
  <2>2. CASE RelationsMatch(o)
    BY <1>2, <2>2, Zenon DEF RelationsMatch
  <2> QED
    BY <2>1, <2>2, Zenon
<1>4. <<pie[c].sire, pie[c].holder, c>> \in heirs[pie[c].lord] /\ pie[c].lord = n[1]
  BY <1>2, Zenon DEF PendInv, TreeInv, NoOrphan, Held
<1>5. <<pie[c].holder, c>> \in Children(n[1], n[2])
  BY <1>4 DEF Children
<1> QED
  BY <1>3, <1>5, Zenon DEF Held

\* The commit section of cull keeps the invariant: a collection that is still
\* current, or whose relations match, takes a whole subtree out of the tree.
LEMMA CullStep == ASSUME Assumptions, PendInv, NEW t \in Tasks, Cull(t) PROVE PendInv'
<1>1. PICK o \in Op : o = op[t]
  BY DEF PendInv, TypeOK
<1>2. /\ Collected(t) /\ Collecting(t) /\ o.kind # "forget" /\ UNCHANGED <<next, sealed, dead>>
      /\ OpSound(t) /\ DoomSound(t) /\ TypeOK
  BY <1>1, Zenon DEF Cull, PendInv, Collected
<1>3. PICK h \in Tasks, k \in Tokens : o.root = <<h, k>> /\ (o.kind # "revoke" => h = t)
  BY <1>1, <1>2 DEF OpSound
<1>4. (UNCHANGED <<pie, heirs>> => Still) /\ dead \subseteq dead'
  BY <1>2, Zenon DEF Still, TypeOK
<1>5. CASE ~Current(o) /\ ~RelationsMatch(o)
  <2>1. Retry(t, op[t]) /\ UNCHANGED <<pie, heirs>>
    BY <1>1, <1>5, Zenon DEF Cull
  <2>2. op'[t] \in Op /\ OpSound(t)' /\ DoomSound(t)'
    BY <1>2, <2>1, RetrySound, Zenon
  <2>3. PICK p : Put(t, p)
    BY <2>1 DEF Retry
  <2> QED
    BY <1>4, <2>1, <2>2, <2>3, BookSound, Zenon
<1>6. CASE (Current(o) \/ RelationsMatch(o)) /\ (~Held(h, k) \/ ~Entitled(t, o))
  <2>1. (\E p \in After(t, o) : Put(t, p)) /\ UNCHANGED <<pie, heirs>>
    BY <1>1, <1>3, <1>6 DEF Cull
  <2>2. PICK p \in After(t, o) : Put(t, p)
    BY <2>1
  <2>3. op'[t] \in After(t, o)
    BY <1>2, <2>2, Zenon DEF Put, TypeOK
  <2>4. o.kind = "doom" => t \in dead' /\ \A j \in Tokens : Held(t, j)' => j \in o.left
    BY <1>1, <1>2, <1>3, <1>6, <2>1 DEF DoomSound, Held, Entitled
  <2>5. op'[t] \in Op /\ OpSound(t)' /\ DoomSound(t)'
    BY <2>3, <2>4, AfterSound
  <2> QED
    BY <1>4, <2>1, <2>2, <2>5, BookSound, Zenon
<1>7. CASE (Current(o) \/ RelationsMatch(o)) /\ Held(h, k) /\ Entitled(t, o)
  <2>1. PICK N : N = {n \in Nodes(o) : Held(n[1], n[2])}
    BY Zenon
  <2>2. Takes(N) /\ \E p \in After(t, o) : op' = [Outdate(Touched(N), op) EXCEPT ![t] = p]
    <3>1. o.root[1] = h /\ o.root[2] = k
      BY <1>3
    <3> QED
      BY <1>1, <1>7, <2>1, <3>1, Zenon DEF Cull
  <2>3. N \in SUBSET (Tasks \X Tokens) /\ o.root \in N
    BY <1>1, <1>2, <1>3, <1>7, <2>1 DEF Nodes, Range, Op, OpSound
  <2>4. \A c \in Tokens : pie[c] # None /\ (\E n \in N : n[2] = pie[c].sire) => \E n \in N : n[2] = c
    <3>1. ASSUME NEW c \in Tokens, pie[c] # None, NEW n \in N, n[2] = pie[c].sire
          PROVE  <<pie[c].holder, c>> \in N
      BY <1>1, <1>2, <1>7, <2>1, <3>1, CullClosed, Zenon
    <3> QED
      BY <3>1, Zenon
  <2>5. TreeInv' /\ Kept(Touched(N)) /\ NoGain
    <3>1. \A n \in N : Held(n[1], n[2])
      BY <2>1
    <3> QED
      BY <1>2, <2>2, <2>3, <2>4, <3>1, TakesTree DEF PendInv
  <2>6. PICK T \in SUBSET Tasks : T = Touched(N)
    <3>1. \A n \in N : n[1] \in Tasks /\ pie[n[2]] \in Pie
      BY <1>2, <2>1, <2>3, Zenon DEF TypeOK, Held
    <3> QED
      BY <3>1, Zenon DEF Touched, Pie
  <2>7. /\ op'[t] \in After(t, o) /\ op' = [s \in Tasks |-> op'[s]]
        /\ \A s \in Tasks \ {t} : op'[s] = Outdate(T, op)[s]
    BY <2>2, <2>6, Zenon DEF Outdate
  <2>8. \A s \in Tasks \ {t} : Outdates(T, s)
    BY <2>7, OutdateAll, Zenon
  <2>9. o.kind = "doom" => t \in dead' /\ \A j \in Tokens : Held(t, j)' => j \in o.left
    <3>1. pie'[k] = None
      <4>1. k \in {n[2] : n \in N}
        BY <1>3, <2>3
      <4> QED
        BY <2>2, <4>1, Zenon DEF Takes
    <3>2. \A j \in Tokens : t \in dead /\ Held(t, j)' => Held(t, j) /\ j # k
      BY <2>5, <3>1 DEF NoGain, Held
    <3> QED
      BY <1>1, <1>2, <1>3, <3>2 DEF DoomSound
  <2>10. {t} \in SUBSET Tasks /\ \A s \in {t} : op'[s] \in Op /\ OpSound(s)' /\ DoomSound(s)'
    BY <2>7, <2>9, AfterSound
  <2> QED
    BY <1>4, <2>5, <2>6, <2>7, <2>8, <2>10, StepSound, Zenon
<1> QED
  BY <1>5, <1>6, <1>7, Zenon

\* The commit section of forget keeps the invariant.
LEMMA ForgetStep == ASSUME Assumptions, PendInv, NEW t \in Tasks, ForgetEnd(t) PROVE PendInv'
<1>1. PICK o \in Op : o = op[t]
  BY DEF PendInv, TypeOK
<1>2. /\ Collected(t) /\ Collecting(t) /\ o.kind = "forget" /\ UNCHANGED <<next, sealed, dead>>
      /\ OpSound(t) /\ DoomSound(t) /\ TypeOK
  BY <1>1, Zenon DEF ForgetEnd, PendInv, Collected
<1>3. PICK k \in Tokens : o.root = <<t, k>> /\ o.root[2] = k
  BY <1>1, <1>2 DEF OpSound
<1>4. (UNCHANGED <<pie, heirs>> => Still) /\ dead \subseteq dead'
  BY <1>2, Zenon DEF Still, TypeOK
<1>5. CASE ~Current(o)
  <2>1. Retry(t, op[t]) /\ UNCHANGED <<pie, heirs>>
    BY <1>1, <1>5, Zenon DEF ForgetEnd
  <2>2. op'[t] \in Op /\ OpSound(t)' /\ DoomSound(t)'
    BY <1>2, <2>1, RetrySound, Zenon
  <2>3. PICK p : Put(t, p)
    BY <2>1 DEF Retry
  <2> QED
    BY <1>4, <2>1, <2>2, <2>3, BookSound
<1>6. CASE Put(t, NoOp) /\ UNCHANGED <<pie, heirs>>
  <2>1. op'[t] = NoOp
    BY <1>2, <1>6, Zenon DEF Put, TypeOK
  <2>2. op'[t] \in Op /\ OpSound(t)' /\ DoomSound(t)'
    BY <2>1 DEF NoOp, Op, OpSound, DoomSound, Collecting
  <2> QED
    BY <1>4, <1>6, <2>2, BookSound
<1>7. CASE Current(o) /\ ~(Put(t, NoOp) /\ UNCHANGED <<pie, heirs>>)
  <2>1. PICK M, l, s : M = Nodes(o) \ {o.root} /\ l = pie[k].lord /\ s = pie[k].sire
    BY Zenon
  <2>2. /\ Held(t, k) /\ ~Only /\ s # None /\ Held(l, s)
        /\ Hands(k, l, s, M)
        /\ op' = [Outdate({n[1] : n \in Nodes(o)} \cup {l}, op) EXCEPT ![t] = NoOp]
    <3>1. LET r == op[t].root[2] IN
          /\ Held(t, r) /\ ~Only /\ pie[r].sire # None /\ Held(pie[r].lord, pie[r].sire)
          /\ Hands(r, pie[r].lord, pie[r].sire, Nodes(op[t]) \ {op[t].root})
          /\ op' = [Outdate({n[1] : n \in Nodes(op[t])} \cup {pie[r].lord}, op) EXCEPT ![t] = NoOp]
      BY <1>1, <1>7, ZenonT(30) DEF ForgetEnd, Hands
    <3> QED
      BY <1>1, <1>3, <2>1, <3>1, Zenon
  <2>3. l \in Tasks /\ s \in Tokens
    <3>1. pie[k] \in Pie /\ pie[s] \in Pie /\ s \in Tokens /\ pie[s].holder = l
      BY <1>2, <2>2 DEF TypeOK, Held
    <3> QED
      BY <3>1, Zenon DEF Pie
  <2>4. M = Children(t, k) /\ Nodes(o) = M \cup {<<t, k>>}
    <3>1. Knows(o)
      BY <1>1, <1>2, <1>7, Zenon DEF OpSound, Current
    <3>2. /\ o.nodes \in Seq(Tasks \X Tokens) /\ 1 \in 1 .. Len(o.nodes) /\ 1 < o.cur
          /\ o.nodes[1] = o.root /\ o.root \in Nodes(o)
      BY <1>1, <1>2 DEF OpSound, Collected, Op, Nodes, Range
    <3>3. Children(t, k) \subseteq Nodes(o) /\ M \subseteq Children(t, k)
      BY <1>2, <1>3, <2>1, <3>1, <3>2 DEF Knows
    <3>4. <<t, k>> \notin Children(t, k)
      <4>1. SUFFICES ASSUME NEW e \in heirs[t], e[1] = k, e[3] = k PROVE FALSE
        BY Zenon DEF Children
      <4>2. pie[k].sire = k /\ pie[k] # None /\ k # None
        BY <4>1, Zenon DEF PendInv, TreeInv, NoGhost, Held, Assumptions
      <4>3. k < k
        BY <4>2 DEF PendInv, TreeInv, Older
      <4> QED
        BY <4>3 DEF Tokens
    <3> QED
      BY <1>3, <2>1, <3>2, <3>3, <3>4, Zenon
  <2>5. PICK T \in SUBSET Tasks : T = {n[1] : n \in M} \cup {t, l} /\ T = {n[1] : n \in Nodes(o)} \cup {l}
    <3>1. M \in SUBSET (Tasks \X Tokens)
      BY <2>4, ChildrenType
    <3>2. PICK A \in SUBSET Tasks : A = {n[1] : n \in M}
      BY <3>1, Zenon
    <3>3. {n[1] : n \in Nodes(o)} = A \cup {t}
      <4>1. \A n \in Nodes(o) : n[1] \in A \cup {t}
        BY <2>4, <3>2
      <4>2. \A n \in M : n \in Nodes(o)
        BY <2>4
      <4>3. \A x \in A : \E n \in Nodes(o) : x = n[1]
        BY <3>2, <4>2
      <4>4. \E n \in Nodes(o) : t = n[1]
        <5>1. <<t, k>> \in Nodes(o) /\ <<t, k>>[1] = t
          BY <2>4
        <5> QED
          BY <5>1
      <4> QED
        BY <4>1, <4>3, <4>4
    <3>4. A \cup {t, l} \in SUBSET Tasks /\ A \cup {t, l} = (A \cup {t}) \cup {l}
      BY <2>3
    <3> QED
      BY <3>2, <3>3, <3>4, Zenon
  <2>6. TreeInv' /\ Kept(T) /\ NoGain
    <3>1. TreeInv' /\ Kept({n[1] : n \in M} \cup {t, l}) /\ NoGain
      BY <1>2, <2>1, <2>2, <2>3, <2>4, ForgetTree, Zenon DEF PendInv
    <3> QED
      BY <2>5, <3>1, Zenon
  <2>7. /\ op'[t] = NoOp /\ op' = [u \in Tasks |-> op'[u]]
        /\ \A u \in Tasks \ {t} : op'[u] = Outdate(T, op)[u]
    BY <2>2, <2>5, Zenon DEF Outdate
  <2>8. \A u \in Tasks \ {t} : Outdates(T, u)
    BY <2>7, OutdateAll, Zenon
  <2>9. op'[t] \in Op /\ OpSound(t)' /\ DoomSound(t)'
    BY <2>7 DEF NoOp, Op, OpSound, DoomSound, Collecting
  <2>10. {t} \in SUBSET Tasks /\ \A u \in {t} : op'[u] \in Op /\ OpSound(u)' /\ DoomSound(u)'
    BY <2>9
  <2> QED
    BY <1>4, <2>6, <2>7, <2>8, <2>10, StepSound, Zenon
<1> QED
  BY <1>5, <1>6, <1>7

\* The invariant is inductive.
LEMMA NextSound == Assumptions /\ PendInv /\ [Next]_vars => PendInv'
<1> SUFFICES ASSUME Assumptions, PendInv, [Next]_vars PROVE PendInv'
  OBVIOUS
<1>1. CASE UNCHANGED vars
  <2>1. Still /\ UNCHANGED op
    BY <1>1 DEF vars, Still, PendInv, TypeOK
  <2> QED
    BY <2>1, StillSound
<1>2. ASSUME NEW t \in Tasks, NEW k \in Tokens, NEW u \in Tasks, Revoke(t, u, k) PROVE PendInv'
  BY <1>2, BeginStep DEF Revoke
<1>3. ASSUME NEW t \in Tasks, NEW k \in Tokens, Release(t, k) \/ Forget(t, k) PROVE PendInv'
  BY <1>3, BeginStep DEF Release, Forget
<1> QED
  BY <1>1, <1>2, <1>3, AccordStep, ReduceStep, ReapStep, SealStep, DoomStep, VisitStep, LookStep,
     CullStep, ForgetStep DEF Next

-----------------------------------------------------------------------------
(* What the grant tree promises.                                           *)

\* Every reachable state has it.
LEMMA PendSound == ASSUME Assumptions PROVE Spec => []PendInv
<1>1. Init => PendInv
  BY InitSound
<1>2. PendInv /\ [Next]_vars => PendInv'
  BY NextSound
<1> QED
  BY <1>1, <1>2, PTL DEF Spec

\* For any number of tasks and pies, the ledgers of the tasks and the marks and
\* versions on them keep their types; in particular no pie is without a right.
THEOREM LedgersTyped == ASSUME Assumptions PROVE Spec => []TypeOK
<1>1. PendInv => TypeOK
  BY DEF PendInv
<1> QED
  BY <1>1, PendSound, PTL

\* For any number of tasks and pies, the tree that spans the ledgers stays whole
\* however accords, culls and forgets interleave with the collecting: a granted
\* pie is listed by a lord that holds its parent, and a list names nothing else.
THEOREM TreeWhole == ASSUME Assumptions PROVE Spec => [](NoOrphan /\ NoGhost)
<1>1. PendInv => NoOrphan /\ NoGhost
  BY DEF PendInv, TreeInv
<1> QED
  BY <1>1, PendSound, PTL

\* A task whose doom is over holds no pie, and is given none later.
THEOREM DoomIsComplete == ASSUME Assumptions PROVE Spec => []DoomComplete
<1>1. PendInv => DoomComplete
  BY Zenon DEF PendInv, DoomSound, DoomComplete
<1> QED
  BY <1>1, PendSound, PTL

\* accord hands on no right its source does not have.
LEMMA AccordNarrows ==
  ASSUME Assumptions, PendInv, NEW t \in Tasks, NEW k \in Tokens, NEW u \in Tasks,
         NEW perm \in SUBSET Rights, Accord(t, k, u, perm)
  PROVE  NoAmplifyStep
<1>1. /\ next \in Tokens /\ next # k /\ pie[next] = None /\ pie[k] \in Pie /\ perm \subseteq pie[k].perm
  BY DEF PendInv, TreeInv, TreeType, Fresh, Held, Accord, AccordIf, Tokens, Assumptions, Narrows
<1>2. PICK new, old : /\ new = [holder |-> u, sire |-> k, lord |-> t, perm |-> perm, heir |-> None]
                      /\ old = [pie[k] EXCEPT !.heir = IF Only THEN [task |-> u, token |-> next] ELSE @]
  BY Zenon
<1>3. new.perm = perm /\ new.sire = k /\ old.perm = pie[k].perm /\ old.sire = pie[k].sire
  BY <1>1, <1>2 DEF Pie
<1>4. pie' = [pie EXCEPT ![next] = new, ![k] = old]
  BY <1>1, <1>2, Zenon DEF PendInv, TypeOK, Accord, AccordIf
<1>5. \A c \in Tokens : pie'[c] = IF c = next THEN new ELSE IF c = k THEN old ELSE pie[c]
  BY <1>1, <1>4 DEF PendInv, TypeOK
<1>6. pie'[next] = new /\ pie'[k] = old /\ pie[k] # None
  BY <1>1, <1>5, Zenon DEF Accord, AccordIf, Held
<1>7. ASSUME NEW c \in Tokens, pie'[c] # None
      PROVE  /\ pie[c] # None => pie'[c].perm \subseteq pie[c].perm
             /\ pie[c] = None \/ pie[c].sire # pie'[c].sire => pie'[c].perm \subseteq pie'[pie'[c].sire].perm
  <2>1. CASE c = next
    BY <1>1, <1>3, <1>6, <2>1, Zenon
  <2>2. CASE c = k
    BY <1>3, <1>6, <2>2, Zenon
  <2>3. CASE c # next /\ c # k
    BY <1>5, <1>7, <2>3, Zenon
  <2> QED
    BY <2>1, <2>2, <2>3, Zenon
<1> QED
  BY <1>7 DEF NoAmplifyStep

\* reduce, with the heirs it clips, leaves nobody with more than before.
LEMMA ReduceNarrows ==
  ASSUME Assumptions, PendInv, NEW t \in Tasks, NEW k \in Tokens,
         NEW perm \in SUBSET Rights, Reduce(t, k, perm)
  PROVE  NoAmplifyStep
<1>1. pie[k] \in Pie /\ perm \subseteq pie[k].perm
  BY DEF PendInv, TypeOK, Held, Reduce, ReduceTo, Narrows
<1>2. PICK old : old = [pie[k] EXCEPT !.perm = perm]
  BY Zenon
<1>3. old.perm = perm /\ old.sire = pie[k].sire
  BY <1>1, <1>2 DEF Pie
<1>4. pie' = [pie EXCEPT ![k] = old]
  BY <1>2 DEF Reduce, ReduceTo
<1>5. \A c \in Tokens : pie'[c] = IF c = k THEN old ELSE pie[c]
  BY <1>4 DEF PendInv, TypeOK
<1>6. pie[k] # None
  BY Zenon DEF Held, Reduce, ReduceTo
<1> QED
  BY <1>1, <1>3, <1>5, <1>6 DEF NoAmplifyStep

\* What is taken out leaves the rights of the rest alone.
LEMMA TakesNarrows == ASSUME PendInv, NEW N, Takes(N) PROVE NoAmplifyStep
<1>1. ASSUME NEW c \in Tokens, pie'[c] # None
      PROVE  pie[c] # None /\ pie'[c].perm = pie[c].perm /\ pie'[c].sire = pie[c].sire
  <2>1. pie'[c] = pie[c] \/ (pie[c] # None /\ pie'[c] = [pie[c] EXCEPT !.heir = None])
    BY <1>1 DEF Takes
  <2>2. pie[c] # None => pie[c] \in Pie
    BY <1>1 DEF PendInv, TypeOK
  <2> QED
    BY <1>1, <2>1, <2>2 DEF Pie
<1> QED
  BY <1>1 DEF NoAmplifyStep

\* A forget hands children to a parent that has their rights, or the resource
\* is sealed.
LEMMA ForgetNarrows == ASSUME Assumptions, PendInv, NEW t \in Tasks, ForgetEnd(t) PROVE NoAmplifyStep
<1>1. CASE UNCHANGED pie
  BY <1>1, Zenon DEF NoAmplifyStep
<1>2. CASE pie' # pie
  <2>1. PICK k, s, M : k = op[t].root[2] /\ s = pie[k].sire /\ M = Nodes(op[t]) \ {op[t].root}
    BY Zenon
  <2>2. LET r == op[t].root[2]
            kids == {n[2] : n \in Nodes(op[t]) \ {op[t].root}} IN
        /\ Held(t, r) /\ pie[r].sire # None /\ Held(pie[r].lord, pie[r].sire)
        /\ sealed \/ \A c \in kids : pie[c].perm \subseteq pie[pie[r].sire].perm
        /\ Hands(r, pie[r].lord, pie[r].sire, Nodes(op[t]) \ {op[t].root})
    BY <1>2, ZenonT(30) DEF ForgetEnd, Hands
  <2>3. PICK l : l = pie[k].lord
    OBVIOUS
  <2>4. PICK K : K = {n[2] : n \in M}
    BY Zenon
  <2>5. /\ Held(t, k) /\ s # None /\ Held(l, s) /\ Hands(k, l, s, M)
        /\ sealed \/ \A c \in K : pie[c].perm \subseteq pie[s].perm
    BY <2>1, <2>2, <2>3, <2>4, Zenon
  <2>6. s \in Tokens /\ k \in Tokens /\ s # k
    <3>1. s \in Tokens /\ k \in Tokens /\ s < k
      BY <2>1, <2>5, Zenon DEF PendInv, TreeInv, Older, Held
    <3> QED
      BY <3>1 DEF Tokens
  <2>7. ASSUME NEW c \in Tokens
        PROVE  pie'[c] = IF c = k THEN None
                         ELSE IF c \in K /\ pie[c] # None THEN [pie[c] EXCEPT !.sire = s, !.lord = l]
                         ELSE pie[c]
    BY <2>4, <2>5, <2>7, Zenon DEF Hands
  <2>8. ASSUME NEW c \in Tokens, c # k, pie[c] # None
        PROVE  pie'[c].perm = pie[c].perm /\ (pie'[c].sire = pie[c].sire \/ (c \in K /\ pie'[c].sire = s))
    <3>1. pie[c] \in Pie
      BY <2>8 DEF PendInv, TypeOK
    <3>2. CASE c \in K
      <4>1. pie'[c] = [pie[c] EXCEPT !.sire = s, !.lord = l]
        BY <2>7, <2>8, <3>2, Zenon
      <4> QED
        BY <3>1, <3>2, <4>1 DEF Pie
    <3>3. CASE c \notin K
      BY <2>7, <2>8, <3>3, Zenon
    <3> QED
      BY <3>2, <3>3
  <2>9. \A c \in Tokens : pie'[c] # None => c # k /\ pie[c] # None
    BY <2>7, Zenon
  <2> QED
    BY <2>5, <2>6, <2>8, <2>9 DEF NoAmplifyStep, Held
<1> QED
  BY <1>1, <1>2

\* Rights never grow: no step adds a right to a pie, and a pie that comes under
\* a parent, by accord or by the forget of the one between, has no right the
\* parent lacks while the resource is not sealed.
THEOREM RightsNarrow == ASSUME Assumptions PROVE Spec => [][NoAmplifyStep]_vars
<1>1. ASSUME PendInv, [Next]_vars PROVE [NoAmplifyStep]_vars
  <2>1. ASSUME NEW t \in Tasks, NEW k \in Tokens, Reap(t, k) PROVE NoAmplifyStep
    BY <1>1, <2>1, TakesNarrows, Zenon DEF Reap
  <2>2. ASSUME NEW t \in Tasks, Cull(t) PROVE NoAmplifyStep
    <3>1. (\E N : Takes(N)) \/ UNCHANGED pie
      BY <2>2 DEF Cull
    <3> QED
      BY <1>1, <3>1, TakesNarrows, Zenon DEF NoAmplifyStep
  <2>3. UNCHANGED pie => NoAmplifyStep
    BY Zenon DEF NoAmplifyStep
  <2>4. ASSUME NEW t \in Tasks, NEW k \in Tokens, NEW u \in Tasks,
               Revoke(t, u, k) \/ Release(t, k) \/ Forget(t, k)
        PROVE  UNCHANGED pie
    BY <2>4 DEF Revoke, Release, Forget
  <2>5. ASSUME NEW t \in Tasks, Seal(t) \/ Die(t) \/ Doom(t) \/ Visit(t) \/ Look(t) PROVE UNCHANGED pie
    BY <2>5, Zenon DEF Seal, Die, Doom, Visit, Look
  <2> QED
    BY <1>1, <2>1, <2>2, <2>3, <2>4, <2>5, AccordNarrows, ReduceNarrows, ForgetNarrows, Zenon DEF Next
<1> QED
  BY <1>1, PendSound, PTL DEF Spec

=============================================================================
