----------------------------- MODULE PendTree ----------------------------
(* The grant tree of a resource, for every number of tasks and pies.       *)
EXTENDS Pend, TLAPS

-----------------------------------------------------------------------------
(* The invariant.                                                          *)

\* Tokens are handed out in order, each once.
Fresh == \A k \in Tokens : k >= next => pie[k] = None

\* A pie has a parent and a lord, or neither.
Paired == \A k \in Tokens : pie[k] # None => (pie[k].sire = None <=> pie[k].lord = None)

\* A pie is younger than its parent.
Older == \A k \in Tokens : pie[k] # None /\ pie[k].sire # None => pie[k].sire < k

\* The mark of an heir is for ONLY, and names a child that the holder lists.
Marked ==
  \A k \in Tokens : pie[k] # None /\ pie[k].heir # None =>
      Only /\ <<k, pie[k].heir.task, pie[k].heir.token>> \in heirs[pie[k].holder]

TreeType ==
  /\ pie \in [Tokens -> Pie \cup {None}]
  /\ heirs \in [Tasks -> SUBSET (Tokens \X Tasks \X Tokens)]
  /\ next \in 1 .. MaxToken + 1 /\ sealed \in BOOLEAN /\ dead \subseteq Tasks

TreeInv == TreeType /\ Fresh /\ Paired /\ Older /\ Marked /\ NoOrphan /\ NoGhost

\* What an operation knows of the nodes it has visited while no ledger it saw
\* has changed: they are there, and their children are on its list.  A forget
\* lists the children of its root and nothing else.
Knows(o) ==
  /\ \A i \in 1 .. Len(o.nodes) : i < o.cur =>
        /\ o.nodes[i][1] \in o.seen
        /\ Held(o.nodes[i][1], o.nodes[i][2])
        /\ i = 1 \/ o.kind # "forget"
              => Children(o.nodes[i][1], o.nodes[i][2]) \subseteq Nodes(o)
  /\ o.kind = "forget" => Nodes(o) \ {o.root} \subseteq Children(o.root[1], o.root[2])

OpSound(t) ==
  Collecting(t) =>
    /\ op[t].root \in Tasks \X Tokens
    /\ op[t].nodes # << >> /\ op[t].nodes[1] = op[t].root
    /\ op[t].cur = 1 => op[t].nodes = <<op[t].root>>
    /\ op[t].kind # "revoke" => op[t].root[1] = t
    /\ ~op[t].stale => Knows(op[t])

\* The pies of a dead task are on the list of its doom.
DoomSound(t) ==
  /\ op[t].kind \in {"doom", "gone"} => t \in dead
  /\ op[t].kind = "doom" => \A k \in Tokens : Held(t, k) => k = op[t].root[2] \/ k \in op[t].left
  /\ op[t].kind = "gone" => \A k \in Tokens : ~Held(t, k)

PendInv == TreeInv /\ TypeOK /\ \A t \in Tasks : OpSound(t) /\ DoomSound(t)

-----------------------------------------------------------------------------
(* What the list operators return.                                         *)

\* A listing of a set has the members of the set, whatever its order.
LEMMA ListingOf ==
  ASSUME Assumptions, NEW S, NEW s \in Listings(S)
  PROVE  s \in Seq(S) /\ Range(s) = S
<1>1. PICK n \in Nat : s \in Bijection(1 .. n, S)
  BY DEF Listings, Assumptions
<1>2. s \in [1 .. n -> S] /\ \A x \in S : \E i \in 1 .. n : s[i] = x
  BY <1>1 DEF Bijection, Injection, Surjection
<1> QED
  BY <1>1, <1>2 DEF Range

\* The members of two lists put together (nodes.push).
LEMMA SetOfConcat ==
  ASSUME NEW X, NEW s \in Seq(X), NEW r \in Seq(X)
  PROVE  Range(s \o r) = Range(s) \cup Range(r)
<1>1. ASSUME NEW x \in Range(s \o r) PROVE x \in Range(s) \cup Range(r)
  BY <1>1 DEF Range
<1>2. ASSUME NEW x \in Range(s) PROVE x \in Range(s \o r)
  BY <1>2 DEF Range
<1>3. ASSUME NEW x \in Range(r) PROVE x \in Range(s \o r)
  <2>1. PICK i \in 1 .. Len(r) : x = r[i]
    BY <1>3 DEF Range
  <2>2. Len(s) + i \in 1 .. Len(s \o r) /\ (s \o r)[Len(s) + i] = x
    BY <2>1
  <2> QED
    BY <2>2 DEF Range
<1> QED
  BY <1>1, <1>2, <1>3

-----------------------------------------------------------------------------
(* What a step leaves alone.                                               *)

\* The ledgers outside T are as they were.
Kept(T) ==
  \A h \in Tasks \ T :
    /\ heirs'[h] = heirs[h]
    /\ \A k \in Tokens : Held(h, k) => pie'[k] = pie[k]

\* Nobody dead comes to hold a pie.
NoGain == \A s \in Tasks, k \in Tokens : Held(s, k)' => Held(s, k) \/ s \notin dead

\* t finds out about the ledgers of T that it saw, and does nothing else.
Outdates(T, t) == op'[t] = [op[t] EXCEPT !.stale = @ \/ op[t].seen \cap T # {}]

\* An operation that saw none of the ledgers that changed still knows what it
\* knew; any other is stale.
LEMMA OpKept ==
  ASSUME Assumptions, TypeOK, NEW t \in Tasks, OpSound(t), NEW T \in SUBSET Tasks, Kept(T), Outdates(T, t)
  PROVE  /\ op'[t] \in Op /\ OpSound(t)'
         /\ op'[t].kind = op[t].kind /\ op'[t].root = op[t].root /\ op'[t].left = op[t].left
<1>1. PICK o \in Op : o = op[t]
  BY DEF TypeOK
<1>0. PICK b \in BOOLEAN : b = (o.stale \/ o.seen \cap T # {})
  BY Zenon
<1>2. PICK p \in Op : p = op'[t] /\ p = [o EXCEPT !.stale = b]
  <2>1. op'[t] = [o EXCEPT !.stale = b]
    BY <1>0, <1>1, Zenon DEF Outdates
  <2> QED
    BY <1>1, <2>1, Zenon DEF Op
<1>3. /\ p.kind = o.kind /\ p.root = o.root /\ p.nodes = o.nodes /\ p.cur = o.cur
      /\ p.seen = o.seen /\ p.left = o.left /\ Nodes(p) = Nodes(o)
      /\ ~p.stale => ~o.stale /\ o.seen \cap T = {}
  BY <1>0, <1>1, <1>2, Zenon DEF Op, Nodes
<1>4. ASSUME Collecting(t), ~p.stale PROVE Knows(p)'
  <2>1. Knows(o) /\ o.seen \cap T = {}
    BY <1>1, <1>3, <1>4 DEF OpSound
  <2>2. \A h \in o.seen, k \in Tokens : Held(h, k) => Held(h, k)' /\ Children(h, k)' = Children(h, k)
    BY <2>1 DEF Kept, Held, Children, Op
  <2>3. ASSUME NEW i \in 1 .. Len(o.nodes) PROVE o.nodes[i] \in Tasks \X Tokens
    BY <2>3 DEF Op
  <2>4. ASSUME o.kind = "forget"
        PROVE  Nodes(o) \ {o.root} \subseteq Children(o.root[1], o.root[2])'
    <3>1. CASE o.cur = 1
      BY <1>1, <1>4, <3>1 DEF OpSound, Nodes, Range
    <3>2. CASE o.cur # 1
      <4>1. 1 \in 1 .. Len(o.nodes) /\ o.nodes[1] = o.root /\ 1 < o.cur
        BY <1>1, <1>4, <3>2 DEF OpSound, Op
      <4>2. o.root[1] \in o.seen /\ o.root[2] \in Tokens /\ Held(o.root[1], o.root[2])
        BY <2>1, <2>3, <4>1 DEF Knows
      <4> QED
        BY <2>1, <2>2, <2>4, <4>2 DEF Knows
    <3> QED
      BY <3>1, <3>2
  <2> QED
    BY <1>3, <2>1, <2>2, <2>3, <2>4 DEF Knows, Nodes
<1> QED
  BY <1>1, <1>2, <1>3, <1>4 DEF OpSound, Collecting

-----------------------------------------------------------------------------
(* An operation begins, begins again and ends.                             *)

\* The operation t begins, or begins again, with L left to do after it.
Begins(t, kind, h, k, L) == op'[t] = [Begin(kind, h, k) EXCEPT !.left = L]

\* An operation that has visited nothing knows nothing that could be wrong.
LEMMA BeginSound ==
  ASSUME Assumptions, NEW t \in Tasks, NEW kind \in {"revoke", "release", "forget", "doom"},
         NEW h \in Tasks, NEW k \in Tokens, NEW L \in SUBSET Tokens,
         kind # "revoke" => h = t, Begins(t, kind, h, k, L)
  PROVE  /\ op'[t] \in Op /\ OpSound(t)'
         /\ op'[t].kind = kind /\ op'[t].root = <<h, k>> /\ op'[t].left = L
<1>1. PICK o : o = op'[t]
  OBVIOUS
<1>2. o = [kind |-> kind, root |-> <<h, k>>, nodes |-> <<<<h, k>>>>, cur |-> 1, lord |-> None,
           seen |-> {}, stale |-> FALSE, left |-> L]
  BY <1>1, Zenon DEF Begins, Begin, NoOp
<1>3. o \in Op
  BY <1>2 DEF Op
<1>4. Knows(o)'
  BY <1>2 DEF Knows, Nodes, Range
<1> QED
  BY <1>1, <1>2, <1>3, <1>4 DEF OpSound

\* What follows an operation is sound: nothing, the next token of a doom, or
\* the end of the doom once no token is left.
LEMMA AfterSound ==
  ASSUME Assumptions, NEW t \in Tasks, NEW o \in Op, op'[t] \in After(t, o),
         o.kind = "doom" => t \in dead' /\ \A k \in Tokens : Held(t, k)' => k \in o.left
  PROVE  op'[t] \in Op /\ OpSound(t)' /\ DoomSound(t)'
<1>1. CASE o.kind # "doom"
  <2>1. op'[t] = NoOp
    BY <1>1 DEF After
  <2> QED
    BY <2>1 DEF NoOp, Op, OpSound, DoomSound, Collecting
<1>2. CASE o.kind = "doom" /\ o.left = {}
  <2>1. op'[t] = [NoOp EXCEPT !.kind = "gone"]
    BY <1>2 DEF After
  <2>2. op'[t] = [kind |-> "gone", root |-> None, nodes |-> << >>, cur |-> 1, lord |-> None,
                  seen |-> {}, stale |-> FALSE, left |-> {}]
    BY <2>1, Zenon DEF NoOp
  <2>3. op'[t] \in Op /\ op'[t].kind = "gone"
    BY <2>2 DEF Op
  <2> QED
    BY <1>2, <2>3 DEF OpSound, DoomSound, Collecting
<1>3. CASE o.kind = "doom" /\ o.left # {}
  <2>1. o.left \in SUBSET Tokens
    BY DEF Op
  <2>2. PICK m \in o.left : op'[t] = [Begin("doom", t, m) EXCEPT !.left = o.left \ {m}]
    BY <1>3, Zenon DEF After
  <2>3. m \in Tokens /\ Begins(t, "doom", t, m, o.left \ {m})
    BY <2>1, <2>2 DEF Begins
  <2>4. o.left \ {m} \in SUBSET Tokens /\ "doom" \in {"revoke", "release", "forget", "doom"}
    BY <2>1
  <2>5. /\ op'[t] \in Op /\ OpSound(t)'
        /\ op'[t].kind = "doom" /\ op'[t].root = <<t, m>> /\ op'[t].left = o.left \ {m}
    BY <2>3, <2>4, BeginSound
  <2> QED
    BY <1>3, <2>5 DEF DoomSound
<1> QED
  BY <1>1, <1>2, <1>3

\* Every way a failed attempt ends: again, Denied, or Busy; a doom never gives
\* up a token it still holds (cull.rs:343-352).
LEMMA RetrySound ==
  ASSUME Assumptions, TypeOK, NEW t \in Tasks, Collecting(t), OpSound(t), DoomSound(t),
         Retry(t, op[t]), UNCHANGED <<pie, dead>>
  PROVE  op'[t] \in Op /\ OpSound(t)' /\ DoomSound(t)'
<1>1. PICK o \in Op : o = op[t]
  BY DEF TypeOK
<1>2. \E h \in Tasks, k \in Tokens : o.root = <<h, k>>
  BY <1>1 DEF OpSound
<1>3. PICK h \in Tasks, k \in Tokens : o.root = <<h, k>>
  BY <1>2
<1>4. o.kind \in {"revoke", "release", "forget", "doom"} /\ (o.kind # "revoke" => h = t)
  BY <1>1, <1>3 DEF Collecting, OpSound
<1>5. \/ Begins(t, o.kind, h, k, o.left)
      \/ op'[t] \in After(t, o) /\ ~Held(h, k)
      \/ op'[t] = NoOp /\ o.kind # "doom"
  BY <1>1, <1>3 DEF Retry, Put, Again, TypeOK, Begins
<1>6. o.kind = "doom" => /\ t \in dead'
                         /\ \A j \in Tokens : Held(t, j)' => Held(t, j) /\ (j = k \/ j \in o.left)
  BY <1>1, <1>3 DEF DoomSound, Held
<1>7. CASE Begins(t, o.kind, h, k, o.left)
  <2>1. o.left \in SUBSET Tokens
    BY DEF Op
  <2>2. /\ op'[t] \in Op /\ OpSound(t)' /\ op'[t].kind = o.kind
        /\ op'[t].root = <<h, k>> /\ op'[t].left = o.left
    BY <1>4, <1>7, <2>1, BeginSound
  <2> QED
    BY <1>4, <1>6, <2>2 DEF DoomSound
<1>8. CASE op'[t] \in After(t, o) /\ ~Held(h, k)
  <2>1. o.kind = "doom" => t \in dead' /\ \A j \in Tokens : Held(t, j)' => j \in o.left
    BY <1>4, <1>6, <1>8, Zenon
  <2> QED
    BY <1>8, <2>1, AfterSound, Zenon
<1>9. CASE op'[t] = NoOp
  BY <1>9 DEF NoOp, Op, OpSound, DoomSound, Collecting
<1> QED
  BY <1>5, <1>7, <1>8, <1>9

-----------------------------------------------------------------------------
(* What a step does to the tree.                                           *)

\* accord adds one pie, younger than every other, with both relations.
LEMMA AccordTree ==
  ASSUME Assumptions, TreeInv, NEW t \in Tasks, NEW k \in Tokens, NEW u \in Tasks,
         NEW perm \in SUBSET Rights, Accord(t, k, u, perm)
  PROVE  TreeInv' /\ Kept({t, u}) /\ NoGain
<1>0. /\ next \in Tokens /\ next # k /\ pie[next] = None
      /\ pie[k] \in Pie /\ pie[k].holder = t /\ perm # {}
  BY DEF TreeInv, TreeType, Fresh, Held, Accord, AccordIf, Tokens, Assumptions
<1>a. None \notin Tasks /\ None \notin Tokens /\ None \notin Pie /\ None \notin Heir
  BY DEF Assumptions
<1>1. PICK new \in Pie : new = [holder |-> u, sire |-> k, lord |-> t, perm |-> perm, heir |-> None]
  <2>1. perm \in (SUBSET Rights) \ {{}}
    BY <1>0, Zenon
  <2> QED
    BY <2>1, Zenon DEF Pie
<1>2. PICK old \in Pie :
        /\ pie' = [pie EXCEPT ![next] = new, ![k] = old]
        /\ old.holder = t /\ old.sire = pie[k].sire /\ old.lord = pie[k].lord
        /\ old.perm = pie[k].perm
        /\ old.heir = pie[k].heir \/ (Only /\ old.heir = [task |-> u, token |-> next])
  <2>1. pie' = [pie EXCEPT ![next] = new,
                           ![k] = [pie[k] EXCEPT !.heir = IF Only THEN [task |-> u, token |-> next] ELSE @]]
    BY <1>0, <1>1, Zenon DEF TreeInv, TreeType, Accord, AccordIf
  <2>2. PICK old : old = [pie[k] EXCEPT !.heir = IF Only THEN [task |-> u, token |-> next] ELSE @]
    BY Zenon
  <2>3. old \in Pie
    BY <1>0, <2>2 DEF Pie, Heir
  <2>6. pie' = [pie EXCEPT ![next] = new, ![k] = old]
    BY <2>1, <2>2, Zenon
  <2>4. CASE Only
    <3>1. old = [pie[k] EXCEPT !.heir = [task |-> u, token |-> next]]
      BY <2>2, <2>4
    <3> QED
      BY <1>0, <2>1, <2>2, <2>3, <2>4, <3>1, Zenon DEF Pie
  <2>5. CASE ~Only
    <3>1. /\ old.holder = t /\ old.sire = pie[k].sire /\ old.lord = pie[k].lord
          /\ old.perm = pie[k].perm /\ old.heir = pie[k].heir
      BY <1>0, <2>2, <2>5 DEF Pie
    <3> QED
      BY <2>3, <2>6, <3>1, Zenon
  <2> QED
    BY <2>4, <2>5
<1>3. \A c \in Tokens : pie'[c] = IF c = next THEN new ELSE IF c = k THEN old ELSE pie[c]
  BY <1>0, <1>2 DEF TreeInv, TreeType
<1>4. \A s \in Tasks : heirs'[s] = IF s = t THEN heirs[t] \cup {<<k, u, next>>} ELSE heirs[s]
  BY DEF TreeInv, TreeType, Accord, AccordIf
<1>5. TreeType'
  <2>1. pie' \in [Tokens -> Pie \cup {None}]
    BY <1>0, <1>1, <1>2 DEF TreeInv, TreeType
  <2>2. heirs' \in [Tasks -> SUBSET (Tokens \X Tasks \X Tokens)]
    BY <1>0 DEF TreeInv, TreeType, Accord, AccordIf
  <2>3. next' \in 1 .. MaxToken + 1 /\ UNCHANGED <<sealed, dead>>
    BY DEF TreeInv, TreeType, Accord, AccordIf, Assumptions
  <2> QED
    BY <2>1, <2>2, <2>3, Zenon DEF TreeInv, TreeType
<1>6. Fresh' /\ Paired' /\ Older'
  BY <1>0, <1>a, <1>1, <1>2, <1>3 DEF Fresh, Paired, Older, TreeInv, TreeType, Accord, AccordIf, Tokens
<1>7. Marked'
  BY <1>0, <1>1, <1>2, <1>3, <1>4 DEF Marked, TreeInv, TreeType, Pie
<1>8. NoOrphan'
  BY <1>0, <1>a, <1>1, <1>2, <1>3, <1>4 DEF NoOrphan, TreeInv, TreeType, Held, Pie
<1>9. NoGhost'
  BY <1>0, <1>a, <1>1, <1>2, <1>3, <1>4 DEF NoGhost, TreeInv, TreeType, Held
<1>10. Kept({t, u})
  BY <1>0, <1>3, <1>4, Zenon DEF Kept, Held
<1>11. NoGain
  <2>1. u \notin dead
    BY DEF Accord, AccordIf
  <2> QED
    BY <1>0, <1>a, <1>1, <1>2, <1>3, <2>1 DEF NoGain, Held
<1> QED
  BY <1>5, <1>6, <1>7, <1>8, <1>9, <1>10, <1>11 DEF TreeInv

\* reduce changes rights only.
LEMMA ReduceTree ==
  ASSUME Assumptions, TreeInv, NEW t \in Tasks, NEW k \in Tokens,
         NEW perm \in SUBSET Rights, Reduce(t, k, perm)
  PROVE  TreeInv' /\ Kept({t}) /\ NoGain
<1>0. pie[k] \in Pie /\ pie[k].holder = t /\ perm \in (SUBSET Rights) \ {{}}
  <2>1. pie[k] \in Pie /\ pie[k].holder = t
    BY DEF TreeInv, TreeType, Held, Reduce, ReduceTo
  <2>2. perm \in (SUBSET Rights) \ {{}}
    BY Zenon DEF Reduce
  <2> QED
    BY <2>1, <2>2
<1>a. None \notin Pie
  BY DEF Assumptions
<1>1. PICK old \in Pie :
        /\ pie' = [pie EXCEPT ![k] = old]
        /\ old.holder = t /\ old.sire = pie[k].sire
        /\ old.lord = pie[k].lord /\ old.heir = pie[k].heir
  <2>1. PICK old : old = [pie[k] EXCEPT !.perm = perm]
    BY Zenon
  <2>2. old \in Pie /\ old.holder = t /\ old.sire = pie[k].sire
        /\ old.lord = pie[k].lord /\ old.heir = pie[k].heir
    BY <1>0, <2>1 DEF Pie
  <2>3. pie' = [pie EXCEPT ![k] = old]
    BY <2>1 DEF Reduce, ReduceTo
  <2> QED
    BY <2>2, <2>3, Zenon
<1>2. \A c \in Tokens : pie'[c] = IF c = k THEN old ELSE pie[c]
  BY <1>1 DEF TreeInv, TreeType
<1>3. UNCHANGED <<heirs, next, sealed, dead>>
  BY DEF Reduce, ReduceTo
<1>4. TreeType'
  BY <1>1, <1>3, Zenon DEF TreeInv, TreeType
<1>5. Fresh' /\ Paired' /\ Older' /\ Marked'
  BY <1>0, <1>a, <1>1, <1>2, <1>3 DEF Fresh, Paired, Older, Marked, TreeInv
<1>6. NoOrphan' /\ NoGhost'
  BY <1>0, <1>a, <1>1, <1>2, <1>3 DEF NoOrphan, NoGhost, Held, TreeInv, TreeType
<1>7. Kept({t})
  BY <1>0, <1>2, <1>3 DEF Kept, Held
<1>8. NoGain
  BY <1>0, <1>a, <1>1, <1>2, Zenon DEF NoGain, Held
<1> QED
  BY <1>4, <1>5, <1>6, <1>7, <1>8 DEF TreeInv

\* A set of pies that is closed under children is taken out.
LEMMA TakesTree ==
  ASSUME Assumptions, TreeInv, NEW N \in SUBSET (Tasks \X Tokens),
         \A n \in N : Held(n[1], n[2]),
         \A c \in Tokens : pie[c] # None /\ (\E n \in N : n[2] = pie[c].sire) => \E n \in N : n[2] = c,
         Takes(N), UNCHANGED <<next, sealed, dead>>
  PROVE  TreeInv' /\ Kept(Touched(N)) /\ NoGain
<1>1. PICK K \in SUBSET Tokens : K = {n[2] : n \in N}
  BY Zenon
<1>2. \A c \in K : \E n \in N : n[2] = c /\ pie[c] # None /\ pie[c].holder = n[1]
  BY <1>1 DEF Held
<1>3. \A c \in Tokens : pie[c] # None /\ pie[c].sire \in K => c \in K
  BY <1>1
<1>4. /\ pie' = [c \in Tokens |->
                  IF c \in K THEN None
                  ELSE IF pie[c] # None /\ pie[c].heir # None /\ pie[c].heir.token \in K
                       THEN [pie[c] EXCEPT !.heir = None] ELSE pie[c]]
      /\ heirs' = [s \in Tasks |-> {e \in heirs[s] : {e[1], e[3]} \cap K = {}}]
  BY <1>1, Zenon DEF Takes
<1>a. None \notin Tasks /\ None \notin Tokens /\ None \notin Pie
  BY DEF Assumptions
<1>5. \A c \in K : pie'[c] = None
  BY <1>4, Zenon
<1>6. ASSUME NEW c \in Tokens, c \notin K
      PROVE  /\ pie'[c] \in Pie \cup {None} /\ (pie'[c] = None <=> pie[c] = None)
             /\ pie[c] # None =>
                  /\ pie'[c].holder = pie[c].holder /\ pie'[c].sire = pie[c].sire
                  /\ pie'[c].lord = pie[c].lord /\ pie'[c].perm = pie[c].perm
                  /\ pie'[c].heir # None => pie'[c] = pie[c] /\ pie[c].heir.token \notin K
                  /\ pie[c].heir = None \/ pie[c].heir.token \notin K => pie'[c] = pie[c]
  <2>1. CASE pie[c] # None /\ pie[c].heir # None /\ pie[c].heir.token \in K
    <3>1. pie'[c] = [pie[c] EXCEPT !.heir = None] /\ pie[c] \in Pie
      BY <1>4, <1>6, <2>1 DEF TreeInv, TreeType
    <3>2. /\ pie'[c] \in Pie /\ pie'[c].heir = None
          /\ pie'[c].holder = pie[c].holder /\ pie'[c].sire = pie[c].sire
          /\ pie'[c].lord = pie[c].lord /\ pie'[c].perm = pie[c].perm
      BY <3>1, Zenon DEF Pie
    <3> QED
      BY <1>a, <2>1, <3>2
  <2>2. CASE ~(pie[c] # None /\ pie[c].heir # None /\ pie[c].heir.token \in K)
    <3>1. pie'[c] = pie[c] /\ pie[c] \in Pie \cup {None}
      BY <1>4, <1>6, <2>2 DEF TreeInv, TreeType
    <3> QED
      BY <2>2, <3>1
  <2> QED
    BY <2>1, <2>2, Zenon
<1>7. \A s \in Tasks : \A e : e \in heirs'[s] <=> e \in heirs[s] /\ e[1] \notin K /\ e[3] \notin K
  BY <1>4
<1>8. TreeType'
  <2>1. pie' \in [Tokens -> Pie \cup {None}]
    BY <1>4, <1>5, <1>6
  <2>2. heirs' \in [Tasks -> SUBSET (Tokens \X Tasks \X Tokens)]
    BY <1>4, Zenon DEF TreeInv, TreeType
  <2> QED
    BY <2>1, <2>2, Zenon DEF TreeInv, TreeType
<1>9. Fresh' /\ Paired' /\ Older'
  BY <1>5, <1>6 DEF TreeInv, Fresh, Paired, Older
<1>10. Marked'
  BY <1>5, <1>6, <1>7, Zenon DEF TreeInv, TreeType, Marked, Pie
<1>11. NoOrphan'
  BY <1>3, <1>5, <1>6, <1>7 DEF TreeInv, TreeType, NoOrphan, Held, Pie
<1>12. NoGhost'
  BY <1>6, <1>7 DEF TreeInv, TreeType, NoGhost, Held
<1>13. ASSUME NEW h \in Tasks, NEW e \in heirs[h], e[1] \in K \/ e[3] \in K PROVE h \in Touched(N)
  <2>1. /\ e[1] \in Tokens /\ e[3] \in Tokens /\ pie[e[3]] # None /\ pie[e[3]].lord = h
        /\ pie[e[3]].sire = e[1] /\ Held(h, e[1])
    BY <1>a, <1>13 DEF TreeInv, TreeType, NoGhost, NoOrphan, Held
  <2> QED
    BY <1>1, <1>2, <1>a, <1>13, <2>1 DEF Touched, Held
<1>14. Kept(Touched(N))
  <2>1. ASSUME NEW h \in Tasks \ Touched(N) PROVE heirs'[h] = heirs[h]
    BY <1>7, <1>13, <2>1, Zenon
  <2>2. ASSUME NEW h \in Tasks \ Touched(N), NEW k \in Tokens, Held(h, k) PROVE pie'[k] = pie[k]
    <3>1. k \notin K
      BY <1>2, <2>2 DEF Held, Touched
    <3>2. pie[k].heir # None => <<k, pie[k].heir.task, pie[k].heir.token>> \in heirs[h]
      BY <2>2, Zenon DEF TreeInv, Marked, Held
    <3>3. pie[k].heir # None => pie[k].heir.token \notin K
      BY <1>13, <2>2, <3>2, Zenon
    <3> QED
      BY <1>6, <2>2, <3>1, <3>3, Zenon DEF Held
  <2> QED
    BY <2>1, <2>2 DEF Kept
<1>15. NoGain
  BY <1>5, <1>6, Zenon DEF NoGain, Held
<1> QED
  BY <1>8, <1>9, <1>10, <1>11, <1>12, <1>14, <1>15 DEF TreeInv

\* The pie k is taken out and its children, the nodes of M, go to its parent s,
\* which l holds.
Hands(k, l, s, M) ==
  /\ pie' = [c \in Tokens |-> IF c = k THEN None
                              ELSE IF c \in {n[2] : n \in M} /\ pie[c] # None
                              THEN [pie[c] EXCEPT !.sire = s, !.lord = l]
                              ELSE pie[c]]
  /\ heirs' = [[u \in Tasks |-> {e \in heirs[u] : k \notin {e[1], e[3]}}]
                 EXCEPT ![l] = @ \cup {<<s, n[1], n[2]>> : n \in M}]

\* forget takes one pie out and hands its children to its parent, both
\* relations of each included (forget.rs).
LEMMA ForgetTree ==
  ASSUME Assumptions, TreeInv, ~Only, NEW t \in Tasks, NEW k \in Tokens, Held(t, k),
         NEW l \in Tasks, NEW s \in Tokens, pie[k].lord = l, pie[k].sire = s, Held(l, s),
         NEW M, M = Children(t, k), Hands(k, l, s, M),
         UNCHANGED <<next, sealed, dead>>
  PROVE  TreeInv' /\ Kept({n[1] : n \in M} \cup {t, l}) /\ NoGain
<1>a. None \notin Tasks /\ None \notin Tokens /\ None \notin Pie
  BY DEF Assumptions
<1>1. PICK K : K = {n[2] : n \in M}
  BY Zenon
<1>2. \A n \in M : /\ n = <<n[1], n[2]>> /\ n[1] \in Tasks /\ n[2] \in Tokens /\ n[2] \in K
                   /\ Held(n[1], n[2]) /\ pie[n[2]].sire = k /\ pie[n[2]].lord = t
  BY <1>1 DEF Children, TreeInv, TreeType, NoGhost
<1>3. ASSUME NEW c \in Tokens, pie[c] # None, pie[c].sire = k
      PROVE  c \in K /\ <<pie[c].holder, c>> \in M
  <2>1. <<k, pie[c].holder, c>> \in heirs[t]
    BY <1>3, <1>a, Zenon DEF TreeInv, NoOrphan, Held
  <2>2. <<pie[c].holder, c>> \in M
    BY <2>1 DEF Children
  <2> QED
    BY <1>2, <2>2, Zenon
<1>4. \A c \in K : c \in Tokens /\ pie[c] # None /\ pie[c].sire = k /\ <<pie[c].holder, c>> \in M
  BY <1>1, <1>2 DEF Held
<1>5. s < k /\ \A c \in K : k < c /\ c # k
  <2>1. k # None /\ s # None
    BY <1>a
  <2> QED
    <3>1. s < k
      BY <2>1 DEF TreeInv, Older, Held
    <3>2. \A c \in K : k < c
      BY <1>4, <2>1, Zenon DEF TreeInv, Older
    <3> QED
      BY <3>1, <3>2, <1>4 DEF Tokens
<1>6. pie'[k] = None /\ \A c \in Tokens \ K : c # k => pie'[c] = pie[c]
  BY <1>1, Zenon DEF Hands
<1>7. ASSUME NEW c \in K
      PROVE  /\ pie'[c] \in Pie /\ pie'[c].sire = s /\ pie'[c].lord = l
             /\ pie'[c].holder = pie[c].holder /\ pie'[c].heir = pie[c].heir /\ pie'[c].perm = pie[c].perm
  <2>1. pie'[c] = [pie[c] EXCEPT !.sire = s, !.lord = l] /\ pie[c] \in Pie
    BY <1>1, <1>4, <1>5, <1>7, Zenon DEF TreeInv, TreeType, Hands
  <2> QED
    BY <2>1, Zenon DEF Pie
<1>8. \A u \in Tasks : \A e : e \in heirs'[u] <=>
          \/ e \in heirs[u] /\ e[1] # k /\ e[3] # k
          \/ u = l /\ \E n \in M : e = <<s, n[1], n[2]>>
  BY Zenon DEF Hands
<1>9. TreeType'
  <2>1. pie' \in [Tokens -> Pie \cup {None}]
    BY <1>6, <1>7, Zenon DEF TreeInv, TreeType, Hands
  <2>2. {<<s, n[1], n[2]>> : n \in M} \subseteq Tokens \X Tasks \X Tokens
    BY <1>2
  <2>3. heirs' \in [Tasks -> SUBSET (Tokens \X Tasks \X Tokens)]
    BY <2>2, Zenon DEF TreeInv, TreeType, Hands
  <2> QED
    BY <2>1, <2>3 DEF TreeInv, TreeType
<1>10. Fresh' /\ Paired' /\ Older'
  <2>1. Fresh'
    BY <1>4, <1>6, Zenon DEF TreeInv, Fresh
  <2>2. Paired'
    BY <1>6, <1>7, <1>a, Zenon DEF TreeInv, Paired
  <2>3. ASSUME NEW c \in Tokens, pie'[c] # None, pie'[c].sire # None PROVE pie'[c].sire < c
    <3>1. CASE c \in K
      BY <1>5, <1>7, <3>1 DEF Tokens
    <3>2. CASE c \notin K
      BY <1>6, <2>3, <3>2 DEF TreeInv, Older
    <3> QED
      BY <3>1, <3>2, Zenon
  <2> QED
    BY <2>1, <2>2, <2>3, Zenon DEF Older
<1>11. Marked'
  BY <1>4, <1>6, <1>7, Zenon DEF TreeInv, Marked
<1>12. NoOrphan'
  <2>1. ASSUME NEW h \in Tasks, NEW c \in Tokens, c # k, Held(h, c) PROVE Held(h, c)'
    BY <1>6, <1>7, <1>a, <2>1, Zenon DEF Held
  <2>2. ASSUME NEW c \in K
        PROVE  (Held(pie[c].lord, pie[c].sire) /\ <<pie[c].sire, pie[c].holder, c>> \in heirs[pie[c].lord])'
    <3>1. Held(l, s)'
      BY <1>5, <2>1 DEF Tokens
    <3>2. <<s, pie[c].holder, c>> \in heirs'[l]
      BY <1>4, <1>8, <2>2, Zenon
    <3> QED
      BY <1>7, <2>2, <3>1, <3>2, Zenon DEF Held
  <2>3. ASSUME NEW c \in Tokens \ K, pie'[c] # None, pie'[c].sire # None
        PROVE  (Held(pie[c].lord, pie[c].sire) /\ <<pie[c].sire, pie[c].holder, c>> \in heirs[pie[c].lord])'
    <3>1. c # k /\ pie'[c] = pie[c] /\ pie[c] \in Pie /\ pie[c].sire # k
      BY <1>3, <1>6, <2>3, Zenon DEF TreeInv, TreeType
    <3>2. /\ Held(pie[c].lord, pie[c].sire) /\ pie[c].lord \in Tasks /\ pie[c].sire \in Tokens
          /\ <<pie[c].sire, pie[c].holder, c>> \in heirs[pie[c].lord]
      BY <2>3, <3>1, Zenon DEF TreeInv, NoOrphan, Held, Pie, Paired
    <3>3. PICK h \in Tasks, d \in Tokens : h = pie[c].lord /\ d = pie[c].sire
      BY <3>2, Zenon
    <3>4. Held(h, d)' /\ <<d, pie[c].holder, c>> \in heirs'[h]
      BY <1>8, <2>1, <3>1, <3>2, <3>3, Zenon
    <3> QED
      BY <3>1, <3>3, <3>4 DEF Held
  <2> QED
    BY <2>2, <2>3, Zenon DEF NoOrphan
<1>13. NoGhost'
  <2>1. ASSUME NEW u \in Tasks, NEW e \in heirs[u], e[1] # k, e[3] # k
        PROVE  Held(e[2], e[3])' /\ pie'[e[3]].sire = e[1] /\ pie'[e[3]].lord = u
    <3>1. /\ e[3] \in Tokens /\ pie[e[3]] # None /\ pie[e[3]].holder = e[2]
          /\ pie[e[3]].sire = e[1] /\ pie[e[3]].lord = u
      BY <2>1 DEF TreeInv, NoGhost, Held
    <3>2. pie'[e[3]] = pie[e[3]]
      BY <1>4, <1>6, <2>1, <3>1, Zenon
    <3> QED
      BY <3>1, <3>2, Zenon DEF Held
  <2>2. ASSUME NEW n \in M
        PROVE  Held(n[1], n[2])' /\ pie'[n[2]].sire = s /\ pie'[n[2]].lord = l
    BY <1>2, <1>7, <1>a, <2>2, Zenon DEF Held
  <2> QED
    BY <1>8, <2>1, <2>2 DEF NoGhost
<1>14. Kept({n[1] : n \in M} \cup {t, l})
  <2>1. ASSUME NEW h \in Tasks, h # t, h # l PROVE heirs'[h] = heirs[h]
    <3>1. ASSUME NEW e \in heirs[h] PROVE e[1] # k /\ e[3] # k
      <4>1. pie[e[3]] # None /\ e[3] \in Tokens /\ pie[e[3]].sire = e[1] /\ pie[e[3]].lord = h
        BY <2>1, <3>1, Zenon DEF TreeInv, NoGhost, Held
      <4>2. e[1] # None
        BY <1>a, <2>1, <3>1 DEF TreeInv, TreeType
      <4> QED
        <5>1. Held(h, e[1])
          BY <4>1, <4>2, Zenon DEF TreeInv, NoOrphan
        <5> QED
          BY <2>1, <4>1, <5>1 DEF Held
    <3> QED
      BY <1>8, <2>1, <3>1, Zenon
  <2>2. ASSUME NEW h \in Tasks, h # t, \A n \in M : n[1] # h, NEW c \in Tokens, Held(h, c)
        PROVE  pie'[c] = pie[c]
    BY <1>4, <1>6, <2>2, Zenon DEF Held
  <2> QED
    BY <2>1, <2>2 DEF Kept
<1>15. NoGain
  BY <1>4, <1>6, <1>7, Zenon DEF NoGain, Held
<1> QED
  BY <1>9, <1>10, <1>11, <1>12, <1>13, <1>14, <1>15, Zenon DEF TreeInv

=============================================================================
