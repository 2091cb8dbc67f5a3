-------------------------------- MODULE Pend --------------------------------
(***************************************************************************)
(* The pies (capabilities) of one resource: a tree that spans the ledgers  *)
(* of several tasks (pend).  accord adds a child, cull removes a subtree,  *)
(* forget takes a node out and hands its children to its parent.           *)
(*                                                                         *)
(* cull and forget first collect the nodes they touch, one ledger at a     *)
(* time, and then lock all ledgers at once and check that none changed     *)
(* since (with_tasks).  A ledger's version number is modelled by what it   *)
(* is compared for: whether a ledger changed after an operation saw it.    *)
(***************************************************************************)
EXTENDS Integers, Sequences, Functions

CONSTANTS Tasks,
          Root,      \* the task that created the resource and holds its first pie
          Rights,    \* the permissions other than ONLY
          Vest,      \* the permission to accord
          Only,      \* whether the resource's pies carry ONLY
          MaxToken,  \* bound: pies ever made
          None

Tokens == 1 .. MaxToken

Heir == [task : Tasks, token : Tokens]

Pie == [holder : Tasks, sire : Tokens \cup {None}, lord : Tasks \cup {None},
        perm : (SUBSET Rights) \ {{}}, heir : Heir \cup {None}]

\* What the constants of an instance satisfy.
Assumptions ==
    /\ Root \in Tasks
    /\ Vest \in Rights /\ Only \in BOOLEAN /\ MaxToken \in Nat \ {0}
    /\ None \notin Tasks \cup Tokens \cup Heir \cup Pie

VARIABLES pie,     \* token -> the pie in its holder's ledger, or None
          heirs,   \* task -> <<parent token, child's holder, child token>>
          next,    \* the next token
          sealed,  \* the resource is sealed
          dead,    \* tasks that are dying or gone
          op       \* task -> the cull or forget it is in

vars == <<pie, heirs, next, sealed, dead, op>>

Held(t, k) == k \in Tokens /\ pie[k] # None /\ pie[k].holder = t

NoOp == [kind |-> "none", root |-> None, nodes |-> << >>, cur |-> 1, lord |-> None,
         seen |-> {}, stale |-> FALSE, left |-> {}]

Init ==
    /\ pie = [k \in Tokens |-> IF k = 1 THEN [holder |-> Root, sire |-> None, lord |-> None,
                                               perm |-> Rights, heir |-> None]
                               ELSE None]
    /\ heirs = [t \in Tasks |-> {}]
    /\ next = 2
    /\ sealed = FALSE
    /\ dead = {}
    /\ op = [t \in Tasks |-> NoOp]

\* changed of the ledgers of T: whoever saw one of them will find out.
Outdate(T, o) == [t \in Tasks |-> [o[t] EXCEPT !.stale = @ \/ o[t].seen \cap T # {}]]

Running(t) == t \notin dead /\ op[t].kind = "none"

----------------------------------------------------------------------------
(* Granting and narrowing *)

\* publish with the conditions left to ok.
AccordIf(t, k, u, perm, ok) ==
    /\ Running(t) /\ Held(t, k) /\ ~sealed
    /\ Vest \in pie[k].perm /\ perm # {} /\ ok
    /\ next <= MaxToken
    /\ next' = next + 1
    /\ pie' = [pie EXCEPT ![next] = [holder |-> u, sire |-> k, lord |-> t, perm |-> perm, heir |-> None],
                          ![k].heir = IF Only THEN [task |-> u, token |-> next] ELSE @]
    /\ heirs' = [heirs EXCEPT ![t] = @ \cup {<<k, u, next>>}]
    /\ op' = Outdate({t, u}, op)
    /\ UNCHANGED <<sealed, dead>>

Narrows(from, to) == to \subseteq from

\* As if the granter need not hold what it grants.
AccordWide(t, k, u, perm) == AccordIf(t, k, u, perm, pie[k].heir = None /\ u \notin dead)

\* accord and derive (publish), under both ledgers' locks.
Accord(t, k, u, perm) ==
    AccordIf(t, k, u, perm, Narrows(pie[k].perm, perm) /\ pie[k].heir = None /\ u \notin dead)

ReduceTo(t, k, perm) ==
    /\ Running(t) /\ Held(t, k) /\ ~sealed
    /\ Narrows(pie[k].perm, perm) /\ perm # pie[k].perm
    /\ pie' = [pie EXCEPT ![k].perm = perm]
    /\ op' = Outdate({t}, op)
    /\ UNCHANGED <<heirs, next, sealed, dead>>

\* reduce
Reduce(t, k, perm) == perm # {} /\ ReduceTo(t, k, perm)

\* seal_resource: by the owner alone.
Seal(t) ==
    /\ Running(t) /\ t = Root /\ ~sealed /\ \E k \in Tokens : Held(t, k)
    /\ sealed' = TRUE
    /\ UNCHANGED <<pie, heirs, next, dead, op>>

----------------------------------------------------------------------------
(* Collecting *)

Begin(kind, h, k) == [NoOp EXCEPT !.kind = kind, !.root = <<h, k>>, !.nodes = <<<<h, k>>>>]

\* A retry starts over with the same root.
Again(o) == [Begin(o.kind, o.root[1], o.root[2]) EXCEPT !.left = o.left]

\* What follows an operation that is over: doom goes on to the next pie of its
\* list, which is in the order the pies came.
After(t, o) ==
    IF o.kind # "doom" THEN {NoOp}
    ELSE IF o.left = {} THEN {[NoOp EXCEPT !.kind = "gone"]}
    ELSE {[Begin("doom", t, k) EXCEPT !.left = o.left \ {k}] :
              k \in {m \in o.left : \A n \in o.left : m <= n}}

Put(t, o) == op' = [op EXCEPT ![t] = o]

\* Busy: start over while the root is there, up to RETRIES times; doom never
\* gives up.
Retry(t, o) ==
    \/ Held(o.root[1], o.root[2]) /\ Put(t, Again(o))
    \/ ~Held(o.root[1], o.root[2]) /\ \E n \in After(t, o) : Put(t, n)
    \/ o.kind # "doom" /\ Put(t, NoOp)

\* No parent, no children: release takes such a pie at once (reap).
Lone(t, k) == pie[k].sire = None /\ pie[k].heir = None /\ ~\E e \in heirs[t] : e[1] = k

Children(h, k) == {<<e[2], e[3]>> : e \in {x \in heirs[h] : x[1] = k}}

\* The orders in which a ledger's list can hold them.
Listings(S) == UNION {Bijection(1 .. n, S) : n \in 0 .. MaxToken}

Revoke(t, u, k) ==
    /\ Running(t) /\ Held(u, k)
    /\ Put(t, Begin("revoke", u, k))
    /\ UNCHANGED <<pie, heirs, next, sealed, dead>>

Release(t, k) ==
    /\ Running(t) /\ Held(t, k) /\ ~Lone(t, k)
    /\ Put(t, Begin("release", t, k))
    /\ UNCHANGED <<pie, heirs, next, sealed, dead>>

Forget(t, k) ==
    /\ Running(t) /\ Held(t, k)
    /\ Put(t, Begin("forget", t, k))
    /\ UNCHANGED <<pie, heirs, next, sealed, dead>>

\* The task's death, as seen by live.
Die(t) ==
    /\ Running(t)
    /\ dead' = dead \cup {t}
    /\ UNCHANGED <<pie, heirs, next, sealed, op>>

\* doom: what the dead task still holds is listed, and sealed if it is its own.
Doom(t) ==
    /\ t \in dead /\ op[t].kind = "none"
    /\ LET held == {k \in Tokens : Held(t, k)}
           o == Outdate({t}, op)
       IN  /\ \E n \in After(t, [NoOp EXCEPT !.kind = "doom", !.left = held]) : op' = [o EXCEPT ![t] = n]
           /\ sealed' = (sealed \/ (t = Root /\ held # {}))
    /\ UNCHANGED <<pie, heirs, next, dead>>

Collecting(t) == op[t].kind \in {"revoke", "release", "forget", "doom"}

\* collect, one node: its ledger is seen, its children join the list.
Visit(t) ==
    /\ Collecting(t) /\ op[t].cur <= Len(op[t].nodes) /\ op[t].lord = None
    /\ LET o == op[t]
           h == o.nodes[o.cur][1]
           k == o.nodes[o.cur][2]
           deeper == o.cur = 1 \/ o.kind # "forget"
       IN  IF Held(h, k)
           THEN \E found \in Listings(Children(h, k)) :
                  Put(t, [o EXCEPT !.cur = @ + 1, !.seen = @ \cup {h},
                                   !.nodes = IF deeper THEN @ \o found ELSE @,
                                   !.lord = IF o.cur = 1 THEN pie[k].lord ELSE None])
           ELSE Retry(t, o)
    /\ UNCHANGED <<pie, heirs, next, sealed, dead>>

\* collect, the ledger of the root's lord; cull, that of the caller.
Look(t) ==
    /\ Collecting(t)
    /\ LET o == op[t] IN
       \/ o.lord # None /\ Put(t, [o EXCEPT !.lord = None, !.seen = @ \cup {o.lord}])
       \/ /\ o.kind = "revoke" /\ o.lord = None /\ o.cur > Len(o.nodes) /\ t \notin o.seen
          /\ Put(t, [o EXCEPT !.seen = @ \cup {t}])
    /\ UNCHANGED <<pie, heirs, next, sealed, dead>>

Collected(t) ==
    /\ Collecting(t) /\ op[t].lord = None /\ op[t].cur > Len(op[t].nodes)
    /\ op[t].kind = "revoke" => t \in op[t].seen

----------------------------------------------------------------------------
(* Committing *)

\* relations_match: the collected nodes still are the whole subtree.
Nodes(o) == Range(o.nodes)
RelationsMatch(o) ==
    \A n \in Nodes(o) :
        /\ Held(n[1], n[2]) /\ Children(n[1], n[2]) \subseteq Nodes(o) \ {o.root}
        /\ LET p == pie[n[2]] IN
           /\ p.sire # None => <<p.sire, n[1], n[2]>> \in heirs[p.lord]
           /\ IF n = o.root THEN p.sire # None => p.lord \in o.seen
              ELSE p.sire # None /\ <<p.lord, p.sire>> \in Nodes(o)

\* take of every node of N: each leaves its ledger, its lord's list and its
\* lord's heir mark.
Takes(N) ==
    LET ks == {n[2] : n \in N} IN
    /\ pie' = [k \in Tokens |->
                  IF k \in ks THEN None
                  ELSE IF pie[k] # None /\ pie[k].heir # None /\ pie[k].heir.token \in ks
                       THEN [pie[k] EXCEPT !.heir = None] ELSE pie[k]]
    /\ heirs' = [t \in Tasks |-> {e \in heirs[t] : {e[1], e[3]} \cap ks = {}}]

Touched(N) == {n[1] : n \in N} \cup ({pie[n[2]].lord : n \in N} \ {None})

\* reap of a release.
Reap(t, k) ==
    /\ Running(t) /\ Held(t, k) /\ Lone(t, k)
    /\ Takes({<<t, k>>})
    /\ op' = Outdate({t}, op)
    /\ UNCHANGED <<next, sealed, dead>>

\* revoke is for the lord of the pie alone.
Entitled(t, o) ==
    o.kind = "revoke" => /\ pie[o.root[2]].lord = t
                         /\ Held(t, pie[o.root[2]].sire)

\* As if nothing a ledger held could have changed meanwhile.
CurrentBlind(o) == o = o
\* with_tasks_checked: no ledger of the collected tasks has changed since.
Current(o) == ~o.stale

\* cull with every ledger locked: the versions hold, or else the relations do.
Cull(t) ==
    /\ Collected(t) /\ op[t].kind # "forget"
    /\ LET o == op[t] IN
       IF ~Current(o) /\ ~RelationsMatch(o)
       THEN Retry(t, o) /\ UNCHANGED <<pie, heirs>>
       ELSE IF ~Held(o.root[1], o.root[2]) \/ ~Entitled(t, o)
       THEN (\E n \in After(t, o) : Put(t, n)) /\ UNCHANGED <<pie, heirs>>
       ELSE LET N == {n \in Nodes(o) : Held(n[1], n[2])} IN
            /\ Takes(N)
            /\ \E n \in After(t, o) : op' = [Outdate(Touched(N), op) EXCEPT ![t] = n]
    /\ UNCHANGED <<next, sealed, dead>>

\* forget with every ledger locked and unchanged.
ForgetEnd(t) ==
    /\ Collected(t) /\ op[t].kind = "forget"
    /\ LET o == op[t]
           k == o.root[2]
           p == pie[k]
           kids == {n[2] : n \in Nodes(o) \ {o.root}}
       IN  IF ~Current(o)
           THEN Retry(t, o) /\ UNCHANGED <<pie, heirs>>
           ELSE IF \/ ~Held(t, k) \/ Only \/ p.sire = None \/ ~Held(p.lord, p.sire) \/ p.lord \in dead
                   \/ ~sealed /\ \E c \in kids : pie[c] = None \/ ~(pie[c].perm \subseteq pie[p.sire].perm)
           THEN Put(t, NoOp) /\ UNCHANGED <<pie, heirs>>
           ELSE /\ pie' = [c \in Tokens |-> IF c = k THEN None
                                            ELSE IF c \in kids /\ pie[c] # None
                                            THEN [pie[c] EXCEPT !.sire = p.sire, !.lord = p.lord]
                                            ELSE pie[c]]
                /\ heirs' = LET kept == [u \in Tasks |-> {e \in heirs[u] : k \notin {e[1], e[3]}}]
                            IN  [kept EXCEPT ![p.lord] = @ \cup {<<p.sire, n[1], n[2]>> : n \in Nodes(o) \ {o.root}}]
                /\ op' = [Outdate({n[1] : n \in Nodes(o)} \cup {p.lord}, op) EXCEPT ![t] = NoOp]
    /\ UNCHANGED <<next, sealed, dead>>

----------------------------------------------------------------------------
Next ==
    \E t \in Tasks :
        \/ \E k \in Tokens, u \in Tasks : Revoke(t, u, k)
        \/ \E k \in Tokens, u \in Tasks, perm \in SUBSET Rights : Accord(t, k, u, perm)
        \/ \E k \in Tokens, perm \in SUBSET Rights : Reduce(t, k, perm)
        \/ \E k \in Tokens : Release(t, k) \/ Reap(t, k) \/ Forget(t, k)
        \/ Seal(t) \/ Die(t) \/ Doom(t) \/ Visit(t) \/ Look(t) \/ Cull(t) \/ ForgetEnd(t)

Spec == Init /\ [][Next]_vars

----------------------------------------------------------------------------
(* Properties *)

Op == [kind : {"none", "revoke", "release", "forget", "doom", "gone"},
       root : (Tasks \X Tokens) \cup {None}, nodes : Seq(Tasks \X Tokens), cur : Nat \ {0},
       lord : Tasks \cup {None}, seen : SUBSET Tasks, stale : BOOLEAN, left : SUBSET Tokens]

\* Every variable keeps its type: in particular no pie is without a right.
TypeOK ==
    /\ pie \in [Tokens -> Pie \cup {None}]
    /\ heirs \in [Tasks -> SUBSET (Tokens \X Tasks \X Tokens)]
    /\ next \in 1 .. MaxToken + 1 /\ sealed \in BOOLEAN /\ dead \subseteq Tasks
    /\ op \in [Tasks -> Op]

\* No orphan: a granted pie's lord still holds the pie it was granted from and
\* lists the child, so that a revoke of any ancestor reaches it, however culls,
\* grants and forgets of other tasks interleave with the collecting.
NoOrphan ==
    \A c \in Tokens : pie[c] # None /\ pie[c].sire # None =>
        /\ Held(pie[c].lord, pie[c].sire)
        /\ <<pie[c].sire, pie[c].holder, c>> \in heirs[pie[c].lord]

\* No list names a pie that is gone or has another parent: such an entry makes
\* every later cull of the parent fail as Busy.
NoGhost ==
    \A t \in Tasks : \A e \in heirs[t] :
        Held(e[2], e[3]) /\ pie[e[3]].sire = e[1] /\ pie[e[3]].lord = t

\* The pie of an ONLY resource is handed over, never shared: one pie at most is
\* without an heir.
OneHolder ==
    Only => \A j, k \in Tokens :
                pie[j] # None /\ pie[j].heir = None /\ pie[k] # None /\ pie[k].heir = None => j = k

\* A task whose cleanup is over holds nothing, and can be granted nothing.
DoomComplete == \A t \in Tasks : op[t].kind = "gone" => ~\E k \in Tokens : Held(t, k)

\* Rights never grow, from one owner of a token to the next and from a parent to
\* the children a forget hands to it.
NoAmplifyStep ==
    \A k \in Tokens : pie'[k] # None =>
        /\ pie[k] # None => pie'[k].perm \subseteq pie[k].perm
        /\ ~sealed /\ pie'[k].sire # None /\ (pie[k] = None \/ pie[k].sire # pie'[k].sire)
              => pie'[k].perm \subseteq pie'[pie'[k].sire].perm
=============================================================================
