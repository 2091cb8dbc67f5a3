-------------------------------- MODULE Pole --------------------------------
(***************************************************************************)
(* Memory a task names by reference: the record of a source (who may use   *)
(* it, what is mapped, lent out or kept), the Poles made from it, and the  *)
(* memory calls that race on them.  A source is private until Unseal makes *)
(* it a Pole; a part of a Pole's pages can become a Pole of its own, which *)
(* takes a slot in the parent until nothing of it is left.                 *)
(*                                                                         *)
(* A task makes one call at a time.  A step is what a call does under one  *)
(* lock: the commit lock of all tasks, the gate of a source, its list of   *)
(* maps; the lease PoleOperation is tried, never waited for.  Pages are    *)
(* numbered from the start of the first source.  Left out: delivery to a   *)
(* team under construction, rights and ONLY (module Pend), the parts of a  *)
(* view (module Nest), a page's move (module Transfer).                    *)
(***************************************************************************)
EXTENDS Integers, FiniteSets, Sequences, FiniteSetsExt, SequencesExt

CONSTANTS Tasks, Owner,      \* the task that allocates
          Space,             \* Space[t]: the address space of t's team
          Mortal,            \* tasks that may die
          Keepers,           \* tasks with the right to keep frames (retention)
          Pages, Windows,    \* the windows tasks ask for
          MaxSource, MaxToken, MaxHold, MaxView,
          Failures,          \* how often an invalidation is not confirmed
          Ops                \* the calls tasks make

VARIABLES source,   \* source[s]: SourceAuthorization and its PoleMeta
          pie,      \* pie[k]: a Pie, "held" or "taken" by a cleanup, or None
          hold,     \* hold[h]: a reference, or None
          view,     \* view[v]: a relation of a space, or None
          job,      \* job[t]: the call t is in
          dead,     \* tasks that die or died
          closed,   \* sources whose Seal returned Ok
          minted,   \* identities used so far, never used again
          faults

poleVars == <<source, pie, hold, view, job, dead, closed, minted, faults>>

None == [none |-> TRUE]
Nobody == "nobody"
Sources == 1 .. MaxSource
Tokens == 1 .. MaxToken
Holds == 1 .. MaxHold
Views == 1 .. MaxView
Idle == [at |-> "idle"]

Assumptions ==
    /\ Owner \in Tasks /\ Mortal \subseteq Tasks /\ Keepers \subseteq Tasks
    /\ Windows \subseteq (SUBSET Pages \ {{}}) /\ Pages \in Windows
    /\ {MaxSource, MaxToken, MaxHold, MaxView, Failures} \subseteq Nat

\* ---- the world and the operations on it -----------------------------------
\* w = [source, pie, hold, view]: operations are written as functions on it, for
\* one step may do several.

World == [source |-> source, pie |-> pie, hold |-> hold, view |-> view]
Become(w) == source' = w.source /\ pie' = w.pie /\ hold' = w.hold /\ view' = w.view

Put(w, s, field, x) == [w EXCEPT !.source[s][field] = x]
HeldIn(w, k) == k \in Tokens /\ w.pie[k] # None /\ w.pie[k].state = "held"
PiesOf(w, s) == {k \in Tokens : w.pie[k] # None /\ w.pie[k].src = s}

\* SourceAuthorization::new and ::derived with PoleMeta::new
NewSource(owner, pages, parent, root) ==
    [owner |-> owner, pages |-> pages, parent |-> parent, root |-> root,
     live |-> TRUE, gate |-> FALSE, claim |-> IF root = 0 THEN "open" ELSE "used",
     operating |-> Nobody, inflight |-> {}, bindings |-> {}, slots |-> {}, retained |-> {},
     maps |-> {}]

Private(w, s) == w.source[s].root = 0

\* PoleMeta::authorizing, SourceAuthorization::holds_authority
HoldsAuthority(w, s) ==
    \/ Private(w, s)
    \/ w.source[s].live /\ \E k \in PiesOf(w, s) : HeldIn(w, k)

\* finished: nothing is left of the source (references without frames do not count)
Finished(w, s) ==
    /\ w.source[s].bindings = {} /\ w.source[s].slots = {}
    /\ w.source[s].retained = {} /\ w.source[s].inflight = {}
    /\ ~HoldsAuthority(w, s)

\* Whether the record still exists: pies, references, registered views, a call at work
\* or the record of a child (Lineage) keep it.  A slot does not (Weak).
RECURSIVE Reachable(_, _)
Reachable(w, s) ==
    \/ PiesOf(w, s) # {}
    \/ \E h \in Holds : w.hold[h] # None /\ w.hold[h].src = s
    \/ \E v \in w.source[s].bindings : w.view[v].entry # "none"
    \/ w.source[s].operating # Nobody
    \/ \E c \in Sources : /\ w.source[c] # None /\ w.source[c].parent = s
                          /\ Reachable(w, c)

\* settle: a finished source gives its slot back, and so on upwards.
RECURSIVE Settle(_, _)
Settle(w, s) ==
    LET up == w.source[s].parent
    IN  IF ~Finished(w, s) \/ up = 0 THEN w
        ELSE Settle(Put(w, up, "slots", w.source[up].slots \ {s}), up)

\* reap_derivations: slots of children that are provably finished
ReapDerivations(w, s) ==
    Put(w, s, "slots",
        {c \in w.source[s].slots : ~(Reachable(w, c) /\ Finished(w, c))})

\* check_use, check_publish: nobody else has the window; own is the caller's own
\* reference, whose frames do not stand in its way.
Usable(w, s, pages) ==
    \A c \in ReapDerivations(w, s).source[s].slots : w.source[c].pages \cap pages = {}

Publishable(w, s, pages, own) ==
    /\ Usable(w, s, pages)
    /\ \A h \in w.source[s].retained \ {own} : w.hold[h].pages \cap pages = {}
    /\ \A f \in w.source[s].inflight : f.pages \cap pages = {}

\* branch_permits: the Pole lives and the branch's grant answers
BranchPermits(w, s, k) == Private(w, s) \/ (w.source[s].live /\ HeldIn(w, k))

\* Space::settle, retire_view: once the relation is settled, the registry's entry and
\* the source's member go together, under the commit lock.
RetireView(w, v) ==
    LET s == w.view[v].src
    IN  IF w.view[v].nest # "settled" \/ w.view[v].entry = "none" THEN w
        ELSE LET x == [Put(w, s, "bindings", w.source[s].bindings \ {v})
                         EXCEPT !.view[v].entry = "none"]
             IN  IF x.source[s].bindings = {} THEN Settle(x, s) ELSE x

Retire(w, v) == RetireView(w, v)

RetireAll(w, vs) == FoldSet(LAMBDA v, x : Retire(x, v), w, vs)

\* Nest::retry_invalidation and Space::reap_views, when every invalidation is confirmed
ReapViews(w, space) ==
    LET here == {v \in Views : w.view[v] # None /\ w.view[v].space = space}
        x == [w EXCEPT !.view = [v \in Views |->
                IF v \in here /\ w.view[v].nest = "owed"
                THEN [w.view[v] EXCEPT !.nest = "settled"] ELSE w.view[v]]]
    IN  RetireAll(x, here)

\* Space::withdraw and dispose (Nest::detach, Nest::dispose): the pages are unmapped;
\* when the shootdown is not confirmed the Nest owes the rest.
Pull(w, v, ok) ==
    IF w.view[v].nest # "mapped" THEN w
    ELSE [w EXCEPT !.view[v].nest = IF ok THEN "settled" ELSE "owed"]

\* leave_publish: the call is no longer in flight at this source
LeavePublish(w, t, s) ==
    LET x == Put(w, s, "inflight", {f \in w.source[s].inflight : f.by # t})
    IN  IF x.source[s].inflight = {} THEN Settle(x, s) ELSE x

\* Drop for PoleMeta: without pies and leases the Pole goes, and closes its maps.
DropMeta(w, s) ==
    IF Private(w, s) \/ PiesOf(w, s) # {} \/ w.source[s].operating # Nobody THEN w
    ELSE LET vs == {m.view : m \in w.source[s].maps}
             x == Put(Put(w, s, "live", FALSE), s, "maps", {})
         IN  FoldSet(LAMBDA v, y : Retire(Pull(y, v, TRUE), v), x, vs)

\* PoleOperation::acquire and its Drop
Lease(w, t, s) == IF Private(w, s) THEN w ELSE Put(w, s, "operating", t)
Unlease(w, t, s) ==
    IF w.source[s].operating = t THEN DropMeta(Put(w, s, "operating", Nobody), s) ELSE w
Leasable(w, s) == Private(w, s) \/ w.source[s].operating = Nobody

\* ---- calls ----------------------------------------------------------------

Ready(t, op) == op \in Ops /\ job[t].at = "idle" /\ t \notin dead
Go(t, j) == job' = [job EXCEPT ![t] = j]
Return(t) == Go(t, Idle)
Same == UNCHANGED <<dead, closed, minted, faults>>
Mint(what) == minted' = [minted EXCEPT ![what] = @ + 1]

Init ==
    /\ source = [s \in Sources |-> None] /\ pie = [k \in Tokens |-> None]
    /\ hold = [h \in Holds |-> None] /\ view = [v \in Views |-> None]
    /\ job = [t \in Tasks |-> Idle] /\ dead = {} /\ closed = {}
    /\ minted = [source |-> 0, pie |-> 0, hold |-> 0, view |-> 0] /\ faults = 0

\* HoldTable::insert
AddHold(w, t, s, pages, branch, keep) ==
    LET h == minted.hold + 1
        x == [w EXCEPT !.hold[h] = [task |-> t, src |-> s, pages |-> pages,
                                    branch |-> branch, keeps |-> keep]]
    IN  IF keep THEN Put(x, s, "retained", x.source[s].retained \cup {h}) ELSE x

\* acquire of an Allocation: a new private source and a reference to all of it
AcquireAllocation(t) ==
    /\ Ready(t, "acquire") /\ t = Owner /\ minted.source = 0 /\ minted.hold < MaxHold
    /\ Become(AddHold([World EXCEPT !.source[1] = NewSource(t, Pages, 0, 0)],
                      t, 1, Pages, 0, FALSE))
    /\ minted' = [minted EXCEPT !.source = 1, !.hold = @ + 1]
    /\ UNCHANGED <<job, dead, closed, faults>>

\* Hold::resolve: frames that are kept are there; others ask the branch or the source
Resolves(h) ==
    \/ hold[h].keeps
    \/ hold[h].branch # 0 /\ HeldIn(World, hold[h].branch) /\ source[hold[h].src].live
    \/ /\ hold[h].branch = 0
       /\ Private(World, hold[h].src) \/ HeldIn(World, source[hold[h].src].root)

\* acquire of part of a reference, through a pie, or of what a view shows: the branch is
\* the one the reference, the pie or the view has
Acquirable(t, s, pages, k) ==
    \/ \E h \in Holds :
          /\ hold[h] # None /\ hold[h].task = t /\ hold[h].src = s /\ hold[h].branch = k
          /\ Resolves(h) /\ pages \subseteq hold[h].pages
    \/ /\ k # 0 /\ HeldIn(World, k) /\ pie[k].task = t /\ pie[k].src = s
       /\ source[s].live /\ pages \subseteq pie[k].pages
    \/ \E v \in Views :
          /\ view[v] # None /\ view[v].space = Space[t] /\ view[v].src = s
          /\ view[v].entry = "committed" /\ view[v].nest = "mapped"
          /\ pages \subseteq view[v].pages
          /\ IF Private(World, s) THEN k = 0
             ELSE HeldIn(World, k) /\ \E m \in source[s].maps : m.view = v /\ m.token = k

Acquire(t, s, pages, k, keep) ==
    /\ Ready(t, "acquire") /\ minted.hold < MaxHold /\ source[s] # None
    /\ Acquirable(t, s, pages, k) /\ Usable(World, s, pages)
    /\ keep => t \in Keepers
    /\ Become(AddHold(ReapDerivations(World, s), t, s, pages, k, keep))
    /\ Mint("hold") /\ UNCHANGED <<job, dead, closed, faults>>

\* HoldTable::remove, release_hold and Drop for IndependentHold: the last plain
\* reference takes the right to make a Pole with it; frames that were kept are free.
RemoveHold(w, h) ==
    LET s == w.hold[h].src
        x == [w EXCEPT !.hold[h] = None]
        plain == {g \in Holds : x.hold[g] # None /\ x.hold[g].src = s /\ ~x.hold[g].keeps}
    IN  IF w.hold[h].keeps
        THEN Settle(Put(x, s, "retained", x.source[s].retained \ {h}), s)
        ELSE IF plain = {} THEN Put(x, s, "claim", "used") ELSE x

DropHold(w, h) == RemoveHold(w, h)

Release(t, h) ==
    /\ Ready(t, "acquire") /\ hold[h] # None /\ hold[h].task = t
    /\ Become(ReapDerivations(DropHold(World, h), hold[h].src))
    /\ UNCHANGED job /\ Same

\* ---- Attach ---------------------------------------------------------------

\* the branch a reference is used through: its own, or the root's
Branch(h) == IF hold[h].branch # 0 THEN hold[h].branch ELSE source[hold[h].src].root

\* attach up to ViewRegistry::claim: the lease, the first look at the branch, then the
\* address and both registrations.  What fails before leaves nothing.
AttachClaim(t, h, pages) ==
    /\ Ready(t, "attach") /\ minted.view < MaxView
    /\ hold[h] # None /\ hold[h].task = t /\ pages \subseteq hold[h].pages /\ Resolves(h)
    /\ LET s == hold[h].src
           v == minted.view + 1
           w == ReapViews(Lease(World, t, s), Space[t])
       IN  /\ Leasable(World, s) /\ BranchPermits(World, s, Branch(h))
           /\ Private(World, s) => source[s].owner = t
           /\ Become([Put(w, s, "bindings", w.source[s].bindings \cup {v}) EXCEPT
                        !.view[v] = [space |-> Space[t], src |-> s, pages |-> pages,
                                     nest |-> "reserved", entry |-> "claimed"]])
           /\ Go(t, [at |-> "enter", src |-> s, view |-> v, hold |-> h, token |-> Branch(h)])
    /\ Mint("view") /\ UNCHANGED <<dead, closed, faults>>

\* enter_publish under the gate, or the rollback of the reservation
AttachEnter(t) ==
    LET j == job[t]
        released == Unlease(Retire([World EXCEPT !.view[j.view].nest = "settled"], j.view),
                            t, j.src)
    IN  /\ j.at = "enter"
        /\ IF ~source[j.src].gate /\ BranchPermits(World, j.src, j.token)
           THEN /\ Become(Put(World, j.src, "inflight",
                              source[j.src].inflight \cup {[by |-> t, pages |-> {}]}))
                /\ Go(t, [j EXCEPT !.at = "map"])
           ELSE Become(released) /\ Return(t)
        /\ Same

\* Nest::attach: mapped, or a failure whose cleanup the Nest owes
AttachMap(t) ==
    LET j == job[t]
    IN  /\ j.at = "map"
        /\ \/ /\ Become([World EXCEPT !.view[j.view].nest = "mapped"])
              /\ Go(t, [j EXCEPT !.at = "commit"]) /\ UNCHANGED faults
           \/ /\ faults < Failures /\ faults' = faults + 1
              /\ Become(Unlease([LeavePublish(World, t, j.src) EXCEPT
                                   !.view[j.view].nest = "owed"], t, j.src))
              /\ Return(t)
        /\ UNCHANGED <<dead, closed, minted>>

\* branch_check and check_publish under the commit lock, PoleMeta::record and
\* ViewRegistry::commit
AttachCommit(t) ==
    LET j == job[t]
        s == j.src
        w == ReapDerivations(World, s)
        told == IF Private(World, s) THEN w
                ELSE Put(w, s, "maps", source[s].maps \cup
                         {[view |-> j.view, token |-> j.token, kind |-> "view"]})
        good == /\ t \notin dead /\ ~source[s].gate /\ BranchPermits(World, s, j.token)
                /\ Publishable(World, s, view[j.view].pages, j.hold)
    IN  /\ j.at = "commit"
        /\ IF good
           THEN /\ Become([told EXCEPT !.view[j.view].entry = "committed"])
                /\ Go(t, [j EXCEPT !.at = "leave"])
           ELSE Become(w) /\ Go(t, [j EXCEPT !.at = "undo"])
        /\ Same

\* rollback of a mapped view: dispose, and the registrations once it is settled
AttachUndo(t) ==
    LET j == job[t]
    IN  /\ j.at = "undo"
        /\ \E ok \in BOOLEAN :
              /\ Become(Retire(Pull(World, j.view, ok), j.view))
              /\ ok \/ faults < Failures
              /\ faults' = IF ok THEN faults ELSE faults + 1
        /\ Go(t, [j EXCEPT !.at = "leave"]) /\ UNCHANGED <<dead, closed, minted>>

AttachLeave(t) ==
    /\ job[t].at = "leave"
    /\ Become(Unlease(LeavePublish(World, t, job[t].src), t, job[t].src))
    /\ Return(t) /\ Same

\* ---- Detach ---------------------------------------------------------------

\* with_view, then withdraw; the registrations go in a step of their own
DetachPull(t, v) ==
    /\ Ready(t, "detach") /\ view[v] # None /\ view[v].space = Space[t]
    /\ view[v].entry = "committed"
    /\ \E ok \in BOOLEAN :
          /\ Become(Pull(ReapViews(World, Space[t]), v, ok))
          /\ ok \/ (faults < Failures /\ view[v].nest = "mapped")
          /\ faults' = IF ok THEN faults ELSE faults + 1
    /\ Go(t, [at |-> "retire", view |-> v]) /\ UNCHANGED <<dead, closed, minted>>

DetachRetire(t) ==
    /\ job[t].at = "retire" /\ Become(Retire(World, job[t].view)) /\ Return(t) /\ Same

\* ---- Unseal: a Pole from a private source, or from a part of a Pole --------

\* create_pole up to the commit: the claim, and the views to take over
CreatePrepare(t, h) ==
    /\ Ready(t, "create") /\ hold[h] # None /\ hold[h].task = t
    /\ LET s == hold[h].src
       IN  /\ Private(World, s) /\ source[s].owner = t /\ source[s].claim = "open"
           /\ ~hold[h].keeps /\ hold[h].branch = 0 /\ hold[h].pages = source[s].pages
           /\ Become(Put(World, s, "claim", "claimed"))
           /\ Go(t, [at |-> "adopt", src |-> s,
                     inputs |-> {v \in source[s].bindings : view[v].entry = "committed"}])
    /\ Same

\* the commit: begin_withdraw, adopt, adopt_input; or the claim is given back
CreateAdopt(t) ==
    LET s == job[t].src
        k == minted.pie + 1
        inputs == {[view |-> v, token |-> k, kind |-> "input"] : v \in job[t].inputs}
    IN  /\ job[t].at = "adopt" /\ Return(t)
        /\ \/ /\ source[s].inflight = {} /\ minted.pie < MaxToken
              /\ Become([World EXCEPT
                   !.source[s] = [@ EXCEPT !.root = k, !.claim = "used", !.maps = inputs],
                   !.pie[k] = [task |-> t, src |-> s, pages |-> source[s].pages,
                               sire |-> 0, state |-> "held"]])
              /\ Mint("pie")
           \/ Become(Put(World, s, "claim", "open")) /\ UNCHANGED minted
        /\ UNCHANGED <<dead, closed, faults>>

\* derive_pole: one commit section holds the check, the slot and the child
Derive(t, h) ==
    /\ Ready(t, "create") /\ hold[h] # None /\ hold[h].task = t
    /\ minted.source < MaxSource /\ minted.pie < MaxToken
    /\ LET s == hold[h].src
           c == minted.source + 1
           k == minted.pie + 1
           b == hold[h].branch
           w == ReapDerivations(World, s)
       IN  /\ ~Private(World, s) /\ b # 0 /\ HeldIn(World, b) /\ ~hold[h].keeps
           /\ hold[h].pages \subseteq pie[b].pages /\ hold[h].pages # source[s].pages
           /\ ~source[s].gate /\ source[s].live
           /\ Publishable(World, s, hold[h].pages, 0)
           /\ Become([Put(w, s, "slots", w.source[s].slots \cup {c}) EXCEPT
                !.source[c] = NewSource(t, hold[h].pages, s, k),
                !.pie[k] = [task |-> t, src |-> c, pages |-> hold[h].pages,
                            sire |-> 0, state |-> "held"]])
    /\ minted' = [minted EXCEPT !.source = @ + 1, !.pie = @ + 1]
    /\ UNCHANGED <<job, dead, closed, faults>>

\* accord and derive of pend: another task gets a window of a Pole
Accord(t, k, u, pages) ==
    /\ Ready(t, "accord") /\ u \notin dead /\ minted.pie < MaxToken
    /\ HeldIn(World, k) /\ pie[k].task = t /\ pages \subseteq pie[k].pages
    /\ LET s == pie[k].src
           c == minted.pie + 1
       IN  /\ Leasable(World, s) /\ source[s].live /\ Publishable(World, s, pages, 0)
           /\ Become([ReapDerivations(World, s) EXCEPT
                !.pie[c] = [task |-> u, src |-> s, pages |-> pages, sire |-> k,
                            state |-> "held"]])
    /\ Mint("pie") /\ UNCHANGED <<job, dead, closed, faults>>

\* ---- Open and Shut --------------------------------------------------------

OpenBegin(t, k) ==
    /\ Ready(t, "open") /\ HeldIn(World, k) /\ pie[k].task = t
    /\ source[pie[k].src].live /\ Leasable(World, pie[k].src)
    /\ Become(Lease(World, t, pie[k].src)) /\ Go(t, [at |-> "open", token |-> k, src |-> pie[k].src])
    /\ Same

\* pole::open under the commit lock: an open relation of the whole window is used
\* again, else a new one is mapped and recorded
OpenCommit(t) ==
    LET j == job[t]
        s == j.src
        v == minted.view + 1
        w == ReapDerivations(World, s)
        pages == pie[j.token].pages
        again == \E m \in source[s].maps :
                    /\ m.token = j.token /\ m.kind \in {"input", "open"}
                    /\ view[m.view].nest = "mapped" /\ view[m.view].space = Space[t]
                    /\ view[m.view].pages = pages
        New(nest, entry) ==
            [Put(w, s, "bindings", w.source[s].bindings \cup {v}) EXCEPT
                !.view[v] = [space |-> Space[t], src |-> s, pages |-> pages,
                             nest |-> nest, entry |-> entry]]
        opened == Put(New("mapped", "open"), s, "maps", source[s].maps \cup
                      {[view |-> v, token |-> j.token, kind |-> "open"]})
    IN  /\ j.at = "open" /\ Return(t)
        /\ IF \/ ~source[s].live \/ ~HeldIn(World, j.token)
              \/ ~Publishable(World, s, pages, 0) \/ again \/ minted.view = MaxView
           THEN Become(Unlease(w, t, s)) /\ UNCHANGED <<minted, faults>>
           ELSE /\ Mint("view")
                /\ \/ Become(Unlease(opened, t, s)) /\ UNCHANGED faults
                   \/ /\ faults < Failures /\ faults' = faults + 1
                      /\ Become(Unlease(New("owed", "claimed"), t, s))
        /\ UNCHANGED <<dead, closed>>

\* the relations under a token, in withdraw and close_maps
MapsOf(s, k) == {m \in source[s].maps : m.token = k}

ShutBegin(t, k) ==
    /\ Ready(t, "open") /\ HeldIn(World, k) /\ pie[k].task = t /\ Leasable(World, pie[k].src)
    /\ Become(Lease(World, t, pie[k].src))
    /\ Go(t, [at |-> "shut", token |-> k, src |-> pie[k].src, then |-> "return"]) /\ Same

\* close_maps: relation after relation is taken off the list, pulled and retired; one
\* that is not confirmed goes back on the list and ends the call
CloseMap(w, s, m, ok) ==
    LET x == Pull(Put(w, s, "maps", w.source[s].maps \ {m}), m.view, ok)
    IN  IF ok THEN Retire(x, m.view) ELSE Pull(w, m.view, ok)

ShutMap(t) ==
    LET j == job[t]
        mine == MapsOf(j.src, j.token)
    IN  /\ j.at = "shut"
        /\ IF mine = {} THEN Become(Unlease(World, t, j.src)) /\ Return(t) /\ UNCHANGED faults
           ELSE \E m \in mine :
                  \/ Become(CloseMap(World, j.src, m, TRUE)) /\ UNCHANGED <<job, faults>>
                  \/ /\ faults < Failures /\ view[m.view].nest = "mapped"
                     /\ faults' = faults + 1
                     /\ Become(Unlease(CloseMap(World, j.src, m, FALSE), t, j.src)) /\ Return(t)
        /\ UNCHANGED <<dead, closed, minted>>

\* ---- Revoke, Release and Forget of pies, and death --------------------------

RECURSIVE Below(_)
Below(k) == {k} \cup UNION {Below(c) : c \in {x \in Tokens : HeldIn(World, x) /\ pie[x].sire = k}}

\* cull: under the pends and the commit lock the whole tree of grants is taken, if no
\* publication is in flight; a dying task does not ask for the lease
Cull(k, closing) ==
    /\ HeldIn(World, k)
    /\ closing \/ Leasable(World, pie[k].src)
    /\ source[pie[k].src].inflight = {}
    /\ Become([World EXCEPT !.pie = [x \in Tokens |->
         IF x \in Below(k) THEN [pie[x] EXCEPT !.state = "taken"] ELSE pie[x]]])

\* revoke by the task that granted it, release by its holder
Revoke(t, k) ==
    /\ Ready(t, "revoke") /\ HeldIn(World, k)
    /\ \/ pie[k].task = t
       \/ pie[k].sire # 0 /\ HeldIn(World, pie[k].sire) /\ pie[pie[k].sire].task = t
    /\ Cull(k, FALSE) /\ Go(t, [at |-> "finish", list |-> Below(k), next |-> "idle"]) /\ Same

\* PoleMeta::withdraw, then Drop for Pie with release_grant: the last authority settles
\* the source
DropPie(w, k) ==
    LET s == w.pie[k].src
        x == [w EXCEPT !.pie[k] = None]
    IN  DropMeta(IF PiesOf(x, s) = {} THEN Settle(x, s) ELSE x, s)

Dropped(w, k) == DropPie(w, k)

\* Cleanup::finish: one taken pie after the other, the youngest first
Finish(t) ==
    LET j == job[t]
        k == Max(j.list)
        s == pie[k].src
        mine == MapsOf(s, k)
        rest == j.list \ {k}
        Closed(bad) == FoldSet(LAMBDA m, x : Retire(Pull(x, m.view, m \notin bad), m.view),
                               Put(World, s, "maps", source[s].maps \ mine), mine)
    IN  /\ j.at = "finish"
        /\ \E bad \in {{}} \cup {{m} : m \in mine} :
              /\ faults + Cardinality(bad) <= Failures
              /\ faults' = faults + Cardinality(bad)
              /\ Become(Dropped(Closed(bad), k))
        /\ IF rest # {} THEN Go(t, [j EXCEPT !.list = rest])
           ELSE Go(t, IF j.next = "doom" THEN [at |-> "doom"] ELSE Idle)
        /\ UNCHANGED <<dead, closed, minted>>

\* forget: the grants below go to the granter, the pie is taken without the lease
Forget(t, k) ==
    /\ Ready(t, "forget") /\ HeldIn(World, k) /\ pie[k].task = t /\ pie[k].sire # 0
    /\ HeldIn(World, pie[k].sire) /\ pie[pie[k].sire].task \notin dead
    /\ Become([World EXCEPT !.pie = [x \in Tokens |->
         IF x = k THEN [pie[x] EXCEPT !.state = "taken"]
         ELSE IF pie[x] # None /\ pie[x].sire = k THEN [pie[x] EXCEPT !.sire = pie[k].sire]
         ELSE pie[x]]])
    /\ Go(t, [at |-> "forgot", token |-> k, src |-> pie[k].src]) /\ Same

\* pole::shut after a forget: whatever it answers, the pie is dropped
ForgetShut(t) ==
    LET j == job[t]
        mine == MapsOf(j.src, j.token)
        shut == FoldSet(LAMBDA m, x : CloseMap(x, j.src, m, TRUE), World, mine)
    IN  /\ j.at = "forgot"
        /\ Become(Dropped(IF Leasable(World, j.src) THEN shut ELSE World, j.token))
        /\ Return(t) /\ Same

\* doom: the references go, then the Poles the task made are sealed, then each pie is
\* culled, as often as it takes
Doom(t) ==
    /\ t \in Mortal /\ t \notin dead /\ job[t].at = "idle" /\ dead' = dead \cup {t}
    /\ Become(FoldSet(LAMBDA h, x : DropHold(x, h), World,
                      {h \in Holds : hold[h] # None /\ hold[h].task = t}))
    /\ Go(t, [at |-> "sealing"]) /\ UNCHANGED <<closed, minted, faults>>

\* seal_owned
SealOwned(t) ==
    /\ job[t].at = "sealing"
    /\ Become([World EXCEPT !.source = [s \in Sources |->
         IF source[s] # None /\ source[s].owner = t /\ (\E k \in PiesOf(World, s) : pie[k].task = t)
         THEN [source[s] EXCEPT !.live = FALSE] ELSE source[s]]])
    /\ Go(t, [at |-> "doom"]) /\ Same

DoomCull(t) ==
    LET mine == {k \in Tokens : HeldIn(World, k) /\ pie[k].task = t}
    IN  /\ job[t].at = "doom" /\ mine # {}
        /\ Cull(Min(mine), TRUE)
        /\ Go(t, [at |-> "finish", list |-> Below(Min(mine)), next |-> "doom"]) /\ Same

\* Space::retire once the last task of a team is gone: the Nest closes, what it owed is
\* settled, the registrations go
SpaceRetire(space) ==
    LET here == {v \in Views : view[v] # None /\ view[v].space = space}
        w == [World EXCEPT !.view = [v \in Views |->
                IF v \in here THEN [view[v] EXCEPT !.nest = "settled"] ELSE view[v]]]
    IN  /\ \A t \in Tasks : Space[t] = space =>
              /\ t \in dead /\ job[t].at = "doom"
              /\ {k \in Tokens : HeldIn(World, k) /\ pie[k].task = t} = {}
        /\ \E v \in here : view[v].nest # "settled"
        /\ Become(RetireAll(w, here)) /\ UNCHANGED job /\ Same

\* ---- Seal -----------------------------------------------------------------

\* pending_close
PendingClose(s) ==
    source[s].maps # {} \/ source[s].bindings # {} \/ source[s].slots # {} \/ source[s].inflight # {}

\* seal_resource up to the end of its commit section
SealBegin(t, k) ==
    /\ Ready(t, "seal") /\ HeldIn(World, k) /\ pie[k].task = t
    /\ LET s == pie[k].src
       IN  /\ source[s].owner = t /\ (source[s].live \/ PendingClose(s)) /\ Leasable(World, s)
           /\ Become(Put(Lease(World, t, s), s, "live", FALSE))
           /\ Go(t, [at |-> "visit", root |-> s, todo |-> <<s>>, src |-> s, left |-> {}])
    /\ Same

\* the leases of a Seal that ends; a Seal that fails keeps what it achieved
SealEnd(w, t) == FoldSet(LAMBDA s, x : Unlease(x, t, s), w, {s \in Sources : w.source[s] # None})
SealBusy(t, w) == Become(SealEnd(w, t)) /\ Return(t)

\* pole::close, one source: lease, gate and seal under the commit lock
SealVisit(t) ==
    LET j == job[t]
        s == Last(j.todo)
        ok == (s = j.root \/ Leasable(World, s)) /\ source[s].inflight = {}
        w == Put(Put(Lease(World, t, s), s, "live", FALSE), s, "gate", TRUE)
    IN  /\ j.at = "visit" /\ j.todo # <<>>
        /\ IF ok
           THEN /\ Become(w)
                /\ Go(t, [j EXCEPT !.at = "unmap", !.todo = Front(@), !.src = s,
                                   !.left = source[s].bindings])
           ELSE SealBusy(t, World)
        /\ Same

\* close_maps of all tokens, then close_bindings of the members seen under the lock
SealUnmap(t) ==
    LET j == job[t]
        s == j.src
        Fail(w) == faults < Failures /\ faults' = faults + 1 /\ SealBusy(t, w)
    IN  /\ j.at = "unmap"
        /\ IF source[s].maps # {}
           THEN \E m \in source[s].maps :
                  \/ Become(CloseMap(World, s, m, TRUE)) /\ UNCHANGED <<job, faults>>
                  \/ view[m.view].nest = "mapped" /\ Fail(CloseMap(World, s, m, FALSE))
           ELSE IF j.left = {} THEN Go(t, [j EXCEPT !.at = "children"]) /\ Become(World) /\ UNCHANGED faults
           ELSE LET v == Min(j.left)
                    gone == v \notin source[s].bindings
                    x == ReapViews(World, view[v].space)
                IN  \/ /\ gone \/ view[v].nest # "reserved"
                       /\ Become(IF gone THEN World ELSE Retire(Pull(x, v, TRUE), v))
                       /\ Go(t, [j EXCEPT !.left = @ \ {v}]) /\ UNCHANGED faults
                    \/ ~gone /\ view[v].nest \in {"mapped", "owed"} /\ Fail(Pull(World, v, FALSE))
                    \/ ~gone /\ view[v].nest = "reserved" /\ SealBusy(t, x) /\ UNCHANGED faults
        /\ UNCHANGED <<dead, closed, minted>>

\* reap_derivations, children and settle under the commit lock
SealChildren(t) ==
    LET j == job[t]
        s == j.src
        w == ReapDerivations(World, s)
        next == Settle(IF s = j.root THEN w ELSE Unlease(w, t, s), s)
        new == SetToSeq(w.source[s].slots)
    IN  /\ j.at = "children"
        /\ IF \E c \in w.source[s].slots : ~Reachable(w, c) THEN SealBusy(t, w)
           ELSE Become(next) /\ Go(t, [j EXCEPT !.at = "visit", !.todo = @ \o new])
        /\ Same

Descend(t) == SealChildren(t)

SealDone(t) ==
    LET j == job[t]
    IN  /\ j.at = "visit" /\ j.todo = <<>>
        /\ Become(SealEnd(Settle(World, j.root), t)) /\ Return(t)
        /\ closed' = closed \cup {j.root} /\ UNCHANGED <<dead, minted, faults>>

\* ---- Transfer -------------------------------------------------------------

\* manages: the owner of a private source, or the holder of the root pie of a Pole
Manages(t, s) ==
    /\ ~source[s].gate
    /\ IF Private(World, s) THEN source[s].owner = t
       ELSE source[s].live /\ HeldIn(World, source[s].root) /\ pie[source[s].root].task = t

\* the pages are checked and put in flight in one commit section; the move itself runs
\* without the lock
TransferBegin(t, h, p, g, q) ==
    /\ Ready(t, "transfer") /\ p # q
    /\ \A x \in {<<h, p>>, <<g, q>>} :
          /\ hold[x[1]] # None /\ hold[x[1]].task = t /\ x[2] \in hold[x[1]].pages
          /\ Resolves(x[1]) /\ Manages(t, hold[x[1]].src)
          /\ Publishable(World, hold[x[1]].src, {x[2]}, x[1])
    /\ LET s1 == hold[h].src
           s2 == hold[g].src
           w == ReapDerivations(ReapDerivations(World, s1), s2)
           x == Put(w, s1, "inflight", w.source[s1].inflight \cup {[by |-> t, pages |-> {p}]})
       IN  /\ Become(Put(x, s2, "inflight", x.source[s2].inflight \cup {[by |-> t, pages |-> {q}]}))
           /\ Go(t, [at |-> "move", ends |-> {s1, s2}])
    /\ Same

TransferEnd(t) ==
    /\ job[t].at = "move"
    /\ Become(FoldSet(LAMBDA s, x : LeavePublish(x, t, s), World, job[t].ends))
    /\ Return(t) /\ Same

----------------------------------------------------------------------------

Step(t) ==
    \/ AttachEnter(t) \/ AttachMap(t) \/ AttachCommit(t) \/ AttachUndo(t) \/ AttachLeave(t)
    \/ DetachRetire(t) \/ CreateAdopt(t) \/ OpenCommit(t) \/ ShutMap(t) \/ Finish(t)
    \/ ForgetShut(t) \/ SealOwned(t) \/ DoomCull(t) \/ SealVisit(t) \/ SealUnmap(t)
    \/ Descend(t) \/ SealDone(t) \/ TransferEnd(t)

Call(t) ==
    \/ AcquireAllocation(t)
    \/ \E s \in Sources, pages \in Windows, k \in {0} \cup Tokens, keep \in BOOLEAN :
          Acquire(t, s, pages, k, keep)
    \/ \E h \in Holds : Release(t, h) \/ CreatePrepare(t, h) \/ Derive(t, h)
    \/ \E h \in Holds, pages \in Windows : AttachClaim(t, h, pages)
    \/ \E v \in Views : DetachPull(t, v)
    \/ \E k \in Tokens : OpenBegin(t, k) \/ ShutBegin(t, k) \/ Revoke(t, k) \/ Forget(t, k)
    \/ \E k \in Tokens, u \in Tasks, pages \in Windows : Accord(t, k, u, pages)
    \/ \E k \in Tokens : SealBegin(t, k)
    \/ \E h, g \in Holds, p, q \in Pages : TransferBegin(t, h, p, g, q)
    \/ Doom(t)

Next ==
    \/ \E t \in Tasks : Step(t) \/ Call(t)
    \/ \E t \in Tasks : SpaceRetire(Space[t])

Spec == Init /\ [][Next]_poleVars

----------------------------------------------------------------------------
(* Properties. *)

\* Every variable has its type, and between calls no lease is held and nothing is in
\* flight: every error path gives both back.
TypeOK ==
    /\ \A s \in Sources : source[s] # None =>
          /\ source[s].bindings \subseteq Views /\ source[s].slots \subseteq Sources
          /\ source[s].operating # Nobody => job[source[s].operating].at # "idle"
          /\ \A f \in source[s].inflight : job[f.by].at # "idle"
    /\ \A v \in Views : view[v] # None =>
          /\ view[v].nest \in {"reserved", "mapped", "owed", "settled"}
          /\ view[v].entry \in {"none", "claimed", "committed", "open"}
    /\ faults \in 0 .. Failures

\* The registry of a space and the members of a source agree: a relation is in both or
\* in neither, whatever fails and whoever retires it (Space::settle).
BooksAgree ==
    \A v \in Views : view[v] # None =>
        (view[v].entry # "none" <=> v \in source[view[v].src].bindings)

InHand(v) == \E t \in Tasks :
    job[t].at \in {"enter", "map", "commit", "undo", "leave"} /\ job[t].view = v

\* A relation of a Pole that is mapped belongs to a pie that is there or that a cleanup
\* is about to drop, or is in the hands of the call that made it: nobody keeps access
\* after the grant is gone.
NoStrayMap ==
    \A v \in Views :
        view[v] # None /\ view[v].nest = "mapped" /\ ~Private(World, view[v].src) =>
            \/ InHand(v)
            \/ \E m \in source[view[v].src].maps : m.view = v /\ pie[m.token] # None

\* A part that became a Pole keeps its slot in the parent as long as anything of it is
\* left (a right, a relation, kept frames, a publication, a part of its own): its pages
\* are not given out twice.  Slots of one parent do not overlap.
SlotKept ==
    /\ \A c \in Sources :
          source[c] # None /\ source[c].parent # 0 /\ ~Finished(World, c) =>
              c \in source[source[c].parent].slots
    /\ \A s \in Sources : source[s] # None =>
          \A c, d \in source[s].slots : c # d => source[c].pages \cap source[d].pages = {}

\* The record behind a slot still exists: a slot whose record is gone would never be
\* given back (derivation_done takes it for unknown).
NoLostSlot ==
    \A s \in Sources : source[s] # None => \A c \in source[s].slots : Reachable(World, c)

RECURSIVE Under(_)
Under(s) == {s} \cup UNION {Under(c) : c \in {x \in Sources : source[x] # None /\ source[x].parent = s}}

\* When Seal answers Ok, nothing is mapped of the Pole or of any part of it, and
\* nothing is mapped afterwards.
SealedClosed ==
    \A s \in closed : \A c \in Under(s) : \A v \in Views :
        view[v] # None /\ view[v].src = c => view[v].nest # "mapped"

\* While a page is on its move, nobody publishes a use of it: no part with the page
\* becomes a Pole, no relation that shows it is committed.
FlightStep ==
    \A s \in Sources : source[s] # None /\ source'[s] # None =>
        \A f \in source[s].inflight :
            /\ \A c \in source'[s].slots \ source[s].slots : source'[c].pages \cap f.pages = {}
            /\ \A m \in source'[s].maps \ source[s].maps :
                  m.kind # "input" => view'[m.view].pages \cap f.pages = {}

\* Frames a task keeps are not published by anybody else while it keeps them.
KeptStep ==
    \A s \in Sources : source[s] # None /\ source'[s] # None =>
        \A h \in source[s].retained \cap source'[s].retained :
            /\ \A c \in source'[s].slots \ source[s].slots : source'[c].pages \cap hold[h].pages = {}
            /\ \A m \in source'[s].maps \ source[s].maps :
                  /\ m.kind # "input" => \/ view'[m.view].pages \cap hold[h].pages = {}
                                         \/ \E t \in Tasks : job[t].at = "commit" /\ job[t].hold = h

=============================================================================
