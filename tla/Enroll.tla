------------------------------- MODULE Enroll -------------------------------
(***************************************************************************)
(* Hub's inventory (service/hub/core/{ledger,enrollments,leagues}.rs): a   *)
(* device is enrolled in steps, each an effect in another service, and is  *)
(* claimed by one owner at a time.  An effect may fail, and it may happen  *)
(* although Hub is told that it failed; Hub then tries the same step with  *)
(* the same identity.  Hub finds its peers (serve/peers.rs) the same way.  *)
(***************************************************************************)
EXTENDS Naturals, Sequences, FiniteSets

CONSTANTS Devs, Class,     \* devices and the class of each
          Owners,          \* executions that claim
          Faults           \* bound: the effects that fail

VARIABLES cells,           \* Ledger.cells: [dev, step, owner], in order
          leagues,         \* Ledger.leagues: [class, step, coalition], in order
          closing,         \* Ledger.settling
          made,            \* Identity: the coalitions founded, in order
          members,         \* Identity: the coalitions Hub was admitted to and activated in
          tree,            \* Operator: the devices bound, and under which coalition
          live,            \* executions whose sensor is alive
          page,            \* executions that got the page of each device
          held, peered,    \* Peers::find: the references kept, and whether it is done
          faults

enrVars == <<cells, leagues, closing, made, members, tree, live, page, held, peered, faults>>

Nobody == "nobody"
Init == /\ cells = << >> /\ leagues = << >> /\ closing = FALSE
        /\ made = << >> /\ members = {} /\ tree = {}
        /\ live = Owners /\ page = [d \in Devs |-> {}]
        /\ held = 0 /\ peered = FALSE /\ faults = 0

Row(d) == {i \in DOMAIN cells : cells[i].dev = d}
League(c) == CHOOSE i \in DOMAIN leagues : leagues[i].class = c
ReadyRow(i) == cells[i].step \in {"vacant", "held"}

\* The device and its class are reserved before anything is acquired.
PrepareEnrollment(d) ==
    /\ peered /\ ~closing /\ Row(d) = {}
    /\ cells' = Append(cells, [dev |-> d, step |-> "door", owner |-> Nobody])
    /\ leagues' = IF \E i \in DOMAIN leagues : leagues[i].class = Class[d] THEN leagues
                  ELSE Append(leagues, [class |-> Class[d], step |-> "found", coalition |-> 0])
    /\ UNCHANGED <<closing, made, members, tree, live, page, held, peered, faults>>

\* Rows are published in the order of their reservation.
Turn(i) == ~closing /\ ~ReadyRow(i) /\ \A j \in 1 .. i - 1 : ReadyRow(j)

\* An effect happens, and Hub hears of it or not.
Heard == faults' = faults
Unheard == faults < Faults /\ faults' = faults + 1
Fails == Unheard

\* League.creation: the place of the league, kept over every try.
Creation(k) == k
\* organization.found makes one coalition for one FoundId.
Found(id) ==
    IF \E n \in DOMAIN made : made[n].id = id THEN CHOOSE n \in DOMAIN made : made[n].id = id
    ELSE Len(made) + 1
AdvanceLeague(i) ==
    LET k == League(Class[cells[i].dev])
        l == leagues[k]
    IN  /\ Turn(i) /\ l.step # "ready"
        /\ \/ /\ l.step = "found"
              /\ made' = IF Found(Creation(k)) <= Len(made) THEN made
                         ELSE Append(made, [id |-> Creation(k), class |-> l.class])
              /\ \/ Heard /\ leagues' = [leagues EXCEPT ![k].step = "admit",
                                                        ![k].coalition = Found(Creation(k))]
                 \/ Unheard /\ UNCHANGED leagues
              /\ UNCHANGED members
           \/ /\ l.step \in {"admit", "activate"}
              /\ members' = members \cup {<<l.step, l.coalition>>}
              /\ \/ Heard /\ leagues' = [leagues EXCEPT ![k].step =
                                           IF @ = "admit" THEN "activate" ELSE "ready"]
                 \/ Unheard /\ UNCHANGED leagues
              /\ UNCHANGED made
    /\ UNCHANGED <<cells, closing, tree, live, page, held, peered>>

\* door, part, bind; binding again with the same OperationId binds nothing new.
AdvanceEnrollment(i) ==
    LET k == League(Class[cells[i].dev])
        s == cells[i].step
    IN  /\ Turn(i) /\ leagues[k].step = "ready"
        /\ tree' = IF s = "bind" THEN tree \cup {<<cells[i].dev, leagues[k].coalition>>} ELSE tree
        /\ \/ Heard /\ cells' = [cells EXCEPT ![i].step =
                         CASE s = "door" -> "part" [] s = "part" -> "bind" [] s = "bind" -> "vacant"]
           \/ Unheard /\ UNCHANGED cells
        /\ UNCHANGED <<leagues, closing, made, members, live, page, held, peered>>

\* bond: Identity admits the caller to the class; the tree then lets it reach the door.
Reaches(o, d) == \E n \in 1 .. Len(made) : <<d, n>> \in tree

Claimable(i) == ReadyRow(i) /\ cells[i].owner \notin live
\* claim_with: the page is delivered first; a failed delivery changes nothing.
Claim(i, o) ==
    /\ o \in live /\ Reaches(o, cells[i].dev) /\ Claimable(i)
    /\ cells' = [cells EXCEPT ![i].step = "held", ![i].owner = o]
    /\ page' = [page EXCEPT ![cells[i].dev] = @ \cup {o}]
    /\ UNCHANGED <<leagues, closing, made, members, tree, live, held, peered, faults>>
\* An execution dies, and what it was granted with it.
Dies(o) ==
    /\ o \in live /\ live' = live \ {o} /\ page' = [d \in Devs |-> page[d] \ {o}]
    /\ UNCHANGED <<cells, leagues, closing, made, members, tree, held, peered, faults>>
Vacate ==
    /\ \E i \in DOMAIN cells : cells[i].step = "held" /\ cells[i].owner \notin live
    /\ cells' = [i \in DOMAIN cells |->
                  IF cells[i].step = "held" /\ cells[i].owner \notin live
                  THEN [cells[i] EXCEPT !.step = "vacant", !.owner = Nobody] ELSE cells[i]]
    /\ UNCHANGED <<leagues, closing, made, members, tree, live, page, held, peered, faults>>
Settle ==
    /\ ~closing /\ closing' = TRUE
    /\ UNCHANGED <<cells, leagues, made, members, tree, live, page, held, peered, faults>>

\* Peers::find imports three references; what a failed search imported is given
\* back by reclaim before the next one.
Find ==
    /\ ~peered /\ held = 0
    /\ \/ Heard /\ peered' = TRUE /\ held' = 0
       \/ Fails /\ peered' = FALSE /\ held' \in 0 .. 3
    /\ UNCHANGED <<cells, leagues, closing, made, members, tree, live, page>>
ReclaimPeers ==
    /\ held > 0 /\ held' = held - 1
    /\ UNCHANGED <<cells, leagues, closing, made, members, tree, live, page, peered, faults>>

Next == \/ \E d \in Devs : PrepareEnrollment(d)
        \/ \E i \in DOMAIN cells : AdvanceLeague(i) \/ AdvanceEnrollment(i)
                                   \/ \E o \in Owners : Claim(i, o)
        \/ \E o \in Owners : Dies(o)
        \/ Vacate \/ Settle \/ Find \/ ReclaimPeers

Spec == Init /\ [][Next]_enrVars

----------------------------------------------------------------------------
\* A class has one coalition however often its founding was repeated, every
\* device of it is bound under that one, and only after Hub itself is an active
\* member of it; a device is published once and after the ones before it.
Published ==
    /\ \A m, n \in DOMAIN made : made[m].class = made[n].class => m = n
    /\ \A b \in tree : made[b[2]].class = Class[b[1]] /\ <<"activate", b[2]>> \in members
    /\ \A i, j \in DOMAIN cells : cells[i].dev = cells[j].dev => i = j
    /\ \A i \in DOMAIN cells : ReadyRow(i) => \A j \in 1 .. i : ReadyRow(j)
                                              /\ \E b \in tree : b[1] = cells[j].dev
\* One live execution at a time holds the page of a device, and it is its owner.
OneHolder ==
    \A d \in Devs : \A o \in page[d] :
        page[d] = {o} /\ \E i \in Row(d) : cells[i].step = "held" /\ cells[i].owner = o
============================================================================
