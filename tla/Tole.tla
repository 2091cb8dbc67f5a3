-------------------------------- MODULE Tole --------------------------------
(***************************************************************************)
(* Event groups (mail/tole) over bells (mail/nole): a task attaches cells, *)
(* one per source, to a group and awaits the group.  A source's wake is    *)
(* forwarded to the groups registered at its wait site (wait/fwd.rs), and  *)
(* a knock on a group's site makes every task waiting there poll again and *)
(* either resume or queue up anew.                                         *)
(*                                                                         *)
(* Each action is one section under the commit lock; ring, seal and the    *)
(* calls on pies change their object first and owe the wakes that follow.  *)
(***************************************************************************)
EXTENDS Integers, Sequences, FiniteSets, SequencesExt

CONSTANTS Actors, Groups, Bells,
          Owner,     \* the actor that created a bell or group, lord of its other pies
          Watched,   \* <<actor, object>>: the pies Inspect cells are made for
          FwdMax,    \* FWD_MAX: groups one site forwards to
          MaxCells,  \* MAX: cells of one group
          Bounded,   \* the actors that wait with a deadline
          MayFail,   \* whether a site may fail to be allocated
          None

\* What the constants of an instance satisfy.
Assumptions == FwdMax \in Nat /\ MaxCells \in Nat \ {0} /\ MayFail \in BOOLEAN

VARIABLES live,    \* bells and groups not sealed
          ring,    \* bells that ring
          cells,   \* the cells of a group, in order of attachment
          cursor,  \* where the next poll of a group starts
          pies,    \* who holds a pie of which bell or group
          weak,    \* the pies narrowed below FETCH and STORE
          fwd,     \* the groups a wait site forwards to
          line,    \* tasks waiting on a group's site
          seat,    \* tasks waiting on a bell's site
          beacon,  \* sites with pend set
          at,      \* what an actor is doing
          due     \* the calls an actor still owes after ring, seal, release or narrow

vars == <<live, ring, cells, cursor, pies, weak, fwd, line, seat, beacon, at, due>>

Objects == Bells \cup Groups

\* Wait sites: a bell's, an object's seal site, and the inspect site of a pie.
Inspect == Actors \X Objects
SealSite(x) == <<x>>
Sites == Bells \cup {SealSite(x) : x \in Objects} \cup Inspect

\* A cell watches a bell, or the pie another actor got from the cell's actor.
BellCell(a, b) == [actor |-> a, pie |-> <<a, b>>, kind |-> "bell"]
PieCell(a, p) == [actor |-> a, pie |-> p, kind |-> "pie"]
Cell == {BellCell(a, b) : a \in Actors, b \in Bells} \cup {PieCell(a, p) : a \in Actors, p \in Inspect}

\* The keys a cell is registered under (typed_cell).
Keys(c) == LET x == c.pie[2] IN
           IF c.kind = "bell" THEN {x, c.pie} ELSE {<<c.actor, x>>, SealSite(x), c.pie}

Running(a) == at[a].do = "run" /\ due[a] = << >>

Idle == [do |-> "run", on |-> None]

\* accede and available
Usable(a, x) == <<a, x>> \in pies \ weak /\ x \in live

----------------------------------------------------------------------------
(* Polling *)

\* Cell::poll: the loss of a pie and the end of an object are events too.
CellReady(c) ==
    LET x == c.pie[2] IN
    IF c.kind = "bell"
    THEN ~Usable(c.actor, x) \/ x \in ring
    ELSE c.pie \notin pies \ weak \/ x \notin live \/ <<c.actor, x>> \notin pies

\* (at + 1) % count, with cells counted from 1 here.
After(i, n) == i % n

Answer(say, next) == [say |-> say, next |-> next]

\* AwaitWait::poll and ToleMeta::poll of group g by actor a, with the cells cs
\* and the cursor from: the first ready own cell, round robin.
Poll(a, g, cs, from, open) ==
    LET n == Len(cs)
        place(i) == (((from % n) + i) % n) + 1
        own == {i \in 0 .. n - 1 : cs[place(i)].actor = a}
        ready == {i \in own : CellReady(cs[place(i)])}
        first == CHOOSE i \in ready : \A j \in ready : i <= j
    IN  IF <<a, g>> \notin pies \ weak \/ g \notin open THEN Answer("Err", from)
        ELSE IF n = 0 THEN Answer("Pending", from)
        ELSE IF own = {} THEN Answer("Err", from)
        ELSE IF ready = {} THEN Answer("Pending", from)
        ELSE Answer("Source", After(place(first), n))

\* rise and resume_await over the waiters of g: who queues up again (requeue),
\* and who goes on.
Settle(g, cs, open) ==
    FoldLeft(LAMBDA s, a :
                LET p == Poll(a, g, cs, s.cursor, open) IN
                IF p.say = "Pending"
                THEN [s EXCEPT !.line = Append(@, a)]
                ELSE [s EXCEPT !.cursor = p.next, !.gone = @ \cup {a}],
             [line |-> << >>, cursor |-> cursor[g], gone |-> {}],
             line[g])

\* The tail of every call on a wait site: woken resume, and the sites of the
\* groups in G are knocked (fan_out), with the cells cs, the forwards fw and the
\* beacons as the call left them and open the objects not sealed.
\* A group without waiters keeps a beacon; a waiter that queues up again clears
\* it, one that goes on takes the forward of its own pie away (unwatch).
Rise(woken, G, cs, fw, beacons, open) ==
    LET R == [g \in G |-> Settle(g, cs[g], open)]
        gone == UNION {R[g].gone : g \in G}
    IN  /\ line' = [g \in Groups |-> IF g \in G THEN R[g].line ELSE line[g]]
        /\ cursor' = [g \in Groups |-> IF g \in G THEN R[g].cursor ELSE cursor[g]]
        /\ beacon' = (beacons \cup {g \in G \cap open : line[g] = << >>})
                         \ {g \in G : R[g].line # << >> \/ g \notin open}
        /\ at' = [a \in Actors |-> IF a \in gone \cup woken THEN Idle ELSE at[a]]
        /\ fwd' = [k \in Sites |-> fw[k] \ {g \in G : \E a \in gone : k = <<a, g>>}]

----------------------------------------------------------------------------
Init ==
    /\ live = Objects /\ ring = {}
    /\ cells = [g \in Groups |-> << >>]
    /\ cursor = [g \in Groups |-> 0]
    /\ pies = Inspect /\ weak = {}
    /\ fwd = [k \in Sites |-> {}]
    /\ line = [g \in Groups |-> << >>]
    /\ seat = [b \in Bells |-> << >>]
    /\ beacon = {}
    /\ at = [a \in Actors |-> Idle]
    /\ due = [a \in Actors |-> << >>]

Owe(a, calls) == due' = [due EXCEPT ![a] = calls]

Call(c, k) == [call |-> c, key |-> k]

(* Bells *)

\* nole::ring up to the wake.
Ring(a, b) ==
    /\ Running(a) /\ Usable(a, b) /\ b \notin ring
    /\ ring' = ring \cup {b}
    /\ Owe(a, <<Call("wake", b)>>)
    /\ UNCHANGED <<live, cells, cursor, pies, weak, fwd, line, seat, beacon, at>>

\* nole::hush
Hush(a, b) ==
    /\ Running(a) /\ Usable(a, b) /\ b \in ring
    /\ ring' = ring \ {b}
    /\ UNCHANGED <<live, cells, cursor, pies, weak, fwd, line, seat, beacon, at, due>>

\* nole::seal up to the wipes of its two sites.
Seal(a, b) ==
    /\ Running(a) /\ a = Owner[b] /\ Usable(a, b)
    /\ live' = live \ {b}
    /\ Owe(a, <<Call("wipe", SealSite(b)), Call("wipe", b)>>)
    /\ UNCHANGED <<ring, cells, cursor, pies, weak, fwd, line, seat, beacon, at>>

\* nole::wait, the look at alive and ring.
BellLook(a, b) ==
    /\ Running(a) /\ Usable(a, b) /\ b \notin ring
    /\ at' = [at EXCEPT ![a] = [do |-> "look", on |-> b]]
    /\ UNCHANGED <<live, ring, cells, cursor, pies, weak, fwd, line, seat, beacon, due>>

\* messenger::wait: a beacon ends it at once.
BellBlockMinding(a, beacons) ==
    /\ at[a].do = "look"
    /\ LET b == at[a].on IN
       IF b \in beacons
       THEN beacon' = beacon \ {b} /\ at' = [at EXCEPT ![a] = Idle] /\ UNCHANGED seat
       ELSE /\ at' = [at EXCEPT ![a].do = "seated"]
            /\ seat' = [seat EXCEPT ![b] = Append(@, a)]
            /\ UNCHANGED beacon
    /\ UNCHANGED <<live, ring, cells, cursor, pies, weak, fwd, line, due>>

BellBlock(a) == BellBlockMinding(a, beacon)

----------------------------------------------------------------------------
(* The calls owed *)

Due(a, call) == due[a] # << >> /\ Head(due[a]).call = call

Done(a) == due' = [due EXCEPT ![a] = Tail(@)]

Waiters(k) == IF k \in Bells THEN seat[k] ELSE << >>

\* messenger::wake of a bell: one waiter or the beacon, then the forwards.
Wake(a) ==
    /\ Due(a, "wake")
    /\ LET b == Head(due[a]).key
           woken == IF seat[b] = << >> THEN {} ELSE {Head(seat[b])}
       IN  /\ seat' = [seat EXCEPT ![b] = IF @ = << >> THEN @ ELSE Tail(@)]
           /\ Rise(woken, fwd[b], cells, fwd,
                   IF woken = {} THEN beacon \cup {b} ELSE beacon, live)
    /\ Done(a)
    /\ UNCHANGED <<live, ring, cells, pies, weak>>

\* messenger::wipe: the site goes, its groups are told, its waiters rise.
Wipe(a) ==
    /\ Due(a, "wipe")
    /\ LET k == Head(due[a]).key
       IN  /\ seat' = [b \in Bells |-> IF b = k THEN << >> ELSE seat[b]]
           /\ Rise(ToSet(Waiters(k)), fwd[k], cells, [fwd EXCEPT ![k] = {}], beacon \ {k}, live)
    /\ Done(a)
    /\ UNCHANGED <<live, ring, cells, pies, weak>>

\* messenger::signal of an inspect site (pend::notify): no beacon is left there.
Signal(a) ==
    /\ Due(a, "signal")
    /\ Rise({}, fwd[Head(due[a]).key], cells, fwd, beacon, live)
    /\ Done(a)
    /\ UNCHANGED <<live, ring, cells, pies, weak, seat>>

----------------------------------------------------------------------------
(* Pies *)

\* pend::release and revoke: the pie and those granted from it go; then every
\* removed pie's holder and its lord are notified.
Drop(a, o, x) ==
    /\ Running(a) /\ a \in {o, Owner[x]} /\ <<o, x>> \in pies
    /\ LET gone == IF o = Owner[x] THEN {p \in pies : p[2] = x} ELSE {<<o, x>>}
           told == gone \cup {<<Owner[x], x>>}
       IN  /\ pies' = pies \ gone /\ weak' = weak \ gone
           /\ Owe(a, [i \in DOMAIN SetToSeq(told) |-> Call("signal", SetToSeq(told)[i])])
    /\ UNCHANGED <<live, ring, cells, cursor, fwd, line, seat, beacon, at>>

\* pend::reduce: the holder alone is notified.
Narrow(a, x) ==
    /\ Running(a) /\ <<a, x>> \in pies \ weak /\ x \in live
    /\ weak' = weak \cup {<<a, x>>}
    /\ Owe(a, <<Call("signal", <<a, x>>)>>)
    /\ UNCHANGED <<live, ring, cells, cursor, pies, fwd, line, seat, beacon, at>>

----------------------------------------------------------------------------
(* Groups *)

Covered(cs, k) == \E i \in DOMAIN cs : k \in Keys(cs[i])

\* The keys of c no other cell of the group has forwarded.
Fresh(g, c) == {k \in Keys(c) : ~Covered(cells[g], k)}

\* typed_cell: what a may attach.
Offers(a) ==
    {BellCell(a, b) : b \in {y \in Bells : Usable(a, y)}}
        \cup {PieCell(a, p) : p \in {q \in Watched \cap (pies \ weak) :
                 /\ q[1] # a /\ a = Owner[q[2]] /\ q[2] \in live /\ <<a, q[2]>> \in pies}}

\* Fwd::attach
Roomy(g, k) == g \in fwd[k] \/ Cardinality(fwd[k]) < FwdMax

\* attach up to the forwards: a cell not yet in a group that has room for it.
Attaching(a, g, c) ==
    /\ Running(a) /\ Usable(a, g) /\ c \in Offers(a)
    /\ c \notin ToSet(cells[g]) /\ Len(cells[g]) < MaxCells

AttachUnder(a, g, c, keys) ==
    /\ Attaching(a, g, c)
    /\ \A k \in keys : Roomy(g, k)
    /\ LET cs == [cells EXCEPT ![g] = Append(@, c)]
       IN  /\ cells' = cs
           /\ Rise({}, {g}, cs, [k \in Sites |-> IF k \in keys THEN fwd[k] \cup {g} ELSE fwd[k]],
                   beacon, live)
    /\ UNCHANGED <<live, ring, pies, weak, seat, due>>

Attach(a, g, c) == AttachUnder(a, g, c, Fresh(g, c))

\* A site is full or cannot be allocated: what was forwarded is taken back.
AttachFail(a, g, c) ==
    /\ Attaching(a, g, c)
    /\ \E k \in Fresh(g, c) : ~Roomy(g, k) \/ (MayFail /\ fwd[k] = {})
    /\ UNCHANGED <<live, ring, fwd, cells, cursor, pies, weak, line, seat, beacon, at, due>>

\* detach_where: the forwards no remaining cell covers go with the cell.
Detach(a, g, c) ==
    /\ Running(a) /\ Usable(a, g) /\ c.actor = a
    /\ LET cs == [cells EXCEPT ![g] = SelectSeq(@, LAMBDA x : x # c)]
       IN  /\ c \in ToSet(cells[g])
           /\ cells' = cs
           /\ Rise({}, {g}, cs,
                   [k \in Sites |-> IF k \in Keys(c) /\ ~Covered(cs[g], k) THEN fwd[k] \ {g} ELSE fwd[k]],
                   beacon, live)
    /\ UNCHANGED <<live, ring, pies, weak, seat, due>>

\* tole::seal, under the commit lock throughout (clear): the seal site's groups
\* hear of it, the cells go, and all waiters leave.
SealGroup(a, g) ==
    /\ Running(a) /\ a = Owner[g] /\ Usable(a, g)
    /\ live' = live \ {g}
    /\ LET cs == [cells EXCEPT ![g] = << >>]
           told == fwd[SealSite(g)]
       IN  /\ cells' = cs
           /\ Rise({}, told \cup {g}, cs,
                   [k \in Sites |-> IF k = SealSite(g) THEN {}
                                    ELSE IF Covered(cells[g], k) THEN fwd[k] \ {g} ELSE fwd[k]],
                   beacon, live \ {g})
    /\ UNCHANGED <<ring, pies, weak, seat, due>>

\* mail_await, one pass of its loop: poll, then answer, sleep or eat a beacon.
Await(a, g) ==
    /\ (Running(a) /\ Usable(a, g)) \/ at[a] = [do |-> "again", on |-> g]
    /\ LET p == Poll(a, g, cells[g], cursor[g], live)
       IN  IF p.say # "Pending"
           THEN /\ at' = [at EXCEPT ![a] = Idle]
                /\ cursor' = [cursor EXCEPT ![g] = p.next]
                /\ fwd' = [fwd EXCEPT ![<<a, g>>] = @ \ {g}]
                /\ UNCHANGED <<line, beacon>>
           ELSE /\ Roomy(g, <<a, g>>)
                /\ fwd' = [fwd EXCEPT ![<<a, g>>] = @ \cup {g}]
                /\ beacon' = beacon \ {g}
                /\ IF g \in beacon
                   THEN at' = [at EXCEPT ![a] = [do |-> "again", on |-> g]] /\ UNCHANGED line
                   ELSE /\ at' = [at EXCEPT ![a] = [do |-> "asleep", on |-> g]]
                        /\ line' = [line EXCEPT ![g] = Append(@, a)]
                /\ UNCHANGED cursor
    /\ UNCHANGED <<live, ring, cells, pies, weak, seat, due>>

\* mail_await of no time at all that finds nothing.
Peek(a, g) ==
    /\ Running(a) /\ Usable(a, g) /\ a \in Bounded
    /\ Poll(a, g, cells[g], cursor[g], live).say = "Pending"
    /\ fwd' = [fwd EXCEPT ![<<a, g>>] = @ \ {g}]
    /\ UNCHANGED <<live, ring, cells, cursor, pies, weak, line, seat, beacon, at, due>>

\* A waiting task leaves its site, and a group's also the watch on its pie.
LeaveUnwatching(a, unwatched) ==
    /\ at[a].do \in {"asleep", "seated"}
    /\ IF at[a].do = "asleep"
       THEN /\ line' = [line EXCEPT ![at[a].on] = SelectSeq(@, LAMBDA x : x # a)]
            /\ fwd' = [fwd EXCEPT ![<<a, at[a].on>>] = @ \ unwatched]
            /\ UNCHANGED seat
       ELSE /\ seat' = [seat EXCEPT ![at[a].on] = SelectSeq(@, LAMBDA x : x # a)]
            /\ UNCHANGED <<line, fwd>>

\* redeem of a deadline: a group is polled a last time.
Timeout(a) ==
    /\ a \in Bounded
    /\ LeaveUnwatching(a, {at[a].on})
    /\ at' = [at EXCEPT ![a] = Idle]
    /\ IF at[a].do = "asleep"
       THEN LET p == Poll(a, at[a].on, cells[at[a].on], cursor[at[a].on], live)
            IN  cursor' = [cursor EXCEPT ![at[a].on] = p.next]
       ELSE UNCHANGED cursor
    /\ UNCHANGED <<live, ring, cells, pies, weak, beacon, due>>

SlayUnwatching(a, unwatched) ==
    /\ LeaveUnwatching(a, unwatched)
    /\ at' = [at EXCEPT ![a] = [do |-> "dead", on |-> None]]
    /\ UNCHANGED <<live, ring, cells, cursor, pies, weak, beacon, due>>

\* suspend of a waiting task: pop_waiter, and unwatch for a group.
Slay(a) == SlayUnwatching(a, {at[a].on})

----------------------------------------------------------------------------
Use(a) ==
    \/ \E b \in Bells : Ring(a, b) \/ Hush(a, b) \/ Seal(a, b) \/ BellLook(a, b)
    \/ \E o \in Actors, x \in Objects : Drop(a, o, x)
    \/ \E x \in Objects : Narrow(a, x)
    \/ \E g \in Groups, c \in Cell : Attach(a, g, c) \/ AttachFail(a, g, c) \/ Detach(a, g, c)
    \/ \E g \in Groups : SealGroup(a, g) \/ Peek(a, g)
    \/ Slay(a) \/ Timeout(a)

Oblige(a) == Wake(a) \/ Wipe(a) \/ Signal(a) \/ BellBlock(a)

Next == \E a \in Actors : Use(a) \/ Oblige(a) \/ \E g \in Groups : Await(a, g)

Spec == Init /\ [][Next]_vars

----------------------------------------------------------------------------
(* Properties *)

\* Every variable keeps its type.
TypeOK ==
    /\ live \subseteq Objects /\ ring \subseteq Bells
    /\ \A g \in Groups : ToSet(cells[g]) \subseteq Cell /\ cursor[g] \in 0 .. MaxCells - 1
    /\ weak \subseteq pies /\ pies \subseteq Inspect
    /\ fwd \in [Sites -> SUBSET Groups]
    /\ \A g \in Groups : ToSet(line[g]) \subseteq Actors
    /\ \A b \in Bells : ToSet(seat[b]) \subseteq Actors
    /\ beacon \subseteq Objects
    /\ \A a \in Actors : at[a].do \in {"run", "look", "seated", "asleep", "again", "dead"}

\* A cell of a live group is never deaf: while what it watches lives, every site
\* it depends on forwards to the group, however cells that share a key come and go.
Backed ==
    \A g \in Groups \cap live : \A i \in DOMAIN cells[g] :
        cells[g][i].pie[2] \in live => \A k \in Keys(cells[g][i]) : g \in fwd[k]

\* No forward outlives its reason, a cell that covers the key or a task that
\* waits on the group behind this very pie: sites have room for few groups.
NoStrayForward ==
    \A k \in Sites : \A g \in fwd[k] :
        \/ g \in live /\ Covered(cells[g], k)
        \/ \E a \in Actors : k = <<a, g>> /\ at[a].do \in {"asleep", "again"} /\ at[a].on = g

\* The groups that a call a still owes will knock.
Promised(a) == UNION {fwd[due[a][i].key] : i \in DOMAIN due[a]}

\* Nobody sleeps on a group that has something to say to it (an event of an own
\* cell, the loss of the pie, the end of the group) unless the knock is on its way.
GroupHeard ==
    \A a \in Actors : at[a].do = "asleep" =>
        LET g == at[a].on IN
        \/ Poll(a, g, cells[g], cursor[g], live).say = "Pending"
        \/ \E x \in Actors : g \in Promised(x)

\* Nobody is seated at a ringing bell unless the wake is on its way: the beacon
\* covers a ring between the look and the block.
RingHeard ==
    \A b \in Bells \cap ring \cap live : Len(seat[b]) = 1 =>
        \E x \in Actors : Due(x, "wake") /\ Head(due[x]).key = b

=============================================================================
