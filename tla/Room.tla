------------------------------- MODULE Room -------------------------------
(***************************************************************************)
(* The "room" of the kernel: how a task moves between the hart that runs   *)
(* it, the ready queues, the team's holding pen, the wait sites and the    *)
(* grave.  kernel/src/core/work/room (conductor, scheduler, messenger)     *)
(* and the part of kernel/src/core/work/unit it drives.                    *)
(*                                                                         *)
(* Every action is one section under the global commit lock                *)
(* (work/commit.rs); code that runs with the lock released between two     *)
(* sections is two actions, joined by the program counter pc of the hart   *)
(* or by the rite of the dying task.                                       *)
(*                                                                         *)
(* The queues are sets: which element a pop returns is left open, so the   *)
(* FIFO order of the code is one of the orders allowed here.               *)
(***************************************************************************)
EXTENDS Integers, Sequences, FiniteSets

CONSTANTS
  Task, Hart, Team,
  Slot,       \* plain wait keys: Space, View, Hole, Nole, Pies, Alarm ...
  Ticket,     \* the numbers that name waits
  None,
  Root,       \* the task the boot code publishes and releases
  TeamOf,     \* the team a task is published into
  Above,      \* a team and its ancestors
  Sire        \* the task a team is built under; None for the boot team

Key == Slot \cup Task \cup Team

Under(T) == {U \in Team : T \in Above[U]}

ASSUME TreeAssumption ==
  /\ TeamOf \in [Task -> Team]
  /\ Above \in [Team -> SUBSET Team]
  /\ Sire \in [Team -> Task \cup {None}]
  /\ \A T \in Team : T \in Above[T]
  /\ \A T \in Team : \A U \in Above[T] : Above[U] \subseteq Above[T]
  /\ \A T \in Team : Sire[T] # None =>
        /\ Above[T] = {T} \cup Above[TeamOf[Sire[T]]]
        /\ T \notin Above[TeamOf[Sire[T]]]

ASSUME NameAssumption ==
  /\ Root \in Task
  /\ Ticket \subseteq Nat
  /\ None \notin Task \cup Hart \cup Team \cup Slot \cup Ticket
  /\ Slot \cap Task = {} /\ Slot \cap Team = {} /\ Task \cap Team = {}

VARIABLES
  axis, hart, paused, wait, cause,     \* TaskState of each task
  running, starved, held,              \* the conductors' and teams' containers
  chain, pend, timers,                 \* wait sites; holders with deadlines
  rite, reaper, at, owed, todo, tally, \* death: progress, who does it, the rest
  built, phase, heir,                  \* teams: TeamState, Task::heir
  pc, call                             \* what each hart is in the middle of

taskVars == <<axis, hart, paused, wait, cause>>
roomVars == <<running, starved, held>>
siteVars == <<chain, pend, timers>>
reapVars == <<rite, reaper, at, owed, todo, tally>>
teamVars == <<built, phase, heir>>
hartVars == <<pc, call>>
vars == <<taskVars, roomVars, siteVars, reapVars, teamVars, hartVars>>

Axis == {"Unborn", "Held", "Ready", "OnHart", "Waiting", "Parked", "Doomed",
         "Reaped"}
Cause == {"None", "Reap", "Slay", "Cascade"}
Rite == {"none", "hooks", "call", "husk", "dig", "gone"}
Phase == {"Live", "Paused", "Doomed", "Ousted"}
NoWait == [key |-> None, ticket |-> None, join |-> FALSE]
NoCall == [key |-> None, timed |-> FALSE]
Timer == [task : Task, key : Key, ticket : Ticket]

TaskOK ==
  /\ axis \in [Task -> Axis]
  /\ hart \in [Task -> Hart \cup {None}]
  /\ paused \in [Task -> BOOLEAN]
  /\ wait \in [Task -> [key : Key \cup {None}, ticket : Ticket \cup {None},
                        join : BOOLEAN]]
  /\ cause \in [Task -> Cause]

RoomOK ==
  /\ running \in [Hart -> Task \cup {None}]
  /\ starved \in [Hart -> SUBSET Task]
  /\ held \subseteq Task

SiteOK ==
  /\ chain \in [Key -> SUBSET Task]
  /\ pend \subseteq Slot
  /\ timers \subseteq Timer

ReapOK ==
  /\ rite \in [Task -> Rite]
  /\ reaper \in [Task -> Hart \cup {None}]
  /\ at \in [Task -> Nat]
  /\ owed \in [Task -> SUBSET (Task \cup Team)]
  /\ todo \in [Hart -> SUBSET (Task \X Cause)]
  /\ tally \in [pushed : Nat, exited : Nat]

TeamOK ==
  /\ built \in [Team -> {"None", "Constructing", "Ready"}]
  /\ phase \in [Team -> Phase]
  /\ heir \in [Task -> Seq(Team)]

HartOK ==
  /\ pc \in [Hart -> {"user", "block", "quit", "exit", "run", "next", "idle"}]
  /\ call \in [Hart -> [key : Slot \cup {None}, timed : BOOLEAN]]

\* Every variable has the type of the field it models.
TypeOK == TaskOK /\ RoomOK /\ SiteOK /\ ReapOK /\ TeamOK /\ HartOK

-----------------------------------------------------------------------------
(* What the code asks of a task or a team.                                 *)

Dead(t) == axis[t] \in {"Doomed", "Reaped"}

TeamPaused(T) == \E U \in Above[T] : phase[U] = "Paused"

Closed(T) == \E U \in Above[T] : phase[U] \in {"Doomed", "Ousted"}

\* The two reasons for which a conductor does not run a task.
Stopped(t) == paused[t] \/ TeamPaused(TeamOf[t])

Members(T) == {t \in Task : TeamOf[t] \in Under(T) /\ axis[t] # "Unborn"}

AllReaped(T) == \A t \in Members(T) : axis[t] = "Reaped"

Constructing(T) == built[T] = "Constructing" /\ phase[T] \in {"Live", "Paused"}

\* The tasks below t: those that are to die when t dies.
Kin(t) == UNION {Members(T) : T \in {U \in Team : Sire[U] = t}}

\* What JoinWait::poll answers without receive: Reaped, Complete or Pending.
JoinDone(k) ==
  IF k \in Task THEN axis[k] = "Reaped"
                ELSE ~Constructing(k) /\ AllReaped(k)

\* A hart whose task is in user code: every trap starts from here.
OnDuty(h) ==
  /\ pc[h] = "user"
  /\ todo[h] = {}
  /\ \A t \in Task : reaper[t] # h

\* Task::clan and the peers of the caller: whom a task may act on.
InClan(h, T) == T \in Under(TeamOf[running[h]]) /\ built[T] # "None"
Kindred(h, t) == axis[t] # "Unborn" /\ InClan(h, TeamOf[t])
OtherTeam(h, T) == InClan(h, T) /\ T # TeamOf[running[h]] /\ phase[T] # "Ousted"

-----------------------------------------------------------------------------
(* Taking from a ready queue, and putting a task down.                     *)

Queued == UNION {starved[q] : q \in Hart}

\* MUTANT of Pop: the head is taken whether it is stopped or not.
PopAny(Q, P, x) == P = {} /\ (x \in Q \/ (x = None /\ Q = {}))

\* starved_pop on queue Q: stopped heads P are parked until x is found.
Pop(Q, P, x) ==
  /\ P \subseteq {t \in Q : Stopped(t)}
  /\ \/ x \in Q /\ ~Stopped(x)
     \/ x = None /\ P = Q

\* TaskState::park: where a stopped task is left.
ParkAxis(t) == IF paused[t] THEN "Ready" ELSE "Parked"

\* TaskState::rise and launch: paused tasks go to the pen, others to a queue.
Launch(Q, S, to) ==
  [h \in Hart |-> Q[h] \cup {t \in S : ~paused[t] /\ to[t] = h}]

Penned(S) == {t \in S : paused[t]}

\* messenger::rise for the waiters S, already taken off their chains.
Rise(S, to) ==
  /\ axis' = [t \in Task |-> IF t \in S THEN "Ready" ELSE axis[t]]
  /\ wait' = [t \in Task |-> IF t \in S THEN NoWait ELSE wait[t]]
  /\ starved' = Launch(starved, S, to)
  /\ held' = held \cup Penned(S)
  /\ chain' = [k \in Key |-> chain[k] \ S]
  /\ UNCHANGED <<hart, paused, cause, running>>

\* MUTANT of Void: the deadline of a wait that has ended stays.
VoidNothing(S) == timers

\* holder::void of the tickets of S.
Void(S) == {m \in timers : \A t \in S : m.ticket # wait[t].ticket}

\* Joins that poll Pending when their chain is taken are queued again: the
\* voided ticket and the fresh one with the same deadline cancel out.
Requeued(k) == {t \in chain[k] : wait[t].join /\ ~JoinDone(k)}

\* Take the whole chain of k.  A join that polls Pending may still return:
\* its deadline has passed, or requeue ran out of memory.
Release(k) ==
  \E R \in SUBSET Requeued(k) :
    \E to \in [chain[k] \ R -> Hart] :
      /\ Rise(chain[k] \ R, to)
      /\ timers' = Void(chain[k] \ R)

\* Ticket::next_id counts up; here the least number that names nothing now.
TicketFree(n) ==
  /\ \A t \in Task : wait[t].ticket # n
  /\ \A m \in timers : m.ticket # n

NextTicket(n) == TicketFree(n) /\ \A l \in Ticket : TicketFree(l) => n <= l

-----------------------------------------------------------------------------
(* Boot.                                                                   *)

Init ==
  /\ axis = [t \in Task |-> IF t = Root THEN "Ready" ELSE "Unborn"]
  /\ hart = [t \in Task |-> None]
  /\ paused = [t \in Task |-> FALSE]
  /\ wait = [t \in Task |-> NoWait]
  /\ cause = [t \in Task |-> "None"]
  /\ running = [h \in Hart |-> None]
  /\ \E b \in Hart : starved = [h \in Hart |-> IF h = b THEN {Root} ELSE {}]
  /\ held = {}
  /\ chain = [k \in Key |-> {}]
  /\ pend = {}
  /\ timers = {}
  /\ rite = [t \in Task |-> "none"]
  /\ reaper = [t \in Task |-> None]
  /\ at = [t \in Task |-> 0]
  /\ owed = [t \in Task |-> {}]
  /\ todo = [h \in Hart |-> {}]
  /\ tally = [pushed |-> 1, exited |-> 0]
  /\ built = [T \in Team |-> IF T = TeamOf[Root] THEN "Ready" ELSE "None"]
  /\ phase = [T \in Team |-> "Live"]
  /\ heir = [t \in Task |-> <<>>]
  /\ pc = [h \in Hart |-> "idle"]
  /\ call = [h \in Hart |-> NoCall]

-----------------------------------------------------------------------------
(* Teams and their tasks come into being.                                  *)

\* Unit::Build: a team under a live task of an open team, still constructing.
Build(h, T) ==
  /\ OnDuty(h)
  /\ built[T] = "None"
  /\ Sire[T] # None
  /\ Kindred(h, Sire[T])
  /\ ~Dead(Sire[T]) /\ ~Closed(TeamOf[Sire[T]])
  /\ built' = [built EXCEPT ![T] = "Constructing"]
  /\ heir' = [heir EXCEPT ![Sire[T]] = Append(@, T)]
  /\ UNCHANGED <<taskVars, roomVars, siteVars, reapVars, phase, hartVars>>

\* MUTANT of Spawn: publish does not look again whether the team is closed.
SpawnUnchecked(h, t) ==
  /\ OnDuty(h)
  /\ axis[t] = "Unborn"
  /\ InClan(h, TeamOf[t])
  /\ axis' = [axis EXCEPT ![t] = "Held"]
  /\ held' = held \cup {t}
  /\ tally' = [tally EXCEPT !.pushed = @ + 1]
  /\ built' = [built EXCEPT ![TeamOf[t]] = "Ready"]
  /\ UNCHANGED <<hart, paused, wait, cause, running, starved, siteVars,
                 rite, reaper, at, owed, todo, phase, heir, hartVars>>

\* Unit::Spawn: the task is published held; the first one of a team also
\* ends its construction, in the same commit.
Spawn(h, t) ==
  /\ OnDuty(h)
  /\ axis[t] = "Unborn"
  /\ InClan(h, TeamOf[t])
  /\ ~Closed(TeamOf[t])
  /\ axis' = [axis EXCEPT ![t] = "Held"]
  /\ held' = held \cup {t}
  /\ tally' = [tally EXCEPT !.pushed = @ + 1]
  /\ built' = [built EXCEPT ![TeamOf[t]] = "Ready"]
  /\ UNCHANGED <<hart, paused, wait, cause, running, starved, siteVars,
                 rite, reaper, at, owed, todo, phase, heir, hartVars>>

-----------------------------------------------------------------------------
(* Pausing and resuming.                                                   *)

\* Task::embark: a held task is released; a pause is lifted.
Embark(h, t, to) ==
  /\ OnDuty(h)
  /\ Kindred(h, t)
  /\ \/ /\ axis[t] = "Held" \/ (axis[t] = "Ready" /\ paused[t])
        /\ axis' = [axis EXCEPT ![t] = "Ready"]
        /\ held' = held \ {t}
        /\ starved' = [starved EXCEPT ![to] = @ \cup {t}]
     \/ /\ axis[t] = "Waiting" /\ paused[t]
        /\ UNCHANGED <<axis, held, starved>>
  /\ paused' = [paused EXCEPT ![t] = FALSE]
  /\ UNCHANGED <<hart, wait, cause, running, siteVars, reapVars, teamVars,
                 hartVars>>

\* MUTANT of Debark: the task is penned but not taken off its ready queue.
DebarkStaysQueued(h, t) ==
  /\ OnDuty(h)
  /\ Kindred(h, t)
  /\ ~Dead(t) /\ ~paused[t]
  /\ paused' = [paused EXCEPT ![t] = TRUE]
  /\ held' = IF axis[t] = "Ready" THEN held \cup {t} ELSE held
  /\ axis' = [axis EXCEPT ![t] = IF @ = "Parked" THEN "Ready" ELSE @]
  /\ pc' = [pc EXCEPT ![h] = IF t = running[h] THEN "run" ELSE @]
  /\ UNCHANGED <<hart, wait, cause, running, starved, siteVars, reapVars,
                 teamVars, call>>

\* Task::debark: the pause is recorded; a queued task leaves its queue, one
\* on a hart goes on until that hart traps (a caller pausing itself does so
\* at once).
Debark(h, t) ==
  /\ OnDuty(h)
  /\ Kindred(h, t)
  /\ ~Dead(t) /\ ~paused[t]
  /\ paused' = [paused EXCEPT ![t] = TRUE]
  /\ IF axis[t] = "Ready"
     THEN /\ \E q \in Hart : t \in starved[q]
          /\ starved' = [q \in Hart |-> starved[q] \ {t}]
          /\ held' = held \cup {t}
     ELSE UNCHANGED <<starved, held>>
  /\ axis' = [axis EXCEPT ![t] = IF @ = "Parked" THEN "Ready" ELSE @]
  /\ pc' = [pc EXCEPT ![h] = IF t = running[h] THEN "run" ELSE @]
  /\ UNCHANGED <<hart, wait, cause, running, siteVars, reapVars, teamVars, call>>

\* Team::debark: running members stop when their harts trap.
TeamDebark(h, T) ==
  /\ OnDuty(h)
  /\ OtherTeam(h, T)
  /\ phase[T] = "Live"
  /\ phase' = [phase EXCEPT ![T] = "Paused"]
  /\ UNCHANGED <<taskVars, roomVars, siteVars, reapVars, built, heir, hartVars>>

\* MUTANT of Unparked: only the members of the team itself, not of the subtree.
UnparkedOwn(T) ==
  {t \in Members(T) : /\ axis[t] = "Parked" /\ TeamOf[t] = T
                     /\ \A U \in Above[TeamOf[t]] \ {T} : phase[U] # "Paused"}

\* Team::embark: parked members whose whole line of teams now runs go back
\* to the queues.
Unparked(T) ==
  {t \in Members(T) : /\ axis[t] = "Parked"
                     /\ \A U \in Above[TeamOf[t]] \ {T} : phase[U] # "Paused"}

\* MUTANT of TeamEmbark: a slain team is resumed like a paused one.
TeamEmbarkRevives(h, T) ==
  /\ OnDuty(h)
  /\ OtherTeam(h, T)
  /\ phase[T] \in {"Paused", "Doomed"}
  /\ phase' = [phase EXCEPT ![T] = "Live"]
  /\ UNCHANGED <<taskVars, roomVars, siteVars, reapVars, built, heir, hartVars>>

TeamEmbark(h, T) ==
  /\ OnDuty(h)
  /\ OtherTeam(h, T)
  /\ phase[T] = "Paused"
  /\ phase' = [phase EXCEPT ![T] = "Live"]
  /\ \E to \in [Unparked(T) -> Hart] :
       /\ axis' = [t \in Task |-> IF t \in Unparked(T) THEN "Ready" ELSE axis[t]]
       /\ paused' = [t \in Task |-> paused[t] /\ t \notin Unparked(T)]
       /\ starved' = [q \in Hart |->
                        starved[q] \cup {t \in Unparked(T) : to[t] = q}]
       /\ held' = held \ Unparked(T)
  /\ UNCHANGED <<hart, wait, cause, running, siteVars, reapVars, built, heir, hartVars>>

-----------------------------------------------------------------------------
(* The conductor: what a hart runs next.                                   *)

\* MUTANT of Seat: the hart returns to user code even with no task.
SeatUser(h, x) == pc' = [pc EXCEPT ![h] = "user"]

\* The hart goes on with the task it has, or with none.
Seat(h, x) ==
  pc' = [pc EXCEPT ![h] = IF x = None THEN "idle" ELSE "user"]

\* The states of the popped tasks: x on the hart h, the stopped ones parked.
SeatAxis(t, x, P) ==
  CASE t = x -> "OnHart"
    [] t \in P -> ParkAxis(t)
    [] OTHER -> axis[t]

SeatHart(h, x) == [t \in Task |-> IF t = x THEN h ELSE hart[t]]

\* dispatch: an idle hart takes from its own queue or, finding none there,
\* steals.  try_lock may miss a victim's queue, so stealing may find nothing.
Dispatch(h, P, x) ==
  /\ pc[h] = "idle"
  /\ P \subseteq {t \in Queued : Stopped(t)}
  /\ \/ Pop(starved[h], P, x) /\ x # None
     \/ /\ Pop(starved[h], P \cap starved[h], None)
        /\ \/ \E q \in Hart : x \in starved[q] /\ ~Stopped(x)
           \/ x = None /\ P # {}
  /\ axis' = [t \in Task |-> SeatAxis(t, x, P)]
  /\ hart' = SeatHart(h, x)
  /\ running' = [running EXCEPT ![h] = x]
  /\ starved' = [q \in Hart |-> starved[q] \ (P \cup {x})]
  /\ held' = held \cup P
  /\ Seat(h, x)
  /\ UNCHANGED <<paused, wait, cause, siteVars, reapVars, teamVars, call>>

\* rotate: the running task c to the queue, the next one from it.
Rotate(h, P, x) ==
  LET c == running[h]
      Q == starved[h] \cup {c}
  IN  /\ Pop(Q, P, x)
      /\ axis' = [t \in Task |-> IF t = c /\ t # x THEN "Ready"
                                                   ELSE SeatAxis(t, x, P)]
      /\ hart' = [t \in Task |-> IF t = c /\ t # x THEN None
                                                   ELSE SeatHart(h, x)[t]]
      /\ running' = [running EXCEPT ![h] = x]
      /\ starved' = [starved EXCEPT ![h] = Q \ (P \cup {x})]
      /\ held' = held \cup P
      /\ UNCHANGED <<paused, wait, cause, siteVars, reapVars, teamVars, call>>

\* The stopped running task is parked and the queue gives the next one.
ParkRunning(h, P, x) ==
  LET c == running[h]
  IN  /\ Pop(starved[h], P, x)
      /\ axis' = [t \in Task |-> SeatAxis(t, x, P \cup {c})]
      /\ hart' = [SeatHart(h, x) EXCEPT ![c] = None]
      /\ running' = [running EXCEPT ![h] = x]
      /\ starved' = [starved EXCEPT ![h] = @ \ (P \cup {x})]
      /\ held' = held \cup P \cup {c}
      /\ UNCHANGED <<paused, wait, cause, siteVars, reapVars, teamVars, call>>

\* Room::Starve: give up the rest of the turn.
Starve(h) ==
  /\ OnDuty(h)
  /\ \/ /\ axis[running[h]] = "Doomed"
        /\ pc' = [pc EXCEPT ![h] = "quit"]
        /\ UNCHANGED <<taskVars, roomVars, siteVars, reapVars, teamVars, call>>
     \/ \E P \in SUBSET starved[h], x \in starved[h] \cup {running[h], None} :
          /\ axis[running[h]] # "Doomed"
          /\ IF Stopped(running[h]) THEN ParkRunning(h, P, x)
             ELSE starved[h] # {} /\ Rotate(h, P, x)
          /\ Seat(h, x)

\* A timer or software interrupt in user code: the doomed quit, the others
\* go through run.
Trap(h) ==
  /\ OnDuty(h)
  /\ pc' = [pc EXCEPT ![h] = IF axis[running[h]] = "Doomed" THEN "quit" ELSE "run"]
  /\ UNCHANGED <<taskVars, roomVars, siteVars, reapVars, teamVars, call>>

\* The end of run: quit if the task that was seated has been doomed, park it
\* if it has been stopped, else keep it or give its turn to the queue (the
\* ticks that choose between the two are not modelled).
Advance(h) ==
  /\ \/ pc[h] = "next"
     \/ pc[h] = "run" /\ \A t \in Task : rite[t] # "husk" /\ reaper[t] # h
  /\ \/ /\ running[h] = None
        /\ pc' = [pc EXCEPT ![h] = "idle"]
        /\ UNCHANGED <<taskVars, roomVars, siteVars, reapVars, teamVars, call>>
     \/ /\ running[h] # None
        /\ axis[running[h]] = "Doomed"
        /\ pc' = [pc EXCEPT ![h] = "quit"]
        /\ UNCHANGED <<taskVars, roomVars, siteVars, reapVars, teamVars, call>>
     \/ /\ running[h] # None
        /\ axis[running[h]] # "Doomed" /\ ~Stopped(running[h])
        /\ pc' = [pc EXCEPT ![h] = "user"]
        /\ UNCHANGED <<taskVars, roomVars, siteVars, reapVars, teamVars, call>>
     \/ \E P \in SUBSET starved[h], x \in starved[h] \cup {running[h], None} :
          /\ running[h] # None
          /\ axis[running[h]] # "Doomed"
          /\ IF Stopped(running[h]) THEN ParkRunning(h, P, x)
             ELSE starved[h] # {} /\ Rotate(h, P, x)
          /\ Seat(h, x)

-----------------------------------------------------------------------------
(* Waiting.                                                                *)

\* The first half of block_with_call, outside the commit lock: a beacon left
\* by an earlier wake is taken and the call returns; else the hart goes on
\* to the commit section.
Wait(h, k, timed) ==
  /\ OnDuty(h)
  /\ k \in Slot
  /\ IF k \in pend
     THEN pend' = pend \ {k} /\ UNCHANGED hartVars
     ELSE /\ pc' = [pc EXCEPT ![h] = "block"]
          /\ call' = [call EXCEPT ![h] = [key |-> k, timed |-> timed]]
          /\ UNCHANGED pend
  /\ UNCHANGED <<taskVars, roomVars, chain, timers, reapVars, teamVars>>

\* swap: the running task leaves the hart, the queue gives the next one.
Swap(h, c, a, P, x) ==
  /\ Pop(starved[h], P, x)
  /\ axis' = [t \in Task |-> IF t = c THEN a ELSE SeatAxis(t, x, P)]
  /\ hart' = [SeatHart(h, x) EXCEPT ![c] = None]
  /\ running' = [running EXCEPT ![h] = x]

\* The commit section: publish the wait, then queue on the site.
Queue(h, k, timed, join, P, x, n) ==
  LET c == running[h]
  IN  /\ NextTicket(n)
      /\ Swap(h, c, "Waiting", P, x)
      /\ starved' = [starved EXCEPT ![h] = @ \ (P \cup {x})]
      /\ held' = held \cup P
      /\ wait' = [wait EXCEPT ![c] = [key |-> k, ticket |-> n, join |-> join]]
      /\ chain' = [chain EXCEPT ![k] = @ \cup {c}]
      /\ timers' = IF timed
                   THEN timers \cup {[task |-> c, key |-> k, ticket |-> n]}
                   ELSE timers
      /\ pc' = [pc EXCEPT ![h] = IF x = None THEN "run" ELSE "user"]
      /\ call' = [call EXCEPT ![h] = NoCall]
      /\ UNCHANGED <<paused, cause, pend, reapVars, teamVars>>

\* MUTANT of Block: the beacon is not looked at again under the lock.
BlockUnchecked(h) ==
  /\ pc[h] = "block"
  /\ axis[running[h]] # "Doomed"
  /\ \E P \in SUBSET starved[h], x \in starved[h] \cup {None}, n \in Ticket :
       Queue(h, call[h].key, call[h].timed, FALSE, P, x, n)

Block(h) ==
  /\ pc[h] = "block"
  /\ axis[running[h]] # "Doomed"
  /\ call[h].key \notin pend
  /\ \E P \in SUBSET starved[h], x \in starved[h] \cup {None}, n \in Ticket :
       Queue(h, call[h].key, call[h].timed, FALSE, P, x, n)

\* A wake came between the two halves: its beacon is taken, the task gives
\* up the hart and rises at once.
BlockBeacon(h, P, x, to) ==
  LET c == running[h]
  IN  /\ pc[h] = "block"
      /\ axis[c] # "Doomed"
      /\ call[h].key \in pend
      /\ pend' = pend \ {call[h].key}
      /\ Swap(h, c, "Ready", P, x)
      /\ starved' = Launch([starved EXCEPT ![h] = @ \ (P \cup {x})], {c},
                           [t \in {c} |-> to])
      /\ held' = held \cup P \cup Penned({c})
      /\ pc' = [pc EXCEPT ![h] = IF x = None THEN "run" ELSE "user"]
      /\ call' = [call EXCEPT ![h] = NoCall]
      /\ UNCHANGED <<paused, wait, cause, chain, timers, reapVars, teamVars>>

\* No memory for the site or the timer: the call fails (before the swap).
BlockFail(h) ==
  /\ pc[h] = "block"
  /\ pc' = [pc EXCEPT ![h] = IF axis[running[h]] = "Doomed" THEN "quit" ELSE "user"]
  /\ call' = [call EXCEPT ![h] = NoCall]
  /\ UNCHANGED <<taskVars, roomVars, siteVars, reapVars, teamVars>>

\* Unit::Join without receive: poll and block are one commit section.
Join(h, k, timed) ==
  /\ OnDuty(h)
  /\ \/ k \in Task /\ Kindred(h, k) /\ k # running[h]
     \/ k \in Team /\ InClan(h, k) /\ k # TeamOf[running[h]]
  /\ ~JoinDone(k)
  /\ IF axis[running[h]] = "Doomed"
     THEN /\ pc' = [pc EXCEPT ![h] = "quit"]
          /\ UNCHANGED <<taskVars, roomVars, siteVars, reapVars, teamVars, call>>
     ELSE \E P \in SUBSET starved[h], x \in starved[h] \cup {None}, n \in Ticket :
            Queue(h, k, timed, TRUE, P, x, n)

-----------------------------------------------------------------------------
(* Waking.  Wakes of plain keys come from tasks, from dying resources and  *)
(* from interrupts on any hart, so no actor is named.                      *)

\* wake: deliver to one waiter, or leave a beacon.
Wake(k) ==
  /\ \/ \E t \in chain[k], to \in Hart :
          /\ Rise({t}, [u \in {t} |-> to])
          /\ timers' = Void({t})
          /\ UNCHANGED pend
     \/ /\ chain[k] = {}
        /\ pend' = pend \cup {k}
        /\ UNCHANGED <<taskVars, roomVars, chain, timers>>
  /\ UNCHANGED <<reapVars, teamVars, hartVars>>

\* knock: release every waiter, or leave a beacon.
Knock(k) ==
  /\ Release(k)
  /\ pend' = IF chain[k] = {} THEN pend \cup {k} ELSE pend
  /\ UNCHANGED <<reapVars, teamVars, hartVars>>

\* wipe: release every waiter and forget the site.
Wipe(k) ==
  /\ Release(k)
  /\ pend' = pend \ {k}
  /\ UNCHANGED <<reapVars, teamVars, hartVars>>

\* redeem: the waits whose deadlines D are due return; a ticket whose task
\* no longer waits under it finds nobody.
Redeem(D) ==
  LET S == {t \in Task : \E m \in D : t \in chain[m.key]
                                     /\ wait[t].ticket = m.ticket}
  IN  /\ \E to \in [S -> Hart] : Rise(S, to)
      /\ timers' = timers \ D
      /\ UNCHANGED <<pend, reapVars, teamVars, hartVars>>

-----------------------------------------------------------------------------
(* Dying.                                                                  *)

\* TeamLife::doom on the subtree of T.
DoomPhase(T) ==
  [U \in Team |-> IF U \in Under(T) /\ built[U] # "None" /\ phase[U] # "Ousted"
                  THEN "Doomed" ELSE phase[U]]

\* Unit::Slay of a task; a caller that slays itself quits.
Slay(h, t) ==
  /\ OnDuty(h)
  /\ Kindred(h, t)
  /\ todo' = [todo EXCEPT ![h] = {<<t, "Slay">>}]
  /\ pc' = [pc EXCEPT ![h] = IF t = running[h] THEN "quit" ELSE @]
  /\ UNCHANGED <<taskVars, roomVars, siteVars, rite, reaper, at, owed, tally,
                 teamVars, call>>

\* Unit::Slay of a team and Room::Doom: close the subtree, then cull it.
TeamSlay(h, T) ==
  /\ OnDuty(h)
  /\ OtherTeam(h, T) \/ ~AllReaped(T)
  /\ phase' = DoomPhase(T)
  /\ todo' = [todo EXCEPT ![h] = Members(T) \X {"Slay"}]
  /\ UNCHANGED <<taskVars, roomVars, siteVars, rite, reaper, at, owed, tally,
                 built, heir, hartVars>>

\* MUTANT of Suspend: the cause is recorded whether or not the task is dying.
SuspendAgain(h, t, c) ==
  /\ <<t, c>> \in todo[h]
  /\ \A u \in Task :
       reaper[u] = h => rite[u] = "hooks" /\ t \in Kin(u) /\ c = "Cascade"
  /\ todo' = [todo EXCEPT ![h] = @ \ {<<t, c>>}]
  /\ cause' = [cause EXCEPT ![t] = c]
  /\ paused' = [paused EXCEPT ![t] = FALSE]
  /\ axis' = [axis EXCEPT ![t] = IF Dead(t) THEN @ ELSE "Doomed"]
  /\ IF Dead(t) \/ axis[t] = "OnHart"
     THEN UNCHANGED <<wait, starved, held, chain, timers, rite, reaper, at>>
     ELSE /\ wait' = [wait EXCEPT ![t] = NoWait]
          /\ starved' = [q \in Hart |-> starved[q] \ {t}]
          /\ held' = held \ {t}
          /\ chain' = [k \in Key |-> chain[k] \ {t}]
          /\ timers' = Void({t})
          /\ rite' = [rite EXCEPT ![t] = "hooks"]
          /\ reaper' = [reaper EXCEPT ![t] = h]
          /\ at' = [at EXCEPT ![t] = 1]
  /\ UNCHANGED <<hart, running, pend, owed, tally, teamVars, hartVars>>

\* suspend: a task on a hart is only marked, any other is taken out of its
\* container and handed to reap on this hart, which finishes it, with the
\* culls its hooks start, before the cull at hand goes on.  The first commit
\* of reap finds the cause and the empty seat suspend left, and changes nothing.
Suspend(h, t, c) ==
  /\ <<t, c>> \in todo[h]
  /\ \A u \in Task :
       reaper[u] = h => rite[u] = "hooks" /\ t \in Kin(u) /\ c = "Cascade"
  /\ todo' = [todo EXCEPT ![h] = @ \ {<<t, c>>}]
  /\ IF Dead(t)
     THEN UNCHANGED <<taskVars, roomVars, siteVars, rite, reaper, at>>
     ELSE /\ axis' = [axis EXCEPT ![t] = "Doomed"]
          /\ paused' = [paused EXCEPT ![t] = FALSE]
          /\ cause' = [cause EXCEPT ![t] = c]
          /\ UNCHANGED <<hart, running, pend>>
          /\ IF axis[t] = "OnHart"
             THEN UNCHANGED <<wait, starved, held, chain, timers, rite, reaper, at>>
             ELSE /\ wait' = [wait EXCEPT ![t] = NoWait]
                  /\ starved' = [q \in Hart |-> starved[q] \ {t}]
                  /\ held' = held \ {t}
                  /\ chain' = [k \in Key |-> chain[k] \ {t}]
                  /\ timers' = Void({t})
                  /\ rite' = [rite EXCEPT ![t] = "hooks"]
                  /\ reaper' = [reaper EXCEPT ![t] = h]
                  /\ at' = [at EXCEPT ![t] = 1]
  /\ UNCHANGED <<owed, tally, teamVars, hartVars>>

\* Room::Reap, a fault, or a doomed task met at a trap: the first half of
\* quit gives the hart to the next task and dooms this one.
Quit(h, P, x) ==
  LET c == running[h]
  IN  /\ OnDuty(h) \/ (pc[h] = "quit" /\ todo[h] = {})
      /\ \A t \in Task : reaper[t] # h
      /\ Swap(h, c, "Doomed", P, x)
      /\ starved' = [starved EXCEPT ![h] = @ \ (P \cup {x})]
      /\ held' = held \cup P
      /\ paused' = [paused EXCEPT ![c] = FALSE]
      /\ cause' = [cause EXCEPT ![c] = IF @ = "None" THEN "Reap" ELSE @]
      /\ rite' = [rite EXCEPT ![c] = "hooks"]
      /\ reaper' = [reaper EXCEPT ![c] = h]
      /\ at' = [at EXCEPT ![c] = 1]
      /\ pc' = [pc EXCEPT ![h] = "exit"]
      /\ UNCHANGED <<wait, siteVars, owed, todo, tally, teamVars, call>>

\* No cull started by the hooks of t on its hart is still going on.
HooksQuiet(t) ==
  /\ \A u \in Kin(t) : <<u, "Cascade">> \notin todo[reaper[t]]
  /\ \A u \in Kin(t) : reaper[u] # reaper[t]

\* The hook messenger::doom: close and cull the teams built under t, by their
\* place in its heir list, one after the other and with no lock across them.
Cascade(t) ==
  /\ rite[t] = "hooks" /\ at[t] \in DOMAIN heir[t]
  /\ HooksQuiet(t)
  /\ at' = [at EXCEPT ![t] = @ + 1]
  /\ phase' = DoomPhase(heir[t][at[t]])
  /\ todo' = [todo EXCEPT ![reaper[t]] =
                @ \cup (Members(heir[t][at[t]]) \X {"Cascade"})]
  /\ UNCHANGED <<taskVars, roomVars, siteVars, rite, reaper, owed, tally, built,
                 heir, hartVars>>

\* MUTANT of Reaped: the joins on the teams above the task's own are not told.
ReapedTellsTeam(t) ==
  /\ rite[t] = "hooks" /\ at[t] \notin DOMAIN heir[t]
  /\ HooksQuiet(t)
  /\ axis' = [axis EXCEPT ![t] = "Reaped"]
  /\ rite' = [rite EXCEPT ![t] = "call"]
  /\ at' = [at EXCEPT ![t] = 0]
  /\ owed' = [owed EXCEPT ![t] = {t, TeamOf[t]}]
  /\ UNCHANGED <<hart, paused, wait, cause, roomVars, siteVars, reaper, todo,
                 tally, teamVars, hartVars>>

\* reap, second commit: Reaped.  The joins on the task and on every team
\* above it are still to be signalled.
Reaped(t) ==
  /\ rite[t] = "hooks" /\ at[t] \notin DOMAIN heir[t]
  /\ HooksQuiet(t)
  /\ axis' = [axis EXCEPT ![t] = "Reaped"]
  /\ rite' = [rite EXCEPT ![t] = "call"]
  /\ at' = [at EXCEPT ![t] = 0]
  /\ owed' = [owed EXCEPT ![t] = {t} \cup Above[TeamOf[t]]]
  /\ UNCHANGED <<hart, paused, wait, cause, roomVars, siteVars, reaper, todo,
                 tally, teamVars, hartVars>>

\* reap signals the task first, then TeamLife::notify climbs from its team.
Foremost(t, k) == k = t \/ (t \notin owed[t] /\ owed[t] \subseteq Above[k])

\* MUTANT of Signal: a knock, which leaves a beacon when nobody waits.
SignalKnocks(t, k) ==
  /\ rite[t] = "call" /\ k \in owed[t] /\ Foremost(t, k)
  /\ Release(k)
  /\ owed' = [owed EXCEPT ![t] = @ \ {k}]
  /\ pend' = IF chain[k] = {} THEN pend \cup {k} ELSE pend
  /\ UNCHANGED <<rite, reaper, at, todo, tally, teamVars, hartVars>>

\* signal: release every waiter of k, leave no beacon.
Signal(t, k) ==
  /\ rite[t] = "call" /\ k \in owed[t] /\ Foremost(t, k)
  /\ Release(k)
  /\ owed' = [owed EXCEPT ![t] = @ \ {k}]
  /\ UNCHANGED <<pend, rite, reaper, at, todo, tally, teamVars, hartVars>>

\* MUTANT of PushHusk: the death is counted here, before the burial.
PushHuskCounts(t) ==
  LET h == reaper[t]
  IN  /\ rite[t] = "call" /\ owed[t] = {}
      /\ rite' = [rite EXCEPT ![t] = "husk"]
      /\ reaper' = [reaper EXCEPT ![t] = None]
      /\ tally' = [tally EXCEPT !.exited = @ + 1]
      /\ pc' = [pc EXCEPT ![h] = IF @ = "exit" THEN "run" ELSE @]
      /\ UNCHANGED <<taskVars, roomVars, siteVars, at, owed, todo, teamVars, call>>

\* The last step of reap; a hart that was quitting goes on to run.
PushHusk(t) ==
  LET h == reaper[t]
  IN  /\ rite[t] = "call" /\ owed[t] = {}
      /\ rite' = [rite EXCEPT ![t] = "husk"]
      /\ reaper' = [reaper EXCEPT ![t] = None]
      /\ pc' = [pc EXCEPT ![h] =
                  IF @ = "exit" /\ \A u \in Task \ {t} : reaper[u] # h
                  THEN "run" ELSE @]
      /\ UNCHANGED <<taskVars, roomVars, siteVars, at, owed, todo, tally, teamVars,
                 call>>

-----------------------------------------------------------------------------
(* Burial, at the start of run.                                            *)

Dig(h, t) ==
  /\ pc[h] = "run"
  /\ rite[t] = "husk"
  /\ \A u \in Task : reaper[u] # h
  /\ rite' = [rite EXCEPT ![t] = "dig"]
  /\ reaper' = [reaper EXCEPT ![t] = h]
  /\ at' = [at EXCEPT ![t] = 1]
  /\ UNCHANGED <<taskVars, roomVars, siteVars, owed, todo, tally, teamVars, hartVars>>

\* Task::retire: the teams built under t, by their place in its heir list,
\* must be wholly reaped and are closed for good.
DigHeir(t) ==
  /\ rite[t] = "dig" /\ at[t] \in DOMAIN heir[t]
  /\ AllReaped(heir[t][at[t]])
  /\ at' = [at EXCEPT ![t] = @ + 1]
  /\ phase' = DoomPhase(heir[t][at[t]])
  /\ UNCHANGED <<taskVars, roomVars, siteVars, rite, reaper, owed, todo, tally,
                 built, heir, hartVars>>

\* retire refused (a descendant is not reaped yet, an operation or a
\* translation shoot-down is under way): the husk goes back, burial stops.
DigFail(t) ==
  /\ rite[t] = "dig"
  /\ rite' = [rite EXCEPT ![t] = "husk"]
  /\ reaper' = [reaper EXCEPT ![t] = None]
  /\ pc' = [pc EXCEPT ![reaper[t]] = "next"]
  /\ at' = [at EXCEPT ![t] = 0]
  /\ UNCHANGED <<taskVars, roomVars, siteVars, owed, todo, tally, teamVars, call>>

\* Teams nobody holds once t is dropped: their sire and their tasks are gone.
Dropped(t) ==
  {T \in Team : /\ built[T] # "None" /\ Sire[T] # None
                /\ Sire[T] = t \/ rite[Sire[T]] = "gone"
                /\ \A u \in Task : TeamOf[u] = T /\ axis[u] # "Unborn" =>
                                      u = t \/ rite[u] = "gone"}

\* The task is retired: its key is wiped, it is dropped and counted.
Bury(t) ==
  /\ rite[t] = "dig" /\ at[t] \notin DOMAIN heir[t]
  /\ Release(t)
  /\ phase' = [T \in Team |-> IF T \in Dropped(t) THEN "Ousted" ELSE phase[T]]
  /\ rite' = [rite EXCEPT ![t] = "gone"]
  /\ reaper' = [reaper EXCEPT ![t] = None]
  /\ tally' = [tally EXCEPT !.exited = @ + 1]
  /\ at' = [at EXCEPT ![t] = 0]
  /\ UNCHANGED <<pend, owed, todo, built, heir, hartVars>>

\* Task::oust: the heirs s with T, if it is one, taken out.
Without(s, T) ==
  IF \E i \in DOMAIN s : s[i] = T
  THEN LET i == CHOOSE j \in DOMAIN s : s[j] = T
       IN  SubSeq(s, 1, i - 1) \o SubSeq(s, i + 1, Len(s))
  ELSE s

\* Unit::Oust, first Team::retire: a team whose whole subtree is reaped is
\* closed.  What retire does after that may fail, and the team stays so.
Retire(h, T) ==
  /\ OnDuty(h)
  /\ OtherTeam(h, T)
  /\ AllReaped(T)
  /\ phase' = DoomPhase(T)
  /\ UNCHANGED <<taskVars, roomVars, siteVars, reapVars, built, heir, hartVars>>

\* The last section of Unit::Oust: the team is detached from its sire.
Oust(h, T) ==
  /\ OnDuty(h)
  /\ OtherTeam(h, T)
  /\ phase[T] = "Doomed" /\ AllReaped(T)
  /\ phase' = [phase EXCEPT ![T] = "Ousted"]
  /\ heir' = [t \in Task |-> IF t = Sire[T] THEN Without(heir[t], T) ELSE heir[t]]
  /\ UNCHANGED <<taskVars, roomVars, siteVars, reapVars, built, hartVars>>

-----------------------------------------------------------------------------

Next ==
  \/ \E h \in Hart, T \in Team :
       \/ Build(h, T) \/ TeamDebark(h, T) \/ TeamEmbark(h, T)
       \/ TeamSlay(h, T) \/ Retire(h, T) \/ Oust(h, T)
  \/ \E h \in Hart, t \in Task :
       \/ Spawn(h, t) \/ Debark(h, t) \/ Slay(h, t) \/ Dig(h, t)
       \/ \E to \in Hart : Embark(h, t, to)
       \/ \E c \in Cause : Suspend(h, t, c)
  \/ \E h \in Hart, P \in SUBSET Queued, x \in Queued \cup {None} : Dispatch(h, P, x)
  \/ \E h \in Hart : \E P \in SUBSET starved[h], x \in starved[h] \cup {None} :
       \/ Quit(h, P, x)
       \/ \E to \in Hart : BlockBeacon(h, P, x, to)
  \/ \E h \in Hart, k \in Slot, timed \in BOOLEAN : Wait(h, k, timed)
  \/ \E h \in Hart, k \in Task \cup Team, timed \in BOOLEAN : Join(h, k, timed)
  \/ \E h \in Hart :
       Starve(h) \/ Trap(h) \/ Advance(h) \/ Block(h) \/ BlockFail(h)
  \/ \E k \in Slot : Wake(k) \/ Knock(k) \/ Wipe(k)
  \/ \E D \in SUBSET timers : D # {} /\ Redeem(D)
  \/ \E t \in Task :
       \/ Reaped(t) \/ PushHusk(t)
       \/ DigHeir(t) \/ DigFail(t) \/ Bury(t) \/ Cascade(t)
       \/ \E k \in Task \cup Team : Signal(t, k)

Spec == Init /\ [][Next]_vars

-----------------------------------------------------------------------------
(* Properties.                                                             *)

\* Which container a task is in, read off its state alone.
InPen(t) == axis[t] \in {"Held", "Parked"} \/ (axis[t] = "Ready" /\ paused[t])
InQueue(t) == axis[t] = "Ready" /\ ~paused[t]
Seated(t) == axis[t] = "OnHart" \/ (axis[t] = "Doomed" /\ hart[t] # None)

PenMatches == \A t \in Task : t \in held <=> InPen(t)
QueueMatches ==
  \A t \in Task : (\E q \in Hart : t \in starved[q]) <=> InQueue(t)
OneQueue ==
  \A t \in Task : \A p, q \in Hart : t \in starved[p] /\ t \in starved[q] => p = q
SeatMatches ==
  \A t \in Task : \A h \in Hart : running[h] = t <=> (Seated(t) /\ hart[t] = h)
ChainMatches ==
  \A t \in Task : /\ axis[t] = "Waiting" => wait[t].key \in Key
                  /\ \A k \in Key :
                       t \in chain[k] <=> (axis[t] = "Waiting" /\ wait[t].key = k)

\* No task escapes: between commits every task is in exactly the container
\* its state names, once.  suspend (doom.rs:38,43,47) asserts it of whatever
\* task it meets; dispatch (dispatch.rs:6) is written to keep it while stealing.
Contained == PenMatches /\ QueueMatches /\ OneQueue /\ SeatMatches /\ ChainMatches

\* A deadline belongs to the wait its task is in now: redeem never ends a
\* later wait with the timer of an earlier one (holder.rs, wait/mod.rs redeem).
TimersCurrent ==
  \A m \in timers : /\ axis[m.task] = "Waiting"
                    /\ wait[m.task].ticket = m.ticket /\ wait[m.task].key = m.key

\* A beacon and a waiter never stand at one site: a wake that comes between
\* the beacon check of block_with_call and its commit is not lost.
BeaconOrWaiter == \A k \in pend : chain[k] = {}

\* Every panic of the conductor and of quit on an empty running slot (swap's
\* expect, starve's panic) is unreachable, and idle harts hold no task.
SlotFilled ==
  \A h \in Hart : /\ pc[h] \in {"user", "block", "quit"} => running[h] # None
                  /\ pc[h] = "idle" => running[h] = None

\* A join does not sleep through what it waits for: once it would poll true,
\* a reaper still owes its key a signal.  (Teams culled or ousted before
\* their first task are the subject of JoinHeard.)
JoinOwed ==
  \A t \in Task :
    /\ axis[t] = "Waiting" /\ wait[t].join /\ JoinDone(wait[t].key)
    /\ wait[t].key \in Team => built[wait[t].key] = "Ready"
    => \E u \in Task : rite[u] = "call" /\ wait[t].key \in owed[u]

\* The same of every join.
JoinHeard ==
  \A t \in Task :
    axis[t] = "Waiting" /\ wait[t].join /\ JoinDone(wait[t].key)
    => \E u \in Task : rite[u] = "call" /\ wait[t].key \in owed[u]

\* A task is buried only after the teams built under it are closed: retire
\* walks its heirs, and a refusal keeps the husk and the heir list.
HeirsClosed ==
  \A T \in Team :
    built[T] # "None" /\ Sire[T] # None /\ rite[Sire[T]] = "gone"
    => phase[T] \in {"Doomed", "Ousted"}

\* Closing a subtree spares nobody: a live task of a closed team is on the
\* list of a hart that is culling it (publish re-checks closed under commit).
CullComplete ==
  \A t \in Task :
    axis[t] # "Unborn" /\ ~Dead(t) /\ Closed(TeamOf[t])
    => \E h \in Hart, c \in Cause : <<t, c>> \in todo[h]

\* Nobody stays parked with nobody to bring it back: some team above is
\* paused, and its embark unparks, or the task is about to be culled.
NoneStranded ==
  \A t \in Task :
    axis[t] = "Parked" =>
      TeamPaused(TeamOf[t]) \/ \E h \in Hart, c \in Cause : <<t, c>> \in todo[h]

\* Each published task is counted out once, when nothing holds it any more:
\* pushed = exited (tally::done, the licence to halt) means all are gone.
TallyExact ==
  /\ tally.pushed = Cardinality({t \in Task : axis[t] # "Unborn"})
  /\ tally.exited = Cardinality({t \in Task : rite[t] = "gone"})

\* Death is final and has one cause: the first one recorded is the one
\* reported, whoever else slays the task meanwhile (reap, dying()).
DeathFinal ==
  [][\A t \in Task : /\ axis[t] = "Reaped" => axis'[t] = "Reaped"
                     /\ axis[t] = "Doomed" => axis'[t] \in {"Doomed", "Reaped"}
                     /\ cause[t] # "None" => cause'[t] = cause[t]]_vars

\* A closed team that is wholly reaped stays so: what join reported Complete
\* of a slain team cannot come to life again.
CompleteStays ==
  [][\A T \in Team : Closed(T) /\ AllReaped(T) => Closed(T)' /\ AllReaped(T)']_vars

\* A stopped task is not put on a hart: a pause that returned Done holds
\* until the matching embark (seat, starved_pop).
StoppedStaysOff ==
  [][\A t \in Task : axis[t] # "OnHart" /\ Stopped(t) => axis'[t] # "OnHart"]_vars

=============================================================================
