------------------------------ MODULE RoomWait ------------------------------
(* Waiting, for every number of tasks, harts, teams and keys: a wake is    *)
(* not lost, a deadline ends no other wait than its own, and a join does   *)
(* not sleep through what it waits for.                                    *)
EXTENDS RoomLife

-----------------------------------------------------------------------------
(* What a step does to the waits.                                          *)

\* Nobody starts to wait or ceases to.
Calm == UNCHANGED <<wait, chain, timers>>

\* The tasks S wait no longer, nor do their deadlines run.
Leave(S) ==
  /\ \A t \in Task \ S : wait'[t] = wait[t]
  /\ chain' = [k \in Key |-> chain[k] \ S]
  /\ \/ timers' = Void(S)
     \/ \E D \in SUBSET timers : S = Due(D) /\ timers' = timers \ D

\* The running task c starts to wait under k: a plain wait finds no beacon
\* there, a join finds its target not done.
Enter(c, k, join, n) ==
  /\ axis[c] = "OnHart"
  /\ TicketFree(n)
  /\ wait' = [wait EXCEPT ![c] = [key |-> k, ticket |-> n, join |-> join]]
  /\ chain' = [chain EXCEPT ![k] = @ \cup {c}]
  /\ timers' \in {timers, timers \cup {[task |-> c, key |-> k, ticket |-> n]}}
  /\ pend' = pend /\ k \notin pend
  /\ join => k \in Task \cup Team /\ ~JoinDone(k)

WaitStep ==
  \/ Calm
  \/ \E S \in SUBSET Task : Leave(S)
  \/ \E c \in Task, k \in Key, join \in BOOLEAN, n \in Ticket : Enter(c, k, join, n)

\* block_with_call and join queue the running task.
LEMMA QueueEnters ==
  ASSUME LifeInv, NEW h \in Hart,
         Block(h) \/ \E k \in Task \cup Team, timed \in BOOLEAN : Join(h, k, timed)
  PROVE  WaitStep
<1>1. running[h] \in Task
  BY Runs, Zenon DEF LifeInv, RoomInv, Block, Join, OnDuty
<1>2. /\ axis[running[h]] # "Doomed" => axis[running[h]] = "OnHart"
      /\ \A k \in Task \cup Team : k \in Key /\ k \notin pend
      /\ Block(h) => call[h].key \in Key
  BY <1>1, Whereabouts, NameAssumption, Zenon
  DEF NameAssumption, Key, Block, LifeInv, RoomInv, TypeInv, TypeOK, SiteOK, CallMade
<1>3. ASSUME NEW k \in Key, NEW timed, NEW join \in BOOLEAN, NEW P, NEW x, NEW n \in Ticket,
             Queue(h, k, timed, join, P, x, n), axis[running[h]] # "Doomed",
             k \notin pend, join => k \in Task \cup Team /\ ~JoinDone(k)
      PROVE  WaitStep
  BY <1>1, <1>2, <1>3, Zenon DEF Queue, NextTicket, Enter, WaitStep
<1> QED
  BY <1>2, <1>3, ZenonT(30) DEF Block, Join, WaitStep, Calm, taskVars, siteVars

\* Every step is one of the three.
LEMMA NextWait == ASSUME LifeInv, Next PROVE WaitStep
<1>1. ASSUME NEW h, NEW T, NEW t, NEW to, NEW P, NEW x,
             \/ StillAction \/ TeamEmbark(h, T) \/ Spawn(h, t) \/ Debark(h, t)
             \/ Embark(h, t, to) \/ Dispatch(h, P, x) \/ Quit(h, P, x)
             \/ BlockBeacon(h, P, x, to) \/ Starve(h) \/ Advance(h) \/ Reaped(t)
      PROVE  Calm
  BY <1>1, StillFrame, ZenonT(30)
  DEF TeamEmbark, Spawn, Debark, Embark, Dispatch, Quit, BlockBeacon, Starve, Advance,
      Rotate, ParkRunning, Reaped, taskVars, siteVars, Calm
<1>2. ASSUME NEW S \in SUBSET Task, Rouse(S)
      PROVE  Leave(S)
  BY <1>2, Zenon DEF Rouse, Rise, Leave
<1>3. ASSUME NEW h \in Hart, NEW u \in Task, NEW c \in Cause, Suspend(h, u, c)
      PROVE  Calm \/ Leave({u})
  BY <1>3, Zenon DEF Suspend, taskVars, siteVars, Calm, Leave, LifeInv, RoomInv, TypeInv, TypeOK, TaskOK
<1>4. \A u \in Task : {u} \in SUBSET Task
  OBVIOUS
<1> QED
  BY <1>1, <1>2, <1>3, <1>4, QueueEnters, WakingRouse, ZenonT(60)
  DEF Next, StillAction, Waking, LifeInv, WaitStep, Calm, taskVars

\* Who waits, and for what, is read off the chains before and after.
LEMMA Waiters ==
  ASSUME LifeInv, RoomInv', Calm \/ \E S \in SUBSET Task : Leave(S)
  PROVE  \A t \in Task : axis'[t] = "Waiting" => axis[t] = "Waiting" /\ wait'[t] = wait[t]
<1>0. /\ chain \in [Key -> SUBSET Task] /\ DOMAIN wait = Task
      /\ ChainMatches /\ ChainMatches'
  BY DEF LifeInv, RoomInv, TypeInv, TypeOK, TaskOK, SiteOK, Placed, Contained
<1> QED
  BY <1>0 DEF ChainMatches, Calm, Leave

\* Waiters that are not roused wait on, where they were.
LEMMA Leavers ==
  ASSUME LifeInv, RoomInv', NEW S \in SUBSET Task, Leave(S), NEW t \in Task \ S
  PROVE  axis[t] = "Waiting" => axis'[t] = "Waiting" /\ wait'[t] = wait[t]
<1>0. chain \in [Key -> SUBSET Task] /\ ChainMatches /\ ChainMatches'
  BY DEF LifeInv, RoomInv, TypeInv, TypeOK, SiteOK, Placed, Contained
<1> QED
  BY <1>0 DEF ChainMatches, Leave

\* A task that blocks waits under the key and the ticket it was given, and
\* nobody else's wait changes.
LEMMA Entered ==
  ASSUME LifeInv, RoomInv', NEW c \in Task, NEW k \in Key, NEW join \in BOOLEAN,
         NEW n \in Ticket, Enter(c, k, join, n)
  PROVE  /\ \A t \in Task : /\ axis'[t] = "Waiting" <=> t = c \/ axis[t] = "Waiting"
                            /\ t # c => wait'[t] = wait[t]
         /\ wait'[c] = [key |-> k, ticket |-> n, join |-> join]
<1>0. /\ chain \in [Key -> SUBSET Task] /\ DOMAIN wait = Task
      /\ ChainMatches /\ ChainMatches'
  BY DEF LifeInv, RoomInv, TypeInv, TypeOK, TaskOK, SiteOK, Placed, Contained
<1> QED
  BY <1>0 DEF ChainMatches, Enter

\* A beacon is left only where nobody waits.
LEMMA NextPend ==
  ASSUME Next
  PROVE  pend' \subseteq pend \cup {k \in Slot : chain[k] = {}}
<1>1. ASSUME NEW h, NEW P, NEW x, NEW t, NEW k, NEW timed, NEW to, NEW c, NEW D,
             \/ OffSites \/ Join(h, k, timed) \/ Block(h)
             \/ Suspend(h, t, c) \/ Redeem(D) \/ Bury(t) \/ Signal(t, k)
             \/ Wait(h, k, timed) \/ BlockBeacon(h, P, x, to) \/ Wipe(k)
      PROVE  pend' \subseteq pend
  BY <1>1, SiteFrame, ZenonT(30)
  DEF Join, Block, Queue, Suspend, Redeem, Bury, Signal, Wait, BlockBeacon, Wipe, siteVars
<1>2. ASSUME NEW k \in Slot, Wake(k) \/ Knock(k)
      PROVE  pend' \subseteq pend \cup {l \in Slot : chain[l] = {}}
  BY <1>2, Zenon DEF Wake, Knock
<1> QED
  BY <1>1, <1>2, ZenonT(60) DEF Next, OffSites

-----------------------------------------------------------------------------
(* What a join waits for, and who still has to tell it.                    *)

Over(k) == JoinDone(k) /\ (k \in Team => built[k] = "Ready")
Promised(k) == \E u \in Task : rite[u] = "call" /\ k \in owed[u]

\* Joins are owed by reap, and paid by signal.
LEMMA NextOwed ==
  ASSUME Next
  PROVE  \/ UNCHANGED owed
         \/ \E u \in Task : Reaped(u) \/ \E k \in Task \cup Team : Signal(u, k)
<1>1. ASSUME NEW h, NEW T, NEW t, NEW c, NEW P, NEW x,
             \/ OffReaps \/ TeamSlay(h, T) \/ Spawn(h, t) \/ Slay(h, t) \/ Dig(h, t)
             \/ Suspend(h, t, c) \/ Quit(h, P, x) \/ PushHusk(t) \/ DigHeir(t)
             \/ DigFail(t) \/ Bury(t) \/ Cascade(t)
      PROVE  UNCHANGED owed
  BY <1>1, ReapFrame, ZenonT(30)
  DEF TeamSlay, Spawn, Slay, Dig, Suspend, Quit, PushHusk, DigHeir, DigFail, Bury,
      Cascade, reapVars
<1> QED
  BY <1>1, ZenonT(30) DEF Next, OffReaps

\* What is owed stays owed until it is signalled.
LEMMA PromiseKept ==
  ASSUME LifeInv, Next, NEW k \in Task \cup Team, Promised(k)
  PROVE  Promised(k)' \/ \E u \in Task : Signal(u, k)
<1>1. PICK u \in Task : rite[u] = "call" /\ k \in owed[u]
  BY DEF Promised
<1>2. rite'[u] = "call"
  BY <1>1, NextRite, Zenon DEF RiteStep, Bury, LifeInv, RiteDead
<1>3. k \in owed'[u] \/ \E v \in Task : Signal(v, k)
  BY <1>1, NextOwed DEF Reaped, Signal, LifeInv, RoomInv, TypeInv, TypeOK, ReapOK
<1> QED
  BY <1>2, <1>3, Zenon DEF Promised

\* A team becomes Ready as its first task is published.
LEMMA NextBuilt ==
  ASSUME LifeInv, Next, NEW T \in Team, built'[T] = "Ready", built[T] # "Ready"
  PROVE  \E h \in Hart, t \in Task : Spawn(h, t) /\ TeamOf[t] = T
<1>1. ASSUME NEW h, NEW U, NEW t,
             \/ OffTeams \/ TeamDebark(h, U) \/ TeamEmbark(h, U) \/ TeamSlay(h, U)
             \/ Retire(h, U) \/ Oust(h, U) \/ Cascade(t) \/ DigHeir(t) \/ Bury(t)
      PROVE  UNCHANGED built
  BY <1>1, TeamFrame, ZenonT(30)
  DEF TeamDebark, TeamEmbark, TeamSlay, Retire, Oust, Cascade, DigHeir, Bury, teamVars
<1>2. \/ UNCHANGED built
      \/ \E h \in Hart, U \in Team : Build(h, U)
      \/ \E h \in Hart, t \in Task : Spawn(h, t)
  BY <1>1, ZenonT(60) DEF Next, OffTeams
<1> QED
  BY <1>2, Zenon DEF Build, Spawn, LifeInv, RoomInv, TypeInv, TypeOK, TeamOK

\* What a join waits for comes true in a step of reap, which owes the signal.
LEMMA OverPromised ==
  ASSUME LifeInv, Next, NEW k \in Task \cup Team, Over(k)'
  PROVE  Over(k) \/ Promised(k)'
<1>1. \A t \in Task : axis'[t] = "Reaped" =>
        \/ axis[t] = "Reaped"
        \/ rite'[t] = "call" /\ owed'[t] = {t} \cup Above[TeamOf[t]]
  BY Lasting, NextRite, Zenon DEF LifeInv, RiteStep, Bury
<1>2. CASE k \in Task
  BY <1>1, <1>2, NameAssumption, Zenon DEF Over, Promised, JoinDone, NameAssumption
<1>3. CASE k \in Team
  <2>1. k \notin Task /\ AllReaped(k)' /\ built'[k] = "Ready"
    BY <1>3, NameAssumption, Zenon DEF Over, JoinDone, NameAssumption
  <2>2. built[k] = "Ready"
    <3>1. ASSUME NEW h \in Hart, NEW t \in Task, Spawn(h, t), TeamOf[t] = k
          PROVE  FALSE
      <4>1. axis'[t] = "Held"
        BY <3>1, Zenon DEF Spawn, LifeInv, RoomInv, TypeInv, TypeOK, TaskOK
      <4> QED
        BY <1>3, <2>1, <3>1, <4>1, TreeAssumption, Zenon
        DEF AllReaped, Members, Under, TreeAssumption
    <3> QED
      BY <1>3, <2>1, <3>1, NextBuilt, Zenon
  <2>3. ASSUME NEW t \in Members(k), axis[t] # "Reaped"
        PROVE  Promised(k)'
    <3>1. t \in Task /\ k \in Above[TeamOf[t]] /\ axis'[t] # "Unborn"
      BY <2>3, Lasting, Zenon DEF Members, Under, LifeInv
    <3>2. axis'[t] = "Reaped"
      BY <2>1, <2>3, <3>1, Zenon DEF AllReaped, Members
    <3> QED
      BY <1>1, <2>3, <3>1, <3>2, Zenon DEF Promised
  <2> QED
    BY <2>1, <2>2, <2>3, Zenon DEF Over, JoinDone, Constructing, AllReaped
<1> QED
  BY <1>2, <1>3, Zenon

-----------------------------------------------------------------------------
(* The invariant.  TimersCurrent needs tickets that name one wait: redeem  *)
(* looks for the waits of the tickets that are due.  JoinOwed needs to     *)
(* know that joins wait under tasks and teams.                             *)

TicketsUnique ==
  \A t, u \in Task :
    axis[t] = "Waiting" /\ axis[u] = "Waiting" /\ wait[t].ticket = wait[u].ticket => t = u

JoinKeys ==
  \A t \in Task : axis[t] = "Waiting" /\ wait[t].join => wait[t].key \in Task \cup Team

WaitInv == BeaconOrWaiter /\ TimersCurrent /\ TicketsUnique /\ JoinKeys /\ JoinOwed

\* A step leaves no beacon on a key that has waiters.
LEMMA BeaconKept ==
  ASSUME LifeInv, RoomInv', BeaconOrWaiter, Next
  PROVE  BeaconOrWaiter'
<1>1. pend \subseteq Key /\ Slot \subseteq Key /\ chain \in [Key -> SUBSET Task]
  BY DEF Key, LifeInv, RoomInv, TypeInv, TypeOK, SiteOK
<1> QED
  BY <1>1, NextPend, NextWait DEF WaitStep, Calm, Leave, Enter, BeaconOrWaiter

\* A step keeps tickets unique and joins on tasks and teams.
LEMMA TicketsKept ==
  ASSUME LifeInv, RoomInv', TicketsUnique, JoinKeys, Next
  PROVE  TicketsUnique' /\ JoinKeys'
<1>1. CASE Calm \/ \E S \in SUBSET Task : Leave(S)
  BY <1>1, Waiters, Zenon DEF TicketsUnique, JoinKeys
<1>2. ASSUME NEW c \in Task, NEW k \in Key, NEW join \in BOOLEAN, NEW n \in Ticket,
             Enter(c, k, join, n)
      PROVE  TicketsUnique' /\ JoinKeys'
  <2>1. \A t \in Task : /\ axis'[t] = "Waiting" <=> t = c \/ axis[t] = "Waiting"
                        /\ t # c => wait'[t] = wait[t]
                        /\ wait'[c] = [key |-> k, ticket |-> n, join |-> join]
    BY <1>2, Entered, Zenon
  <2> QED
    BY <1>2, <2>1 DEF Enter, TicketFree, TicketsUnique, JoinKeys
<1> QED
  BY <1>1, <1>2, NextWait, Zenon DEF WaitStep

\* redeem and void take the deadlines of the waits that end, and no others.
LEMMA TimersKept ==
  ASSUME LifeInv, RoomInv', TicketsUnique, TimersCurrent, Next
  PROVE  TimersCurrent'
<1>0. timers \subseteq Timer
  BY Zenon DEF LifeInv, RoomInv, TypeInv, TypeOK, SiteOK
<1>1. CASE Calm
  <2>1. \A t \in Task : axis[t] = "Waiting" => axis'[t] = "Waiting" /\ wait'[t] = wait[t]
    BY <1>1, Zenon DEF Calm, LifeInv, RoomInv, Placed, Contained, ChainMatches
  <2> QED
    BY <1>0, <1>1, <2>1, Zenon DEF Calm, TimersCurrent, Timer
<1>2. ASSUME NEW S \in SUBSET Task, Leave(S)
      PROVE  TimersCurrent'
  <2>1. \A m \in timers' : m \in timers /\ m.task \notin S
    <3>1. CASE timers' = Void(S)
      BY <1>0, <3>1, Zenon DEF Void, TimersCurrent, Timer
    <3>2. ASSUME NEW D \in SUBSET timers, S = Due(D), timers' = timers \ D
          PROVE  \A m \in timers' : m \in timers /\ m.task \notin S
      <4> SUFFICES ASSUME NEW m \in timers, m \notin D, NEW l \in D, m.task \in Task,
                          wait[m.task].ticket = l.ticket
                   PROVE  FALSE
        BY <1>0, <3>2, Zenon DEF Due, Timer
      <4>1. l.task = m.task /\ l.ticket = m.ticket /\ l.key = m.key
        BY <1>0 DEF TimersCurrent, TicketsUnique, Timer
      <4> QED
        BY <1>0, <4>1 DEF Timer
    <3> QED
      BY <1>2, <3>1, <3>2, Zenon DEF Leave
  <2> QED
    BY <1>0, <1>2, <2>1, Leavers DEF TimersCurrent, Timer
<1>3. ASSUME NEW c \in Task, NEW k \in Key, NEW join \in BOOLEAN, NEW n \in Ticket,
             Enter(c, k, join, n)
      PROVE  TimersCurrent'
  <2>1. \A t \in Task : /\ axis'[t] = "Waiting" <=> t = c \/ axis[t] = "Waiting"
                        /\ t # c => wait'[t] = wait[t]
                        /\ wait'[c] = [key |-> k, ticket |-> n, join |-> join]
    BY <1>3, Entered, Zenon
  <2> QED
    BY <1>0, <1>3, <2>1 DEF Enter, TimersCurrent, Timer
<1> QED
  BY <1>1, <1>2, <1>3, NextWait, Zenon DEF WaitStep

\* A signal lets every join go that it finds done.
LEMMA SignalLets ==
  ASSUME LifeInv, RoomInv', NEW u \in Task, NEW k \in Task \cup Team, Signal(u, k), JoinDone(k)
  PROVE  \A t \in Task : axis[t] = "Waiting" /\ wait[t].key = k => axis'[t] # "Waiting"
<1>1. Requeued(k) = {}
  BY Zenon DEF Requeued
<1>2. \A t \in chain[k] : axis'[t] = "Ready"
  BY <1>1, Zenon DEF Signal, Release, Rise, LifeInv, RoomInv, TypeInv, TypeOK, SiteOK, Key
<1> QED
  BY <1>2, Zenon DEF LifeInv, RoomInv, Placed, Contained, ChainMatches, Key

\* A step leaves no joiner behind that nobody will signal.
LEMMA JoinsKept ==
  ASSUME LifeInv, RoomInv', JoinKeys, JoinKeys', JoinOwed, Next
  PROVE  JoinOwed'
<1>1. ASSUME NEW t \in Task, axis'[t] = "Waiting", axis[t] = "Waiting", wait'[t] = wait[t],
             wait[t].join, NEW k \in Task \cup Team, k = wait[t].key, Over(k)'
      PROVE  Promised(k)'
  <2>1. CASE Over(k)
    <3>1. Promised(k)
      BY <1>1, <2>1, Zenon DEF JoinOwed, Over, Promised
    <3> QED
      BY <1>1, <2>1, <3>1, PromiseKept, SignalLets, Zenon DEF Over
  <2> QED
    BY <1>1, <2>1, OverPromised, Zenon
<1>2. ASSUME NEW t \in Task, axis'[t] = "Waiting", wait'[t].join,
             NEW k \in Task \cup Team, k = wait'[t].key, Over(k)'
      PROVE  Promised(k)'
  <2>1. CASE axis[t] = "Waiting" /\ wait'[t] = wait[t]
    BY <1>1, <1>2, <2>1, Zenon
  <2>2. ASSUME NEW l \in Key, NEW join \in BOOLEAN, NEW n \in Ticket, Enter(t, l, join, n)
        PROVE  ~Over(k)
    <3>1. wait'[t] = [key |-> l, ticket |-> n, join |-> join]
      BY <2>2, Entered, Zenon
    <3> QED
      BY <1>2, <2>2, <3>1 DEF Enter, Over
  <2>3. \/ axis[t] = "Waiting" /\ wait'[t] = wait[t]
        \/ \E l \in Key, join \in BOOLEAN, n \in Ticket : Enter(t, l, join, n)
    BY <1>2, NextWait, Waiters, Entered, Zenon DEF WaitStep
  <2> QED
    BY <1>2, <2>1, <2>2, <2>3, OverPromised, Zenon
<1> QED
  BY <1>2, Zenon DEF JoinOwed, JoinKeys, Over, Promised

\* A step, or a stutter, keeps the invariant of the waits.
LEMMA NextWaits == LifeInv /\ WaitInv /\ LifeInv' /\ [Next]_vars => WaitInv'
<1>1. ASSUME UNCHANGED vars PROVE WaitInv' <=> WaitInv
  BY <1>1 DEF WaitInv, BeaconOrWaiter, TimersCurrent, TicketsUnique, JoinKeys, JoinOwed,
     JoinDone, AllReaped, Members, Under, Constructing, vars, taskVars, siteVars, reapVars, teamVars
<1> QED
  BY <1>1, BeaconKept, TimersKept, TicketsKept, JoinsKept, Zenon DEF WaitInv, LifeInv

-----------------------------------------------------------------------------
(* The tally counts tasks in and out.                                      *)

Born == {t \in Task : axis[t] # "Unborn"}
Gone == {t \in Task : rite[t] = "gone"}

\* A publication adds one task to those published, a burial one to those
\* gone, and no other step adds or takes away any.
LEMMA TallyStep ==
  ASSUME LifeInv, Next
  PROVE  \/ UNCHANGED <<Born, Gone, tally>>
         \/ \E t : /\ t \notin Born /\ Born' = Born \cup {t} /\ UNCHANGED Gone
                   /\ tally' = [tally EXCEPT !.pushed = @ + 1]
         \/ \E t : /\ t \notin Gone /\ Gone' = Gone \cup {t} /\ UNCHANGED Born
                   /\ tally' = [tally EXCEPT !.exited = @ + 1]
<1>0. axis \in [Task -> Axis] /\ rite \in [Task -> Rite]
  BY DEF LifeInv, RoomInv, TypeInv, TypeOK, TaskOK, ReapOK
<1>1. ASSUME NEW h \in Hart, NEW t \in Task, Spawn(h, t)
      PROVE  /\ t \notin Born /\ Born' = Born \cup {t} /\ UNCHANGED Gone
             /\ tally' = [tally EXCEPT !.pushed = @ + 1]
  BY <1>0, <1>1, Zenon DEF Spawn, Born, Gone
<1>2. ASSUME NEW t \in Task, Bury(t)
      PROVE  /\ t \notin Gone /\ Gone' = Gone \cup {t}
             /\ tally' = [tally EXCEPT !.exited = @ + 1]
  BY <1>0, <1>2, Zenon DEF Bury, Gone
<1>3. (\A t \in Task : Shift(t)) => UNCHANGED Born
  BY Zenon DEF Shift, Born
<1>4. \/ \E t \in Task : Bury(t)
      \/ UNCHANGED Gone
  BY NextRite DEF RiteStep, Gone, LifeInv, RiteDead
<1> QED
  BY <1>1, <1>2, <1>3, <1>4, NextShift, NextTally, Zenon DEF LifeInv

=============================================================================
