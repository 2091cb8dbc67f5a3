------------------------------ MODULE RoomLife ------------------------------
(* The life of a task, for every number of tasks, harts, teams and keys:   *)
(* how it may change state, that its death is final, that a pause and a    *)
(* closing hold, and that the tally counts it in and out once.             *)
EXTENDS RoomFrames

-----------------------------------------------------------------------------
(* The state diagram of a task (TaskState) and of its death (reap, bury).  *)

Shift(t) ==
  \/ axis'[t] = axis[t]
  \/ axis[t] \in {"Held", "Ready", "Parked", "Waiting"} /\ axis'[t] = "Ready"
  \/ axis[t] = "Ready" /\ axis'[t] = "Parked"
  \/ axis[t] = "Ready" /\ ~Stopped(t) /\ axis'[t] = "OnHart"
  \/ axis[t] = "OnHart" /\ axis'[t] \in {"Ready", "Parked", "Waiting"}
  \/ axis[t] \notin {"Unborn", "Reaped"} /\ axis'[t] = "Doomed"
  \/ axis[t] = "Doomed" /\ axis'[t] = "Reaped" /\ rite[t] = "hooks" /\ rite'[t] = "call"

RiteStep(t) ==
  \/ rite'[t] = rite[t] /\ reaper'[t] = reaper[t]
  \/ rite'[t] = "hooks" /\ axis[t] # "Reaped" /\ reaper'[t] \in Hart
  \/ /\ rite[t] = "hooks" /\ rite'[t] = "call" /\ reaper'[t] = reaper[t]
     /\ axis'[t] = "Reaped" /\ owed'[t] = {t} \cup Above[TeamOf[t]]
  \/ rite[t] = "call" /\ owed[t] = {} /\ rite'[t] = "husk"
  \/ rite[t] = "husk" /\ rite'[t] = "dig" /\ reaper'[t] \in Hart
  \/ rite[t] = "dig" /\ rite'[t] = "husk"
  \/ Bury(t)

\* Only a dying task has a cause; a cull lists published tasks; what follows
\* the hooks is done to a reaped task; and some hart does it.
CauseDead == \A t \in Task : cause[t] # "None" => Dead(t)
TodoBorn ==
  \A h \in Hart, t \in Task, c \in Cause : <<t, c>> \in todo[h] => axis[t] # "Unborn"
RiteDead ==
  \A t \in Task : rite[t] \in {"call", "husk", "dig", "gone"} => axis[t] = "Reaped"
ReaperNamed ==
  \A t \in Task : rite[t] \in {"hooks", "call", "dig"} => reaper[t] \in Hart

LifeInv == RoomInv /\ CauseDead /\ TodoBorn /\ RiteDead /\ ReaperNamed

\* A task in a ready queue is ready and not paused; the one on a hart is
\* running unless it has been doomed there; the ones on a chain wait.
LEMMA Whereabouts ==
  ASSUME RoomInv
  PROVE  /\ \A t \in Queued : t \in Task /\ axis[t] = "Ready" /\ ~paused[t]
         /\ \A h \in Hart : running[h] \in Task =>
              axis[running[h]] \in {"OnHart", "Doomed"}
         /\ \A k \in Key : \A t \in chain[k] : t \in Task /\ axis[t] = "Waiting"
BY DEF RoomInv, TypeInv, TypeOK, RoomOK, SiteOK, Placed, Contained, QueueMatches, SeatMatches,
   ChainMatches, InQueue, Seated, Queued

\* dispatch seats a ready task that is not stopped and parks stopped ones.
LEMMA DispatchShift ==
  ASSUME RoomInv, NEW h \in Hart, NEW P \in SUBSET Queued,
         NEW x \in Queued \cup {None}, Dispatch(h, P, x)
  PROVE  \A t \in Task : Shift(t)
BY Whereabouts, NameAssumption
DEF Dispatch, Pop, Shift, SeatAxis, ParkAxis, NameAssumption

\* swap does the same and puts the running task down in the state asked for.
LEMMA SwapShift ==
  ASSUME RoomInv, NEW h \in Hart, running[h] \in Task, NEW a,
         NEW P \in SUBSET starved[h], NEW x \in starved[h] \cup {None},
         Swap(h, running[h], a, P, x),
         \/ a = "Doomed"
         \/ a \in {"Ready", "Waiting"} /\ axis[running[h]] # "Doomed"
  PROVE  \A t \in Task : Shift(t)
BY Whereabouts, NameAssumption
DEF Swap, Pop, Queued, Shift, SeatAxis, ParkAxis, NameAssumption

\* A turn ends: the running task is parked or rotated, or nothing moves.
LEMMA TurnShift ==
  ASSUME RoomInv, NEW h \in Hart, Starve(h) \/ Advance(h)
  PROVE  \A t \in Task : Shift(t)
<1>1. running[h] # None =>
        running[h] \in Task /\ axis[running[h]] \in {"OnHart", "Doomed"}
  BY Whereabouts, Zenon DEF RoomInv, TypeInv, TypeOK, RoomOK
<1>2. ASSUME NEW P \in SUBSET starved[h], NEW x \in starved[h] \cup {running[h], None},
             running[h] # None, axis[running[h]] # "Doomed", ParkRunning(h, P, x)
      PROVE  \A t \in Task : Shift(t)
  BY <1>1, <1>2, Whereabouts, NameAssumption
  DEF ParkRunning, Pop, Queued, Shift, SeatAxis, ParkAxis, NameAssumption
<1>3. ASSUME NEW P \in SUBSET starved[h], NEW x \in starved[h] \cup {running[h], None},
             running[h] # None, axis[running[h]] # "Doomed", ~Stopped(running[h]),
             Rotate(h, P, x)
      PROVE  \A t \in Task : Shift(t)
  BY <1>1, <1>3, Whereabouts, NameAssumption
  DEF Rotate, Pop, Queued, Shift, SeatAxis, ParkAxis, NameAssumption
<1>4. OnDuty(h) => running[h] # None
  BY DEF OnDuty, RoomInv, TypeInv, SlotFilled
<1> QED
  BY <1>2, <1>3, <1>4, ZenonT(30) DEF Starve, Advance, taskVars, Shift

\* The waits whose deadlines D are due (redeem).
Due(D) ==
  {t \in Task : \E m \in D : t \in chain[m.key] /\ wait[t].ticket = m.ticket}

\* The waiters S rise, and their deadlines are voided or redeemed.
Rouse(S) ==
  /\ \A t \in S : axis[t] = "Waiting"
  /\ \E to \in [S -> Hart] : Rise(S, to)
  /\ \/ timers' = Void(S)
     \/ \E D \in SUBSET timers : S = Due(D) /\ timers' = timers \ D

\* Every way of waking rouses a set of waiters, or leaves a beacon instead.
LEMMA WakingRouse ==
  ASSUME RoomInv, Waking
  PROVE  \/ UNCHANGED <<taskVars, roomVars, chain, timers>>
         \/ \E S \in SUBSET Task : Rouse(S)
<1>1. Slot \subseteq Key /\ Task \subseteq Key /\ Team \subseteq Key
  BY DEF Key
<1>2. ASSUME NEW k \in Key, Release(k)
      PROVE  \E S \in SUBSET Task : Rouse(S)
  <2>1. PICK R \in SUBSET Requeued(k) :
          \E to \in [chain[k] \ R -> Hart] :
            Rise(chain[k] \ R, to) /\ timers' = Void(chain[k] \ R)
    BY <1>2, Zenon DEF Release
  <2> QED
    BY <2>1, Whereabouts, Zenon DEF Rouse
<1>3. ASSUME NEW k \in Key, NEW t \in chain[k], NEW to \in Hart,
             Rise({t}, [u \in {t} |-> to]), timers' = Void({t})
      PROVE  \E S \in SUBSET Task : Rouse(S)
  <2>1. /\ [u \in {t} |-> to] \in [{t} -> Hart] /\ {t} \in SUBSET Task
        /\ \A u \in {t} : axis[u] = "Waiting"
    BY Whereabouts, Zenon
  <2> QED
    BY <1>3, <2>1, Zenon DEF Rouse
<1>4. ASSUME NEW D \in SUBSET timers, Redeem(D)
      PROVE  \E S \in SUBSET Task : Rouse(S)
  <2>1. \A m \in D : m.key \in Key
    BY DEF RoomInv, TypeInv, TypeOK, SiteOK, Timer
  <2> QED
    BY <1>4, <2>1, Whereabouts, ZenonT(30) DEF Redeem, Due, Rouse
<1> QED
  BY <1>1, <1>2, <1>3, <1>4, ZenonT(30) DEF Waking, Wake, Knock, Wipe, Signal, Bury

\* Every step but a publication takes each task along an edge of the diagram.
LEMMA NextShift ==
  ASSUME RoomInv, TodoBorn, Next
  PROVE  \/ \E h \in Hart, t \in Task : Spawn(h, t)
         \/ \A t \in Task : Shift(t)
<1>1. axis \in [Task -> Axis] /\ rite \in [Task -> Rite]
  BY DEF RoomInv, TypeInv, TypeOK, TaskOK, ReapOK
<1>2. CASE StillAction \/ Waking
  BY <1>2, StillFrame, WakingRouse, ZenonT(30) DEF Rouse, Rise, Shift, taskVars
<1>3. ASSUME NEW h \in Hart, NEW T \in Team, TeamEmbark(h, T)
      PROVE  \A t \in Task : Shift(t)
  BY <1>3, Zenon DEF TeamEmbark, Unparked, Shift
<1>4. ASSUME NEW u \in Task,
             \/ Reaped(u)
             \/ \E h \in Hart : \/ Debark(h, u)
                                \/ \E to \in Hart : Embark(h, u, to)
                                \/ \E c \in Cause : Suspend(h, u, c)
      PROVE  \A t \in Task : Shift(t)
  BY <1>1, <1>4, ZenonT(60) DEF Embark, Debark, Suspend, taskVars, Dead, TodoBorn, Reaped, RoomInv,
     Placed, HooksOff, Shift
<1>5. ASSUME NEW h \in Hart, NEW P \in SUBSET starved[h],
             NEW x \in starved[h] \cup {None}, NEW to \in Hart,
             Quit(h, P, x) \/ BlockBeacon(h, P, x, to)
      PROVE  \A t \in Task : Shift(t)
  BY <1>5, Runs, SwapShift, ZenonT(30) DEF RoomInv, Quit, BlockBeacon, OnDuty
<1>6. ASSUME NEW h \in Hart,
             Block(h) \/ \E k \in Task \cup Team, timed \in BOOLEAN : Join(h, k, timed)
      PROVE  \A t \in Task : Shift(t)
  BY <1>6, Runs, SwapShift, ZenonT(30)
  DEF RoomInv, Block, Join, OnDuty, Queue, taskVars, Shift
<1> QED
  BY <1>2, <1>3, <1>4, <1>5, <1>6, DispatchShift, TurnShift, ZenonT(60)
  DEF Next, StillAction, Waking

\* Hence what is dead or published stays so, a stopped task stays off the
\* harts, and a task becomes Reaped only as its reaper goes on to signal.
LEMMA Lasting ==
  ASSUME RoomInv, TodoBorn, Next, NEW t \in Task
  PROVE  /\ axis[t] = "Reaped" => axis'[t] = "Reaped"
         /\ Dead(t) => axis'[t] \in {"Doomed", "Reaped"}
         /\ axis[t] # "Unborn" => axis'[t] # "Unborn"
         /\ axis[t] # "OnHart" /\ Stopped(t) => axis'[t] # "OnHart"
         /\ axis'[t] = "Reaped" => \/ axis[t] = "Reaped"
                                   \/ rite[t] = "hooks" /\ rite'[t] = "call"
<1>1. CASE \A u \in Task : Shift(u)
  BY <1>1, Zenon DEF Shift, Dead
<1>2. ASSUME NEW h \in Hart, NEW u \in Task, Spawn(h, u)
      PROVE  axis'[t] = axis[t] \/ (axis[t] = "Unborn" /\ axis'[t] = "Held")
  BY <1>2, Zenon DEF Spawn, RoomInv, TypeInv, TypeOK, TaskOK
<1>3. CASE axis'[t] = axis[t] \/ (axis[t] = "Unborn" /\ axis'[t] = "Held")
  BY <1>3 DEF Dead
<1> QED
  BY <1>1, <1>2, <1>3, NextShift, Zenon

\* Every step takes each death along an edge of its diagram.
LEMMA NextRite ==
  ASSUME RoomInv, Next
  PROVE  \A t \in Task : RiteStep(t)
<1>0. /\ rite \in [Task -> Rite] /\ axis \in [Task -> Axis]
      /\ owed \in [Task -> SUBSET (Task \cup Team)] /\ reaper \in [Task -> Hart \cup {None}]
  BY DEF RoomInv, TypeInv, TypeOK, TaskOK, ReapOK
<1>1. CASE UNCHANGED <<rite, reaper>>
  BY <1>1, Zenon DEF RiteStep
<1>2. ASSUME NEW h, NEW T, NEW t, NEW k,
             OffReaps \/ Spawn(h, t) \/ TeamSlay(h, T) \/ Slay(h, t) \/ DigHeir(t)
             \/ Cascade(t) \/ Signal(t, k)
      PROVE  UNCHANGED <<rite, reaper>>
  BY <1>2, ReapFrame, Zenon DEF Spawn, TeamSlay, Slay, DigHeir, Cascade, Signal, reapVars
<1>3. ASSUME NEW h \in Hart, NEW u \in Task, NEW c \in Cause, Suspend(h, u, c)
      PROVE  \A t \in Task : RiteStep(t)
  BY <1>0, <1>3, Zenon DEF Suspend, Dead, RiteStep
<1>4. ASSUME NEW h \in Hart, NEW P \in SUBSET starved[h],
             NEW x \in starved[h] \cup {None}, Quit(h, P, x)
      PROVE  \A t \in Task : RiteStep(t)
  <2>1. running[h] \in Task
    BY <1>4, Runs, Zenon DEF RoomInv, Quit, OnDuty
  <2>2. axis[running[h]] # "Reaped"
    BY <2>1, Whereabouts, Zenon
  <2>3. /\ rite' = [rite EXCEPT ![running[h]] = "hooks"]
        /\ reaper' = [reaper EXCEPT ![running[h]] = h]
    BY <1>4, Zenon DEF Quit
  <2> QED
    BY <1>0, <2>2, <2>3, Zenon DEF RiteStep
<1>5. ASSUME NEW u \in Task, Reaped(u) \/ PushHusk(u) \/ DigFail(u)
      PROVE  \A t \in Task : RiteStep(t)
  BY <1>0, <1>5 DEF Reaped, PushHusk, DigFail, RiteStep
<1>6. ASSUME NEW u \in Task, NEW h \in Hart, Dig(h, u)
      PROVE  \A t \in Task : RiteStep(t)
  BY <1>0, <1>6, Zenon DEF Dig, RiteStep
<1>7. ASSUME NEW u \in Task, Bury(u)
      PROVE  \A t \in Task : RiteStep(t)
  <2>1. \A t \in Task \ {u} : rite'[t] = rite[t] /\ reaper'[t] = reaper[t]
    BY <1>0, <1>7, Zenon DEF Bury
  <2> QED
    BY <1>7, <2>1, Zenon DEF RiteStep
<1> QED
  BY <1>1, <1>2, <1>3, <1>4, <1>5, <1>6, <1>7, ZenonT(60) DEF Next, OffReaps

\* A cause is recorded by suspend and by quit, once.
LEMMA NextCause ==
  ASSUME RoomInv, CauseDead, Next, NEW t \in Task
  PROVE  \/ cause'[t] = cause[t]
         \/ cause[t] = "None" /\ axis'[t] = "Doomed"
<1>1. ASSUME NEW h, NEW T, NEW u, NEW to, NEW P, NEW x, NEW k, NEW timed, NEW D,
             \/ TeamEmbark(h, T) \/ Spawn(h, u) \/ Debark(h, u) \/ Embark(h, u, to)
             \/ Dispatch(h, P, x) \/ BlockBeacon(h, P, x, to) \/ Join(h, k, timed)
             \/ Starve(h) \/ Advance(h) \/ Block(h) \/ Wake(k) \/ Knock(k) \/ Wipe(k)
             \/ Redeem(D) \/ Reaped(u) \/ Bury(u) \/ Signal(u, k)
      PROVE  UNCHANGED cause
  BY <1>1, ZenonT(30)
  DEF TeamEmbark, Spawn, Debark, Embark, Dispatch, BlockBeacon, Join, Queue, Starve,
      Advance, Rotate, ParkRunning, Block, Wake, Knock, Wipe, Redeem, Reaped, Bury, Signal,
      Release, Rise, taskVars
<1>2. CASE StillAction
  BY <1>2, StillFrame, Zenon DEF taskVars
<1>3. ASSUME NEW h \in Hart, NEW u \in Task, NEW c \in Cause, Suspend(h, u, c)
      PROVE  cause'[t] = cause[t] \/ (cause[t] = "None" /\ axis'[t] = "Doomed")
  BY <1>3, Zenon DEF Suspend, CauseDead, taskVars, RoomInv, TypeInv, TypeOK, TaskOK
<1>4. ASSUME NEW h \in Hart, NEW P \in SUBSET starved[h],
             NEW x \in starved[h] \cup {None}, Quit(h, P, x)
      PROVE  cause'[t] = cause[t] \/ (cause[t] = "None" /\ axis'[t] = "Doomed")
  BY <1>4 DEF Quit, Swap, RoomInv, TypeInv, TypeOK, TaskOK
<1> QED
  BY <1>1, <1>2, <1>3, <1>4, ZenonT(60) DEF Next, StillAction

\* Culls list published tasks, and leave none out that is not dead.
LEMMA NextTodo ==
  ASSUME RoomInv, Next, NEW h \in Hart, NEW t \in Task, NEW c \in Cause
  PROVE  /\ <<t, c>> \in todo'[h] => <<t, c>> \in todo[h] \/ axis[t] # "Unborn"
         /\ <<t, c>> \in todo[h] => <<t, c>> \in todo'[h] \/ axis'[t] \in {"Doomed", "Reaped"}
<1> DEFINE Fine ==
      /\ <<t, c>> \in todo'[h] => <<t, c>> \in todo[h] \/ axis[t] # "Unborn"
      /\ <<t, c>> \in todo[h] => <<t, c>> \in todo'[h] \/ axis'[t] \in {"Doomed", "Reaped"}
<1>0. todo \in [Hart -> SUBSET (Task \X Cause)]
  BY DEF RoomInv, TypeInv, TypeOK, ReapOK
<1>1. ASSUME NEW i, NEW P, NEW x, NEW u, NEW k,
             \/ OffReaps \/ Spawn(i, u) \/ Dig(i, u) \/ Quit(i, P, x) \/ Reaped(u)
             \/ PushHusk(u) \/ DigHeir(u) \/ DigFail(u) \/ Bury(u) \/ Signal(u, k)
      PROVE  Fine
  BY <1>1, ReapFrame, Zenon
  DEF Spawn, Dig, Quit, Reaped, PushHusk, DigHeir, DigFail, Bury, Signal, reapVars
<1>2. ASSUME NEW i \in Hart, NEW u \in Task, Slay(i, u)
      PROVE  Fine
  BY <1>0, <1>2, Zenon DEF Slay, Kindred, OnDuty
<1>3. ASSUME NEW i \in Hart, NEW T \in Team, TeamSlay(i, T)
      PROVE  Fine
  BY <1>0, <1>3, Zenon DEF TeamSlay, Members, OnDuty
<1>4. ASSUME NEW u \in Task, Cascade(u)
      PROVE  Fine
  BY <1>0, <1>4, Zenon DEF Cascade, Members
<1>5. ASSUME NEW i \in Hart, NEW u \in Task, NEW d \in Cause, Suspend(i, u, d)
      PROVE  Fine
  BY <1>0, <1>5, Zenon DEF Suspend, Dead, taskVars, RoomInv, TypeInv, TypeOK, TaskOK
<1> QED
  BY <1>1, <1>2, <1>3, <1>4, <1>5, ZenonT(60) DEF Next, OffReaps

-----------------------------------------------------------------------------
(* The phases of the teams (TeamState).                                    *)

Listed(t) == \E h \in Hart, c \in Cause : <<t, c>> \in todo[h]

PhaseStep ==
  \/ UNCHANGED phase
  \/ \E T \in Team : phase[T] = "Live" /\ phase' = [phase EXCEPT ![T] = "Paused"]
  \/ \E h \in Hart, T \in Team : TeamEmbark(h, T)
  \/ \E T \in Team : phase[T] = "Doomed" /\ phase' = [phase EXCEPT ![T] = "Ousted"]
  \/ \E T \in Team : /\ phase' = DoomPhase(T)
                     /\ \A t \in Members(T) : axis[t] = "Reaped" \/ Listed(t)'
  \/ \E t \in Task : Bury(t)

\* A team is closed with its whole subtree, whose tasks are reaped or listed
\* for a cull in the same step; or it is dropped when its last task goes.
LEMMA NextPhase == ASSUME LifeInv, Next PROVE PhaseStep
<1>0. todo \in [Hart -> SUBSET (Task \X Cause)] /\ heir \in [Task -> Seq(Team)]
  BY DEF LifeInv, RoomInv, TypeInv, TypeOK, ReapOK, TeamOK
<1>1. ASSUME NEW h, NEW T, NEW t, OffTeams \/ Build(h, T) \/ Spawn(h, t)
      PROVE  PhaseStep
  BY <1>1, TeamFrame, Zenon DEF Build, Spawn, teamVars, PhaseStep
<1>2. ASSUME NEW h \in Hart, NEW T \in Team, TeamDebark(h, T) \/ Oust(h, T) \/ TeamEmbark(h, T)
      PROVE  PhaseStep
  BY <1>2, Zenon DEF TeamDebark, Oust, PhaseStep
<1>3. ASSUME NEW h \in Hart, NEW T \in Team, Retire(h, T)
      PROVE  PhaseStep
  BY <1>3, Zenon DEF Retire, AllReaped, PhaseStep
<1>4. ASSUME NEW h \in Hart, NEW T \in Team, TeamSlay(h, T)
      PROVE  PhaseStep
  <2>1. \A t \in Members(T) : <<t, "Slay">> \in todo'[h]
    BY <1>0, <1>4, Zenon DEF TeamSlay
  <2>2. \A t \in Members(T) : Listed(t)'
    BY <2>1, Zenon DEF Listed, Cause
  <2> QED
    BY <1>4, <2>2, Zenon DEF TeamSlay, PhaseStep
<1>5. ASSUME NEW u \in Task, DigHeir(u)
      PROVE  PhaseStep
  <2>1. heir[u][at[u]] \in Team
    BY <1>0, <1>5 DEF DigHeir
  <2> QED
    BY <1>5, <2>1, Zenon DEF DigHeir, AllReaped, PhaseStep
<1>6. ASSUME NEW u \in Task, Cascade(u)
      PROVE  PhaseStep
  <2>1. heir[u][at[u]] \in Team
    BY <1>0, <1>6 DEF Cascade
  <2>2. reaper[u] \in Hart
    BY <1>6, Zenon DEF Cascade, LifeInv, ReaperNamed
  <2>3. \A t \in Members(heir[u][at[u]]) : <<t, "Cascade">> \in todo'[reaper[u]]
    BY <1>0, <1>6, <2>2, Zenon DEF Cascade
  <2>4. \A t \in Members(heir[u][at[u]]) : Listed(t)'
    BY <2>2, <2>3, Zenon DEF Listed, Cause
  <2> QED
    BY <1>6, <2>1, <2>4, Zenon DEF Cascade, PhaseStep
<1>7. ASSUME NEW u \in Task, Bury(u)
      PROVE  PhaseStep
  BY <1>7, Zenon DEF PhaseStep
<1> QED
  BY <1>1, <1>2, <1>3, <1>4, <1>5, <1>6, <1>7, ZenonT(60) DEF Next, OffTeams

\* What is closed stays closed.
LEMMA ClosedStays ==
  ASSUME LifeInv, Next, NEW U \in Team, phase[U] \in {"Doomed", "Ousted"}
  PROVE  phase'[U] \in {"Doomed", "Ousted"}
<1>0. phase \in [Team -> Phase]
  BY DEF LifeInv, RoomInv, TypeInv, TypeOK, TeamOK
<1>1. \/ UNCHANGED phase
      \/ \E T \in Team, p \in {"Paused", "Live"} :
           phase[T] \in {"Live", "Paused"} /\ phase' = [phase EXCEPT ![T] = p]
      \/ \E T \in Team : phase' = [phase EXCEPT ![T] = "Ousted"]
      \/ \E T \in Team : phase' = DoomPhase(T)
      \/ \E t \in Task : phase' = [T \in Team |-> IF T \in Dropped(t) THEN "Ousted" ELSE phase[T]]
  BY NextPhase, Zenon DEF PhaseStep, TeamEmbark, Bury
<1> QED
  BY <1>0, <1>1, Zenon DEF DoomPhase

\* A team that is closed and wholly reaped stays so.
LEMMA CompleteKept ==
  ASSUME LifeInv, Next, NEW T \in Team, Closed(T), AllReaped(T)
  PROVE  Closed(T)' /\ AllReaped(T)'
<1>1. Closed(T)'
  BY ClosedStays, TreeAssumption, Zenon DEF LifeInv, Closed, TreeAssumption
<1>2. ASSUME NEW h \in Hart, NEW u \in Task, Spawn(h, u)
      PROVE  TeamOf[u] \notin Under(T) /\ axis' = [axis EXCEPT ![u] = "Held"]
  BY <1>2, TreeAssumption, Zenon DEF Spawn, Closed, Under, TreeAssumption
<1>3. \A t \in Task : TeamOf[t] \in Under(T) /\ axis'[t] # "Unborn" => axis[t] # "Unborn"
  BY <1>2, NextShift, Zenon DEF Shift, LifeInv, RoomInv, TypeInv, TypeOK, TaskOK
<1>4. AllReaped(T)'
  BY <1>3, Lasting, Zenon DEF LifeInv, AllReaped, Members, Under
<1> QED
  BY <1>1, <1>4, Zenon

\* Only publish counts in, and only the end of a burial counts out.
LEMMA NextTally ==
  ASSUME Next
  PROVE  \/ UNCHANGED tally
         \/ \E h \in Hart, t \in Task : Spawn(h, t)
         \/ \E t \in Task : Bury(t)
<1>1. ASSUME NEW h, NEW T, NEW t, NEW k, NEW c, NEW P, NEW x,
             \/ OffReaps \/ TeamSlay(h, T) \/ Slay(h, t) \/ Dig(h, t) \/ Suspend(h, t, c)
             \/ Quit(h, P, x) \/ Reaped(t) \/ PushHusk(t) \/ DigHeir(t) \/ DigFail(t)
             \/ Cascade(t) \/ Signal(t, k)
      PROVE  UNCHANGED tally
  BY <1>1, ReapFrame, ZenonT(30)
  DEF TeamSlay, Slay, Dig, Suspend, Quit, Reaped, PushHusk, DigHeir, DigFail, Cascade,
      Signal, reapVars
<1> QED
  BY <1>1, ZenonT(30) DEF Next, OffReaps

-----------------------------------------------------------------------------
(* The invariant of a life is kept.                                        *)

\* A step keeps the invariant of a life.
LEMMA LifeKept ==
  ASSUME LifeInv, RoomInv, RoomInv', Next
  PROVE  LifeInv'
<1>1. CauseDead'
  BY NextCause, Lasting, Zenon DEF LifeInv, CauseDead, Dead
<1>2. TodoBorn'
  BY NextTodo, Lasting, Zenon DEF LifeInv, TodoBorn
<1>3. RiteDead'
  BY NextRite, Lasting, Zenon DEF RiteStep, Bury, LifeInv, RiteDead
<1>4. ReaperNamed'
  BY NextRite DEF LifeInv, ReaperNamed, RiteStep, Bury, RoomInv, TypeInv, TypeOK, ReapOK
<1> QED
  BY <1>1, <1>2, <1>3, <1>4, Zenon DEF LifeInv

=============================================================================
