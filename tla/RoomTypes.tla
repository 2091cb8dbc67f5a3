---------------------------- MODULE RoomTypes ----------------------------
(* No task escapes its containers when it is woken or dies, and the types  *)
(* of Room, for every number of tasks, harts, teams and keys.              *)
EXTENDS RoomFrames

-----------------------------------------------------------------------------
(* Waking and dying.                                                       *)

\* Waiters that rise go from their chains to one queue each, or to the pen
\* when they are paused (messenger::rise).
LEMMA RisePlaced ==
  ASSUME RoomInv, NEW S \in SUBSET Task, NEW to \in [S -> Hart],
         \A t \in S : axis[t] = "Waiting", Rise(S, to), NoHooks
  PROVE  Placed'
BY SMTT(30) DEF NoHooks, Rise, Penned, Launch, RoomInv, TypeInv, TypeOK, TaskOK, RoomOK, SiteOK,
    Placed, Contained, PenMatches, QueueMatches, OneQueue, SeatMatches, ChainMatches,
    HartNamed, HooksOff, InPen, InQueue, Seated

\* The same when a whole chain is released.
LEMMA ReleasePlaced ==
  ASSUME RoomInv, NEW k \in Key, Release(k), NoHooks
  PROVE  Placed'
<1>1. PICK R \in SUBSET Requeued(k) :
        \E to \in [chain[k] \ R -> Hart] : Rise(chain[k] \ R, to)
  BY Zenon DEF Release
<1>2. chain[k] \ R \in SUBSET Task /\ \A t \in chain[k] \ R : axis[t] = "Waiting"
  BY DEF RoomInv, TypeInv, TypeOK, SiteOK, Placed, Contained, ChainMatches
<1> QED
  BY <1>1, <1>2, RisePlaced

\* suspend marks a task on a hart, and takes any other out of its container.
LEMMA SuspendPlaced ==
  ASSUME RoomInv, NEW h \in Hart, NEW t \in Task, NEW c \in Cause, Suspend(h, t, c)
  PROVE  Placed'
<1>0. /\ TaskOK /\ RoomOK /\ SiteOK /\ ReapOK /\ PenMatches /\ QueueMatches /\ OneQueue
      /\ SeatMatches /\ ChainMatches /\ HartNamed /\ HooksOff
  BY Zenon DEF RoomInv, TypeInv, TypeOK, Placed, Contained
<1>1. CASE Dead(t)
  BY <1>1, StillPlaced, Zenon DEF NoHooks, Suspend, siteVars
<1>2. CASE ~Dead(t) /\ axis[t] = "OnHart"
  <2>1. /\ axis' = [axis EXCEPT ![t] = "Doomed"] /\ paused' = [paused EXCEPT ![t] = FALSE]
        /\ UNCHANGED <<hart, wait, running, starved, held, chain, rite>>
    BY <1>2, Zenon DEF Suspend
  <2>2. PenMatches' /\ QueueMatches' /\ OneQueue'
    BY <1>0, <1>2, <2>1, SMTT(30) DEF TaskOK, PenMatches, QueueMatches, OneQueue, InPen, InQueue
  <2>3. SeatMatches' /\ ChainMatches' /\ HartNamed' /\ HooksOff'
    BY <1>0, <1>2, <2>1, NameAssumption
    DEF TaskOK, SeatMatches, ChainMatches, HartNamed, HooksOff, Seated, NameAssumption
  <2> QED
    BY <2>2, <2>3, Zenon DEF Placed, Contained
<1>3. CASE ~Dead(t) /\ axis[t] # "OnHart"
  <2>1. /\ axis' = [axis EXCEPT ![t] = "Doomed"] /\ paused' = [paused EXCEPT ![t] = FALSE]
        /\ wait' = [wait EXCEPT ![t] = NoWait]
        /\ starved' = [q \in Hart |-> starved[q] \ {t}] /\ held' = held \ {t}
        /\ chain' = [k \in Key |-> chain[k] \ {t}]
        /\ rite' = [rite EXCEPT ![t] = "hooks"]
        /\ UNCHANGED <<hart, running>> /\ hart[t] = None
    BY <1>0, <1>3, Zenon DEF Suspend, Dead, HartNamed
  <2>2. PenMatches' /\ QueueMatches' /\ OneQueue' /\ HartNamed' /\ HooksOff'
    BY <1>0, <2>1, Zenon DEF TaskOK, RoomOK, ReapOK, PenMatches, QueueMatches, OneQueue, HartNamed, HooksOff, InPen, InQueue
  <2>3. SeatMatches' /\ ChainMatches'
    BY <1>0, <1>3, <2>1, SMTT(30) DEF TaskOK, SiteOK, Dead, SeatMatches, ChainMatches, Seated
  <2> QED
    BY <2>2, <2>3, Zenon DEF Placed, Contained
<1> QED
  BY <1>1, <1>2, <1>3, Zenon

\* A task that becomes Reaped is in no container any more.
LEMMA ReapedPlaced ==
  ASSUME RoomInv, NEW t \in Task, Reaped(t)
  PROVE  Placed'
BY SMTT(30) DEF Reaped, roomVars, siteVars, ReapOK, RoomInv, TypeInv, TypeOK, TaskOK,
    RoomOK, SiteOK, Placed, Contained, PenMatches, QueueMatches, OneQueue, SeatMatches,
    ChainMatches, HartNamed, HooksOff, InPen, InQueue, Seated

\* The actions that touch no container move no task.
LEMMA StillActionPlaced == ASSUME RoomInv, StillAction PROVE Placed'
<1>1. \/ UNCHANGED rite
      \/ \E t \in Task : \/ rite' = [rite EXCEPT ![t] = "dig"]
                         \/ rite' = [rite EXCEPT ![t] = "husk"]
  BY ZenonT(30) DEF StillAction, Build, TeamDebark, TeamSlay, Retire, Oust, Slay, Dig, Trap,
     BlockFail, Wait, PushHusk, DigHeir, DigFail, Cascade, reapVars
<1>2. NoHooks
  BY <1>1 DEF NoHooks, RoomInv, TypeInv, TypeOK, ReapOK
<1> QED
  BY <1>2, StillFrame, StillPlaced, Zenon

\* Every way of waking: the waiters rise, and only a burial changes a rite.
LEMMA WakingPlaced ==
  ASSUME RoomInv, NEW k \in Key,
         Wake(k) \/ Knock(k) \/ Wipe(k) \/ (\E t \in Task : Signal(t, k) \/ Bury(k))
  PROVE  Placed'
<1>1. NoHooks
  BY Zenon DEF NoHooks, RoomInv, TypeInv, TypeOK, ReapOK, Wake, Knock, Wipe, Signal, Bury, reapVars
<1>2. ASSUME NEW t \in chain[k], NEW to \in Hart, Rise({t}, [u \in {t} |-> to])
      PROVE  Placed'
  <2>1. t \in Task /\ axis[t] = "Waiting"
    BY DEF RoomInv, TypeInv, TypeOK, SiteOK, Placed, Contained, ChainMatches
  <2>2. /\ {t} \in SUBSET Task /\ [u \in {t} |-> to] \in [{t} -> Hart]
        /\ \A u \in {t} : axis[u] = "Waiting"
    BY <2>1
  <2> QED
    BY <1>1, <1>2, <2>2, RisePlaced, Zenon
<1> QED
  BY <1>1, <1>2, ReleasePlaced, StillPlaced, ZenonT(30) DEF Wake, Knock, Wipe, Signal, Bury

\* redeem wakes the waits that are due.
LEMMA RedeemPlaced ==
  ASSUME RoomInv, NEW D \in SUBSET timers, Redeem(D)
  PROVE  Placed'
<1> DEFINE S == {t \in Task : \E m \in D : t \in chain[m.key]
                                          /\ wait[t].ticket = m.ticket}
<1>1. (\E to \in [S -> Hart] : Rise(S, to)) /\ UNCHANGED rite
  BY Zenon DEF Redeem, reapVars
<1>2. S \in SUBSET Task /\ \A t \in S : axis[t] = "Waiting"
  BY SMTT(30)
  DEF RoomInv, TypeInv, TypeOK, SiteOK, Timer, Placed, Contained, ChainMatches
<1>3. NoHooks
  BY <1>1, Zenon DEF NoHooks
<1> HIDE DEF S
<1> QED
  BY <1>1, <1>2, <1>3, RisePlaced, Zenon

-----------------------------------------------------------------------------
(* What several actions share.                                             *)

\* What a step leaves alone keeps its type.
LEMMA Frame ==
  ASSUME TypeInv
  PROVE  /\ UNCHANGED taskVars => TaskOK'
         /\ UNCHANGED roomVars => RoomOK'
         /\ UNCHANGED siteVars => SiteOK'
         /\ UNCHANGED reapVars => ReapOK'
         /\ UNCHANGED teamVars => TeamOK'
         /\ UNCHANGED <<running, hartVars>> => HartOK' /\ CallMade' /\ SlotFilled'
BY DEF TypeInv, TypeOK, taskVars, TaskOK, roomVars, RoomOK, siteVars, SiteOK, reapVars,
    ReapOK, teamVars, TeamOK, hartVars, HartOK, CallMade, SlotFilled

\* Taking a team out of a list of heirs leaves a list of teams (Task::oust).
LEMMA WithoutType ==
  ASSUME NEW s \in Seq(Team), NEW T \in Team
  PROVE  Without(s, T) \in Seq(Team)
<1>1. ASSUME NEW i \in DOMAIN s
      PROVE  SubSeq(s, 1, i - 1) \o SubSeq(s, i + 1, Len(s)) \in Seq(Team)
  <2>1. SubSeq(s, 1, i - 1) \in Seq(Team) /\ SubSeq(s, i + 1, Len(s)) \in Seq(Team)
    OBVIOUS
  <2> QED
    BY <2>1
<1> QED
  BY <1>1, Zenon DEF Without

\* The empty wait is one of the waits TaskOK allows.
LEMMA NoWaitType ==
  NoWait \in [key : Key \cup {None}, ticket : Ticket \cup {None}, join : BOOLEAN]
BY DEF NoWait

\* Waiters that rise keep the types (messenger::rise).
LEMMA RiseType ==
  ASSUME TypeInv, NEW S \in SUBSET Task, NEW to \in [S -> Hart], Rise(S, to)
  PROVE  TaskOK' /\ RoomOK' /\ chain' \in [Key -> SUBSET Task] /\ running' = running
BY DEF Rise, NoWait, Axis, Launch, Penned, TypeInv, TypeOK, TaskOK, RoomOK, SiteOK

\* The same when a whole chain is released.
LEMMA ReleaseType ==
  ASSUME TypeInv, NEW k \in Key, Release(k)
  PROVE  /\ TaskOK' /\ RoomOK' /\ chain' \in [Key -> SUBSET Task]
         /\ timers' \subseteq Timer /\ running' = running
<1>1. PICK R \in SUBSET Requeued(k) :
        \E to \in [chain[k] \ R -> Hart] :
          Rise(chain[k] \ R, to) /\ timers' = Void(chain[k] \ R)
  BY Zenon DEF Release
<1> QED
  BY <1>1, RiseType, Zenon DEF Void, TypeInv, TypeOK, SiteOK

\* swap and what goes with it in quit and block_with_call.
LEMMA SwapType ==
  ASSUME TypeInv, NEW h \in Hart, NEW c \in Task, NEW a \in Axis,
         NEW P \in SUBSET starved[h], NEW x \in starved[h] \cup {None},
         Swap(h, c, a, P, x)
  PROVE  /\ axis' \in [Task -> Axis] /\ hart' \in [Task -> Hart \cup {None}]
         /\ running' \in [Hart -> Task \cup {None}]
         /\ held \cup P \subseteq Task
         /\ [starved EXCEPT ![h] = @ \ (P \cup {x})] \in [Hart -> SUBSET Task]
BY Zenon DEF Swap, SeatAxis, SeatHart, ParkAxis, Axis, TypeInv, TypeOK, TaskOK, RoomOK

\* Queueing the running task on a site (block_with_call's commit section).
LEMMA QueueType ==
  ASSUME TypeInv, NEW h \in Hart, running[h] \in Task, NEW k \in Key,
         NEW timed \in BOOLEAN, NEW join \in BOOLEAN, NEW P \in SUBSET starved[h],
         NEW x \in starved[h] \cup {None}, NEW n \in Ticket,
         Queue(h, k, timed, join, P, x, n)
  PROVE  TaskOK' /\ RoomOK' /\ SiteOK' /\ HartOK' /\ CallMade' /\ SlotFilled'
<1>1. wait' \in [Task -> [key : Key \cup {None}, ticket : Ticket \cup {None},
                          join : BOOLEAN]]
  BY Zenon DEF Queue, TypeInv, TypeOK, TaskOK
<1>2. TaskOK' /\ RoomOK'
  BY <1>1, SwapType, Zenon DEF Queue, Axis, TypeInv, TypeOK, TaskOK, RoomOK
<1>3. SiteOK' /\ HartOK' /\ CallMade' /\ SlotFilled'
  BY NameAssumption
  DEF Queue, Swap, Timer, NoCall, TypeInv, TypeOK, RoomOK, SiteOK, HartOK, CallMade,
      SlotFilled, NameAssumption
<1> QED
  BY <1>2, <1>3

\* A turn ends by rotating the queue or parking the running task.
LEMMA TurnType ==
  ASSUME TypeInv, NEW h \in Hart, running[h] \in Task, NEW P \in SUBSET starved[h],
         NEW x \in starved[h] \cup {running[h], None},
         Rotate(h, P, x) \/ ParkRunning(h, P, x), Seat(h, x)
  PROVE  TaskOK' /\ RoomOK' /\ HartOK' /\ CallMade' /\ SlotFilled'
<1>1. axis' \in [Task -> Axis]
  BY DEF Rotate, ParkRunning, SeatAxis, ParkAxis, Axis, TypeInv, TypeOK, TaskOK
<1>9. hart' \in [Task -> Hart \cup {None}]
  BY Zenon DEF Rotate, ParkRunning, SeatHart, TypeInv, TypeOK, TaskOK
<1>2. TaskOK'
  BY <1>1, <1>9, Zenon DEF Rotate, ParkRunning, TypeInv, TypeOK, TaskOK
<1>3. RoomOK' /\ HartOK' /\ CallMade' /\ SlotFilled'
  BY NameAssumption
  DEF Rotate, ParkRunning, Seat, TypeInv, TypeOK, HartOK, RoomOK, CallMade, SlotFilled,
      NameAssumption
<1> QED
  BY <1>2, <1>3, Zenon

\* A turn ends, or goes on with the same task (starve, advance).
LEMMA TurnsType ==
  ASSUME TypeInv, NEW h \in Hart, Starve(h) \/ Advance(h)
  PROVE  TypeInv'
<1>1. SiteOK' /\ ReapOK' /\ TeamOK'
  BY SiteFrame, ReapFrame, TeamFrame, Frame, Zenon DEF OffSites, OffReaps, OffTeams
<1>2. /\ running[h] # None => running[h] \in Task
      /\ Starve(h) => running[h] # None
  BY Zenon DEF Starve, OnDuty, TypeInv, TypeOK, RoomOK, SlotFilled
<1>3. CASE /\ UNCHANGED <<taskVars, roomVars, call>>
           /\ \E l \in {"idle", "quit", "user"} :
                pc' = [pc EXCEPT ![h] = l] /\ (running[h] = None <=> l = "idle")
  BY <1>1, <1>3, Frame, Zenon DEF TypeInv, TypeOK, HartOK, CallMade, SlotFilled, roomVars
<1>4. CASE \E P \in SUBSET starved[h], x \in starved[h] \cup {running[h], None} :
             running[h] \in Task /\ (Rotate(h, P, x) \/ ParkRunning(h, P, x)) /\ Seat(h, x)
  BY <1>1, <1>4, TurnType, Zenon DEF TypeInv, TypeOK
<1> QED
  BY <1>2, <1>3, <1>4, ZenonT(30) DEF Starve, Advance

\* A wait or a join blocks, or its caller is found doomed.
LEMMA BlocksType ==
  ASSUME TypeInv, NEW h \in Hart,
         Block(h) \/ \E k \in Task \cup Team, timed \in BOOLEAN : Join(h, k, timed)
  PROVE  TypeInv'
<1>1. ReapOK' /\ TeamOK'
  BY ReapFrame, TeamFrame, Frame, Zenon DEF OffReaps, OffTeams
<1>2. running[h] \in Task
  BY Runs, Zenon DEF Block, Join, OnDuty
<1>3. /\ Block(h) => call[h].key \in Key /\ call[h].timed \in BOOLEAN
      /\ Task \cup Team \subseteq Key
  BY Zenon DEF Block, TypeInv, TypeOK, HartOK, CallMade, Key
<1>4. CASE /\ pc' = [pc EXCEPT ![h] = "quit"]
           /\ UNCHANGED <<taskVars, roomVars, siteVars, call>>
  BY <1>1, <1>2, <1>4, Frame, NameAssumption, Zenon
  DEF TypeInv, TypeOK, HartOK, CallMade, SlotFilled, roomVars, NameAssumption
<1>5. CASE \E k \in Key, d \in BOOLEAN, w \in BOOLEAN, P \in SUBSET starved[h],
             x \in starved[h] \cup {None}, n \in Ticket : Queue(h, k, d, w, P, x, n)
  BY <1>1, <1>2, <1>5, QueueType, Zenon DEF TypeInv, TypeOK
<1> QED
  BY <1>3, <1>4, <1>5, ZenonT(30) DEF Block, Join

\* Waking keeps the types.
LEMMA WakingType ==
  ASSUME TypeInv, Waking
  PROVE  TaskOK' /\ RoomOK' /\ SiteOK' /\ HartOK' /\ CallMade' /\ SlotFilled'
<1>1. Slot \subseteq Key /\ Task \subseteq Key /\ Team \subseteq Key
  BY Zenon DEF Key
<1>2. ASSUME NEW k \in Slot, NEW t \in chain[k], NEW to \in Hart,
             Rise({t}, [u \in {t} |-> to]), timers' = Void({t})
      PROVE  TaskOK' /\ RoomOK' /\ chain' \in [Key -> SUBSET Task] /\ timers' \subseteq Timer
  <2>1. {t} \in SUBSET Task /\ [u \in {t} |-> to] \in [{t} -> Hart]
    BY Zenon DEF TypeInv, TypeOK, SiteOK, Key
  <2> QED
    BY <1>2, <2>1, RiseType DEF Void, TypeInv, TypeOK, SiteOK
<1>3. ASSUME NEW D \in SUBSET timers, Redeem(D)
      PROVE  TaskOK' /\ RoomOK' /\ chain' \in [Key -> SUBSET Task] /\ timers' \subseteq Timer
  BY <1>3, RiseType, Zenon DEF Redeem, TypeInv, TypeOK, SiteOK
<1>4. ASSUME UNCHANGED <<taskVars, roomVars, chain, timers>>
      PROVE  TaskOK' /\ RoomOK' /\ chain' \in [Key -> SUBSET Task] /\ timers' \subseteq Timer
  BY <1>4, Frame, Zenon DEF TypeInv, TypeOK, SiteOK
<1>5. TaskOK' /\ RoomOK' /\ chain' \in [Key -> SUBSET Task] /\ timers' \subseteq Timer
  BY <1>1, <1>2, <1>3, <1>4, ReleaseType, ZenonT(30)
  DEF Waking, Wake, Knock, Wipe, Signal, Bury, TypeInv, TypeOK, SiteOK
<1>6. pend' \subseteq Slot
  BY Zenon DEF Waking, Wake, Knock, Wipe, Signal, Bury, Redeem, TypeInv, TypeOK, SiteOK
<1> QED
  BY <1>5, <1>6, HartFrame, Frame, Zenon DEF Waking, OffHarts, SiteOK

-----------------------------------------------------------------------------
(* The other actions, one group of variables after the other.              *)

\* dispatch keeps the types.
LEMMA DispatchType ==
  ASSUME TypeInv, NEW h \in Hart, NEW P \in SUBSET Queued,
         NEW x \in Queued \cup {None}, Dispatch(h, P, x)
  PROVE  TypeInv'
<1>1. TaskOK' /\ RoomOK' /\ HartOK' /\ CallMade' /\ SlotFilled'
  BY NameAssumption
  DEF Dispatch, Axis, SeatAxis, SeatHart, ParkAxis, Seat, Queued, TypeInv, TypeOK, TaskOK,
      RoomOK, HartOK, CallMade, SlotFilled, NameAssumption
<1> QED
  BY <1>1, SiteFrame, ReapFrame, TeamFrame, Frame, Zenon
  DEF TypeInv, TypeOK, OffSites, OffReaps, OffTeams

\* A wake that came early keeps the types.
LEMMA BlockBeaconType ==
  ASSUME TypeInv, NEW h \in Hart, NEW P \in SUBSET starved[h],
         NEW x \in starved[h] \cup {None}, NEW to \in Hart, BlockBeacon(h, P, x, to)
  PROVE  TypeInv'
<1>1. running[h] \in Task /\ Swap(h, running[h], "Ready", P, x) /\ "Ready" \in Axis
  BY Runs DEF BlockBeacon, Axis
<1>2. TaskOK'
  BY <1>1, SwapType, Zenon DEF BlockBeacon, TypeInv, TypeOK, TaskOK
<1>3. RoomOK' /\ SiteOK' /\ HartOK' /\ CallMade' /\ SlotFilled'
  BY <1>1, NameAssumption
  DEF BlockBeacon, Swap, Launch, Penned, NoCall, TypeInv, TypeOK, SiteOK, HartOK, RoomOK,
      CallMade, SlotFilled, NameAssumption
<1> QED
  BY <1>2, <1>3, ReapFrame, TeamFrame, Frame, Zenon
  DEF TypeInv, TypeOK, OffReaps, OffTeams

\* The first half of quit keeps the types.
LEMMA QuitType ==
  ASSUME TypeInv, NEW h \in Hart, NEW P \in SUBSET starved[h],
         NEW x \in starved[h] \cup {None}, Quit(h, P, x)
  PROVE  TypeInv'
<1>1. running[h] \in Task /\ Swap(h, running[h], "Doomed", P, x) /\ "Doomed" \in Axis
  BY Runs, Zenon DEF Quit, OnDuty, Axis
<1>2. TaskOK' /\ RoomOK'
  BY <1>1, SwapType, Zenon DEF Quit, Cause, TypeInv, TypeOK, TaskOK, RoomOK
<1>3. ReapOK' /\ HartOK' /\ CallMade' /\ SlotFilled'
  BY <1>1, NameAssumption
  DEF Quit, Swap, Rite, TypeInv, TypeOK, ReapOK, HartOK, RoomOK, CallMade, SlotFilled,
      NameAssumption
<1> QED
  BY <1>2, <1>3, SiteFrame, TeamFrame, Frame, Zenon
  DEF TypeInv, TypeOK, OffSites, OffTeams

\* The tasks and the queues, after every step.
LEMMA TaskType == ASSUME TypeInv, Next PROVE TaskOK' /\ RoomOK'
<1>1. ASSUME NEW h \in Hart, NEW T \in Team, TeamEmbark(h, T)
      PROVE  TaskOK' /\ RoomOK'
  BY <1>1 DEF TeamEmbark, Unparked, Members, Axis, TypeInv, TypeOK, TaskOK, RoomOK
<1>2. ASSUME NEW h \in Hart, NEW t \in Task, Spawn(h, t) \/ Debark(h, t)
      PROVE  TaskOK' /\ RoomOK'
  <2>1. TaskOK'
    BY <1>2, Zenon DEF Spawn, Debark, Axis, TypeInv, TypeOK, TaskOK
  <2> QED
    BY <1>2, <2>1 DEF Spawn, Debark, TypeInv, TypeOK, RoomOK
<1>3. ASSUME NEW h \in Hart, NEW t \in Task, NEW to \in Hart, Embark(h, t, to)
      PROVE  TaskOK' /\ RoomOK'
  BY <1>3 DEF Embark, Axis, TypeInv, TypeOK, TaskOK, RoomOK
<1>4. ASSUME NEW h \in Hart, NEW t \in Task, NEW c \in Cause, Suspend(h, t, c)
      PROVE  TaskOK' /\ RoomOK'
  <2>1. wait' \in [Task -> [key : Key \cup {None}, ticket : Ticket \cup {None},
                             join : BOOLEAN]]
    BY <1>4, NoWaitType DEF Suspend, TypeInv, TypeOK, TaskOK, taskVars
  <2>2. TaskOK'
    <3>1. \/ UNCHANGED taskVars
          \/ /\ axis' = [axis EXCEPT ![t] = "Doomed"] /\ UNCHANGED hart
             /\ paused' = [paused EXCEPT ![t] = FALSE] /\ cause' = [cause EXCEPT ![t] = c]
      BY <1>4, Zenon DEF Suspend
    <3> QED
      BY <2>1, <3>1, Frame, Zenon DEF TypeInv, TypeOK, TaskOK, Axis
  <2> QED
    <3>1. /\ UNCHANGED running
          /\ \/ UNCHANGED <<starved, held>>
             \/ starved' = [q \in Hart |-> starved[q] \ {t}] /\ held' = held \ {t}
      BY <1>4, Zenon DEF Suspend, roomVars
    <3> QED
      BY <2>2, <3>1, Zenon DEF TypeInv, TypeOK, RoomOK
<1>5. ASSUME NEW t \in Task, Reaped(t) PROVE TaskOK' /\ RoomOK'
  BY <1>5, Zenon DEF Reaped, Axis, roomVars, TypeInv, TypeOK, TaskOK, RoomOK
<1> QED
  BY <1>1, <1>2, <1>3, <1>4, <1>5, StillFrame, Frame, WakingType, DispatchType,
     BlockBeaconType, QuitType, TurnsType, BlocksType, ZenonT(30)
  DEF Next, StillAction, Waking, TypeInv, TypeOK

\* The wait sites.
LEMMA SiteType == ASSUME TypeInv, Next PROVE SiteOK'
<1>1. ASSUME NEW h \in Hart, NEW k \in Slot, NEW timed \in BOOLEAN, Wait(h, k, timed)
      PROVE  SiteOK'
  BY <1>1, Zenon DEF Wait, TypeInv, TypeOK, SiteOK
<1>2. ASSUME NEW h \in Hart, NEW t \in Task, NEW c \in Cause, Suspend(h, t, c)
      PROVE  SiteOK'
  BY <1>2 DEF Suspend, Void, siteVars, TypeInv, TypeOK, SiteOK
<1> QED
  BY <1>1, <1>2, SiteFrame, Frame, WakingType, BlockBeaconType, BlocksType, ZenonT(30)
  DEF Next, OffSites, Waking, TypeInv, TypeOK

\* The rites, the lists of the harts that cull, and the tally.
LEMMA ReapType == ASSUME TypeInv, Next PROVE ReapOK'
<1>1. ASSUME NEW h \in Hart, NEW T \in Team, TeamSlay(h, T) PROVE ReapOK'
  BY <1>1, Zenon DEF TeamSlay, Members, Cause, TypeInv, TypeOK, ReapOK
<1>2. ASSUME NEW h \in Hart, NEW t \in Task, Slay(h, t) \/ Spawn(h, t) \/ Dig(h, t)
      PROVE  ReapOK'
  BY <1>2 DEF Slay, Spawn, Dig, Cause, Rite, TypeInv, TypeOK, ReapOK
<1>3. ASSUME NEW h \in Hart, NEW t \in Task, NEW c \in Cause, Suspend(h, t, c)
      PROVE  ReapOK'
  BY <1>3, SMTT(30) DEF Suspend, Rite, TypeInv, TypeOK, ReapOK
<1>4. ASSUME NEW t \in Task, Cascade(t) PROVE ReapOK'
  <2>1. at[t] + 1 \in Nat /\ Members(heir[t][at[t]]) \X {"Cascade"} \subseteq Task \X Cause
    BY DEF Members, Cause, TypeInv, TypeOK, ReapOK
  <2> QED
    BY <1>4, <2>1, Zenon DEF Cascade, TypeInv, TypeOK, ReapOK
<1>5. ASSUME NEW t \in Task, Reaped(t) PROVE ReapOK'
  <2>1. {t} \cup Above[TeamOf[t]] \subseteq Task \cup Team
    BY TreeAssumption, Zenon DEF TreeAssumption
  <2> QED
    BY <1>5, <2>1, Zenon DEF Reaped, Rite, TypeInv, TypeOK, ReapOK
<1>6. ASSUME NEW t \in Task,
             \/ PushHusk(t) \/ DigFail(t) \/ DigHeir(t) \/ Bury(t)
             \/ \E k \in Task \cup Team : Signal(t, k)
      PROVE  ReapOK'
  BY <1>6 DEF PushHusk, DigFail, DigHeir, Bury, Signal, Rite, TypeInv, TypeOK, ReapOK
<1> QED
  BY <1>1, <1>2, <1>3, <1>4, <1>5, <1>6, ReapFrame, Frame, QuitType, ZenonT(30)
  DEF Next, OffReaps, TypeInv, TypeOK

\* The teams: built, paused, closed, and the lists of heirs.
LEMMA TeamType == ASSUME TypeInv, Next PROVE TeamOK'
<1>1. ASSUME NEW h \in Hart, NEW T \in Team, Build(h, T) PROVE TeamOK'
  <2>1. Sire[T] \in Task
    BY <1>1, TreeAssumption, Zenon DEF Build, TreeAssumption
  <2>2. Append(heir[Sire[T]], T) \in Seq(Team)
    BY <2>1 DEF TypeInv, TypeOK, TeamOK
  <2> QED
    BY <1>1, <2>1, <2>2, Zenon DEF Build, TypeInv, TypeOK, TeamOK
<1>2. ASSUME NEW h \in Hart, NEW T \in Team, Oust(h, T) PROVE TeamOK'
  BY <1>2, WithoutType, Zenon DEF Oust, Phase, TypeInv, TypeOK, TeamOK
<1>3. ASSUME NEW h, NEW T \in Team, NEW t \in Task,
             \/ TeamDebark(h, T) \/ TeamEmbark(h, T) \/ TeamSlay(h, T) \/ Retire(h, T)
             \/ Spawn(h, t) \/ Cascade(t) \/ DigHeir(t) \/ Bury(t)
      PROVE  TeamOK'
  BY <1>3, Zenon DEF TeamDebark, TeamEmbark, TeamSlay, Retire, Spawn, Cascade, DigHeir, Bury,
     DoomPhase, Phase, TypeInv, TypeOK, TeamOK
<1>4. Task # {} /\ Team # {}
  BY NameAssumption, TreeAssumption, Zenon DEF NameAssumption, TreeAssumption
<1> QED
  BY <1>1, <1>2, <1>3, <1>4, TeamFrame, Frame, ZenonT(30) DEF Next, OffTeams

\* What each hart is in the middle of.
LEMMA HartType == ASSUME TypeInv, Next PROVE HartOK' /\ CallMade' /\ SlotFilled'
<1> DEFINE Goal == HartOK' /\ CallMade' /\ SlotFilled'
<1>1. ASSUME NEW h \in Hart, NEW t \in Task, Debark(h, t) \/ Slay(h, t) PROVE Goal
  BY <1>1, Zenon DEF Debark, Slay, OnDuty, roomVars, TypeInv, TypeOK, HartOK, CallMade, SlotFilled
<1>2. ASSUME NEW h \in Hart, Trap(h) \/ BlockFail(h) PROVE Goal
  <2>1. HartOK'
    <3>1. Trap(h) => HartOK'
      BY Zenon DEF Trap, TypeInv, TypeOK, HartOK
    <3>2. BlockFail(h) => HartOK'
      BY DEF BlockFail, NoCall, TypeInv, TypeOK, HartOK
    <3> QED
      BY <1>2, <3>1, <3>2, Zenon
  <2> QED
    BY <1>2, <2>1, SMTT(30)
    DEF Trap, BlockFail, OnDuty, roomVars, TypeInv, TypeOK, HartOK, CallMade, SlotFilled
<1>3. ASSUME NEW h \in Hart, NEW k \in Slot, NEW timed \in BOOLEAN, Wait(h, k, timed)
      PROVE  Goal
  BY <1>3 DEF Wait, OnDuty, roomVars, hartVars, TypeInv, TypeOK, HartOK, CallMade, SlotFilled
<1>4. ASSUME NEW t \in Task, PushHusk(t) \/ DigFail(t) PROVE Goal
  <2>1. PICK l : /\ pc' = [pc EXCEPT ![reaper[t]] = l]
                 /\ l \in {"run", "next", pc[reaper[t]]} /\ UNCHANGED <<running, call>>
    BY <1>4, Zenon DEF PushHusk, DigFail, roomVars
  <2> QED
    BY <2>1, Zenon DEF TypeInv, TypeOK, HartOK, CallMade, SlotFilled
<1> QED
  BY <1>1, <1>2, <1>3, <1>4, HartFrame, Frame, DispatchType, BlockBeaconType, QuitType,
     TurnsType, BlocksType, ZenonT(30)
  DEF Next, OffHarts, TypeInv, TypeOK

\* Every step keeps the types.
LEMMA NextType == TypeInv /\ [Next]_vars => TypeInv'
<1> SUFFICES ASSUME TypeInv, [Next]_vars PROVE TypeInv'
  OBVIOUS
<1>1. CASE UNCHANGED vars
  BY <1>1, Frame, Zenon DEF vars, roomVars, TypeInv, TypeOK
<1>2. CASE Next
  BY <1>2, TaskType, SiteType, ReapType, TeamType, HartType, Zenon DEF TypeInv, TypeOK
<1> QED
  BY <1>1, <1>2, Zenon

=============================================================================
