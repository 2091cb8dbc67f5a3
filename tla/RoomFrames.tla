---------------------------- MODULE RoomFrames ----------------------------
(* The invariants the proofs about Room carry, what its steps leave alone, *)
(* and that no task escapes its containers when a hart changes the task it *)
(* runs or a task is published, paused or resumed.  RoomTypes and RoomLife *)
(* build on it, and RoomTheorems puts them together.                       *)
EXTENDS Room, TLAPS

-----------------------------------------------------------------------------
(* TypeOK is not inductive alone: block_with_call queues the task of the   *)
(* running slot under the key of the call, so the slot must be filled and  *)
(* the call made whenever a hart is in the middle of one.                  *)

CallMade == \A h \in Hart : pc[h] = "block" => call[h].key \in Slot

TypeInv == TypeOK /\ SlotFilled /\ CallMade

(* Contained is not inductive alone.  A task that leaves a hart, or is     *)
(* taken out of a queue to be seated, must carry no stale hart; and a task *)
(* whose hooks run must be off its hart before it becomes Reaped.          *)

HartNamed ==
  \A t \in Task : /\ axis[t] = "OnHart" => hart[t] \in Hart
                  /\ axis[t] \notin {"OnHart", "Doomed"} => hart[t] = None

HooksOff ==
  \A t \in Task : rite[t] = "hooks" => axis[t] = "Doomed" /\ hart[t] = None

Placed == Contained /\ HartNamed /\ HooksOff

RoomInv == TypeInv /\ Placed

\* The boot state is well typed and every hart's slot agrees with what the
\* hart is doing.
LEMMA InitType == Init => TypeInv
<1> SUFFICES ASSUME Init PROVE TypeInv
  OBVIOUS
<1>1. TaskOK /\ RoomOK /\ SiteOK
  BY NameAssumption
  DEF Init, TaskOK, RoomOK, SiteOK, Axis, Cause, NoWait, NameAssumption
<1>2. ReapOK /\ TeamOK /\ HartOK
  BY DEF Init, ReapOK, TeamOK, HartOK, Rite, Phase, NoCall
<1>3. SlotFilled /\ CallMade
  BY DEF Init, SlotFilled, CallMade
<1> QED
  BY <1>1, <1>2, <1>3 DEF TypeInv, TypeOK

-----------------------------------------------------------------------------
(* Which variables which actions leave alone.                              *)

\* The actions that touch no container.
StillAction ==
  \/ \E h \in Hart, T \in Team :
       Build(h, T) \/ TeamDebark(h, T) \/ TeamSlay(h, T) \/ Retire(h, T) \/ Oust(h, T)
  \/ \E h \in Hart, t \in Task : Slay(h, t) \/ Dig(h, t)
  \/ \E h \in Hart : Trap(h) \/ BlockFail(h)
  \/ \E h \in Hart, k \in Slot, timed \in BOOLEAN : Wait(h, k, timed)
  \/ \E t \in Task : PushHusk(t) \/ DigHeir(t) \/ DigFail(t) \/ Cascade(t)

\* They leave the tasks, the queues and the wait sites alone.
LEMMA StillFrame ==
  StillAction => UNCHANGED <<taskVars, roomVars, chain, timers>>
BY ZenonT(30) DEF StillAction, Build, TeamDebark, TeamSlay, Retire, Oust, Slay, Dig, Trap,
   BlockFail, Wait, PushHusk, DigHeir, DigFail, Cascade, siteVars

\* The actions that touch no wait site.
OffSites ==
  \/ \E h \in Hart, T \in Team :
       \/ Build(h, T) \/ TeamDebark(h, T) \/ TeamEmbark(h, T)
       \/ TeamSlay(h, T) \/ Retire(h, T) \/ Oust(h, T)
  \/ \E h \in Hart, t \in Task :
       \/ Spawn(h, t) \/ Debark(h, t) \/ Slay(h, t) \/ Dig(h, t)
       \/ \E to \in Hart : Embark(h, t, to)
  \/ \E h \in Hart, P \in SUBSET Queued, x \in Queued \cup {None} : Dispatch(h, P, x)
  \/ \E h \in Hart : \E P \in SUBSET starved[h], x \in starved[h] \cup {None} : Quit(h, P, x)
  \/ \E h \in Hart : Starve(h) \/ Trap(h) \/ Advance(h) \/ BlockFail(h)
  \/ \E t \in Task : Reaped(t) \/ PushHusk(t) \/ DigHeir(t) \/ DigFail(t) \/ Cascade(t)

\* They leave the chains, the pending beacons and the deadlines alone.
LEMMA SiteFrame == OffSites => UNCHANGED siteVars
<1>1. ASSUME NEW h, NEW T, NEW t, NEW to, NEW P, NEW x,
             \/ Build(h, T) \/ TeamDebark(h, T) \/ TeamEmbark(h, T) \/ TeamSlay(h, T)
             \/ Retire(h, T) \/ Oust(h, T) \/ Spawn(h, t) \/ Debark(h, t) \/ Slay(h, t)
             \/ Dig(h, t) \/ Embark(h, t, to) \/ Dispatch(h, P, x) \/ Quit(h, P, x)
             \/ Starve(h) \/ Trap(h) \/ Advance(h) \/ BlockFail(h) \/ Reaped(t)
             \/ PushHusk(t) \/ DigHeir(t) \/ DigFail(t) \/ Cascade(t)
      PROVE  UNCHANGED siteVars
  BY <1>1, ZenonT(30)
  DEF Build, TeamDebark, TeamEmbark, TeamSlay, Retire, Oust, Spawn, Debark, Slay, Dig,
      Embark, Dispatch, Quit, Starve, Trap, Advance, BlockFail, Reaped, PushHusk,
      DigHeir, DigFail, Cascade, Rotate, ParkRunning
<1> QED
  BY <1>1, ZenonT(30) DEF OffSites

\* The actions that have no part in a death.
OffReaps ==
  \/ \E h \in Hart, T \in Team :
       Build(h, T) \/ TeamDebark(h, T) \/ TeamEmbark(h, T) \/ Retire(h, T) \/ Oust(h, T)
  \/ \E h \in Hart, t \in Task : Debark(h, t) \/ \E to \in Hart : Embark(h, t, to)
  \/ \E h \in Hart, P \in SUBSET Queued, x \in Queued \cup {None} : Dispatch(h, P, x)
  \/ \E h \in Hart : \E P \in SUBSET starved[h], x \in starved[h] \cup {None} :
       \E to \in Hart : BlockBeacon(h, P, x, to)
  \/ \E h \in Hart, k \in Slot, timed \in BOOLEAN : Wait(h, k, timed)
  \/ \E h \in Hart, k \in Task \cup Team, timed \in BOOLEAN : Join(h, k, timed)
  \/ \E h \in Hart :
       Starve(h) \/ Trap(h) \/ Advance(h) \/ Block(h) \/ BlockFail(h)
  \/ \E k \in Slot : Wake(k) \/ Knock(k) \/ Wipe(k)
  \/ \E D \in SUBSET timers : D # {} /\ Redeem(D)

\* The actions that start, advance or end no rite leave the rites alone.
LEMMA ReapFrame == OffReaps => UNCHANGED reapVars
<1>1. ASSUME NEW h, NEW T, NEW t, NEW to, NEW P, NEW x, NEW k, NEW timed, NEW D,
             \/ Build(h, T) \/ TeamDebark(h, T) \/ TeamEmbark(h, T)
             \/ Retire(h, T) \/ Oust(h, T) \/ Debark(h, t)
             \/ Embark(h, t, to) \/ Dispatch(h, P, x) \/ BlockBeacon(h, P, x, to)
             \/ Wait(h, k, timed) \/ Join(h, k, timed)
             \/ Starve(h) \/ Trap(h) \/ Advance(h) \/ Block(h) \/ BlockFail(h)
             \/ Wake(k) \/ Knock(k) \/ Wipe(k) \/ Redeem(D)
      PROVE  UNCHANGED reapVars
  BY <1>1, ZenonT(30)
  DEF Build, TeamDebark, TeamEmbark, Retire, Oust, Debark, Embark, Dispatch, BlockBeacon,
      Wait, Join, Queue, Starve, Trap, Advance, Block, BlockFail, Wake, Knock, Wipe, Redeem,
      Rotate, ParkRunning
<1> QED
  BY <1>1, ZenonT(30) DEF OffReaps

\* The actions that leave the teams alone.
OffTeams ==
  \/ \E h \in Hart, t \in Task :
       \/ Debark(h, t) \/ Slay(h, t) \/ Dig(h, t)
       \/ \E to \in Hart : Embark(h, t, to)
       \/ \E c \in Cause : Suspend(h, t, c)
  \/ \E h \in Hart, P \in SUBSET Queued, x \in Queued \cup {None} : Dispatch(h, P, x)
  \/ \E h \in Hart : \E P \in SUBSET starved[h], x \in starved[h] \cup {None} :
       \/ Quit(h, P, x)
       \/ \E to \in Hart : BlockBeacon(h, P, x, to)
  \/ \E h \in Hart, k \in Slot, timed \in BOOLEAN : Wait(h, k, timed)
  \/ \E h \in Hart, k \in Task \cup Team, timed \in BOOLEAN : Join(h, k, timed)
  \/ \E h \in Hart :
       Starve(h) \/ Trap(h) \/ Advance(h) \/ Block(h) \/ BlockFail(h)
  \/ \E k \in Slot : Wake(k) \/ Knock(k) \/ Wipe(k)
  \/ \E D \in SUBSET timers : D # {} /\ Redeem(D)
  \/ \E t \in Task :
       \/ Reaped(t) \/ PushHusk(t) \/ DigFail(t)
       \/ \E k \in Task \cup Team : Signal(t, k)

\* The actions that build, close or join no team leave the teams alone.
LEMMA TeamFrame == OffTeams => UNCHANGED teamVars
<1>1. ASSUME NEW h, NEW t, NEW to, NEW P, NEW x, NEW k, NEW timed, NEW D, NEW c,
             \/ Debark(h, t) \/ Embark(h, t, to) \/ Slay(h, t) \/ Dig(h, t)
             \/ Suspend(h, t, c) \/ Quit(h, P, x)
             \/ Dispatch(h, P, x) \/ BlockBeacon(h, P, x, to)
             \/ Wait(h, k, timed) \/ Join(h, k, timed)
             \/ Starve(h) \/ Trap(h) \/ Advance(h) \/ Block(h) \/ BlockFail(h)
             \/ Wake(k) \/ Knock(k) \/ Wipe(k) \/ Redeem(D)
             \/ Reaped(t) \/ PushHusk(t) \/ DigFail(t) \/ Signal(t, k)
      PROVE  UNCHANGED teamVars
  BY <1>1, ZenonT(30)
  DEF Debark, Embark, Slay, Dig, Suspend, Quit, Dispatch, BlockBeacon, Wait, Join, Queue,
      Starve, Trap, Advance, Block, BlockFail, Wake, Knock, Wipe, Redeem, Rotate, ParkRunning,
      Reaped, PushHusk, DigFail, Signal
<1> QED
  BY <1>1, ZenonT(30) DEF OffTeams

\* The actions after which every hart is where it was.
OffHarts ==
  \/ \E h \in Hart, T \in Team :
       \/ Build(h, T) \/ TeamDebark(h, T) \/ TeamEmbark(h, T)
       \/ TeamSlay(h, T) \/ Retire(h, T) \/ Oust(h, T)
  \/ \E h \in Hart, t \in Task :
       \/ Spawn(h, t) \/ Dig(h, t)
       \/ \E to \in Hart : Embark(h, t, to)
       \/ \E c \in Cause : Suspend(h, t, c)
  \/ \E k \in Slot : Wake(k) \/ Knock(k) \/ Wipe(k)
  \/ \E D \in SUBSET timers : D # {} /\ Redeem(D)
  \/ \E t \in Task :
       \/ Reaped(t) \/ DigHeir(t) \/ Bury(t) \/ Cascade(t)
       \/ \E k \in Task \cup Team : Signal(t, k)

\* The actions that seat nobody leave the harts alone.
LEMMA HartFrame == OffHarts => UNCHANGED <<running, hartVars>>
<1>1. ASSUME NEW h, NEW T, NEW t, NEW to, NEW k, NEW D, NEW c,
             \/ Build(h, T) \/ TeamDebark(h, T) \/ TeamEmbark(h, T) \/ TeamSlay(h, T)
             \/ Retire(h, T) \/ Oust(h, T) \/ Spawn(h, t) \/ Embark(h, t, to)
             \/ Dig(h, t) \/ Suspend(h, t, c)
             \/ Wake(k) \/ Knock(k) \/ Wipe(k) \/ Redeem(D)
             \/ Reaped(t) \/ DigHeir(t) \/ Bury(t) \/ Cascade(t) \/ Signal(t, k)
      PROVE  UNCHANGED <<running, hartVars>>
  BY <1>1, ZenonT(30)
  DEF Build, TeamDebark, TeamEmbark, TeamSlay, Retire, Oust, Spawn, Embark, Dig, Suspend,
      Wake, Knock, Wipe, Redeem, Reaped, DigHeir, Bury, Cascade, Signal, Release, Rise,
      roomVars
<1> QED
  BY <1>1, ZenonT(30) DEF OffHarts

\* A hart in user code, in a blocking call or about to quit runs a task.
LEMMA Runs ==
  ASSUME TypeInv, NEW h \in Hart, pc[h] \in {"user", "block", "quit"}
  PROVE  running[h] \in Task
BY DEF TypeInv, TypeOK, RoomOK, SlotFilled

\* Waiters are woken (wake, knock, wipe, signal, redeem, and bury's wipe).
Waking ==
  \/ \E k \in Slot : Wake(k) \/ Knock(k) \/ Wipe(k)
  \/ \E D \in SUBSET timers : D # {} /\ Redeem(D)
  \/ \E t \in Task : Bury(t) \/ \E k \in Task \cup Team : Signal(t, k)

\* No task starts its hooks.
NoHooks == \A t \in Task : rite'[t] = "hooks" => rite[t] = "hooks"

\* A step that moves no task and starts no rite keeps every task placed.
LEMMA StillPlaced ==
  ASSUME RoomInv, UNCHANGED <<taskVars, roomVars, chain>>,
         NoHooks
  PROVE  Placed'
BY DEF NoHooks, taskVars, roomVars, RoomInv, TypeInv, TypeOK, TaskOK, RoomOK, SiteOK, Placed,
    Contained, PenMatches, QueueMatches, OneQueue, SeatMatches, ChainMatches, HartNamed,
    HooksOff, InPen, InQueue, Seated

-----------------------------------------------------------------------------
(* The running task gives up its hart.                                     *)

\* What swap does to everyone but the running task c: the next task x from
\* the queue to the hart, the stopped ones P to the pen.
Swapped(h, c, P, x) ==
  /\ running' = [running EXCEPT ![h] = x]
  /\ hart'[c] = None /\ axis'[c] # "OnHart"
  /\ \A t \in Task \ {c} :
       /\ axis'[t] = IF t = x THEN "OnHart" ELSE IF t \in P THEN "Parked" ELSE axis[t]
       /\ hart'[t] = IF t = x THEN h ELSE hart[t]
       /\ paused'[t] = paused[t] /\ wait'[t] = wait[t]
       /\ t \in held' <=> t \in held \cup P
       /\ \A q \in Hart : t \in starved'[q] <=> t \in starved[q] \ (P \cup {x})
       /\ \A k \in Key : t \in chain'[k] <=> t \in chain[k]

\* The task that leaves the hart is put where its new state says.
Lands(c) ==
  /\ c \in held' <=> InPen(c)'
  /\ (\E q \in Hart : c \in starved'[q]) <=> InQueue(c)'
  /\ \A p, q \in Hart : c \in starved'[p] /\ c \in starved'[q] => p = q
  /\ axis'[c] = "Waiting" => wait'[c].key \in Key
  /\ \A k \in Key : c \in chain'[k] <=> (axis'[c] = "Waiting" /\ wait'[c].key = k)

\* The running task c leaves hart h; it may start its hooks.
Leaves(h, c, P, x) ==
  /\ running[h] = c /\ P \subseteq starved[h] /\ x \in starved[h] \cup {None}
  /\ x \notin P /\ Swapped(h, c, P, x) /\ Lands(c)
  /\ \A t \in Task : rite'[t] = "hooks" => \/ rite[t] = "hooks"
                                           \/ t = c /\ axis'[c] = "Doomed"

\* If in addition the task that leaves the hart is put where its new state
\* says, everyone is placed (Conductor::swap).
LEMMA SwapPlaced ==
  ASSUME RoomInv, NEW h \in Hart, NEW c \in Task, NEW P, NEW x, Leaves(h, c, P, x)
  PROVE  Placed'
<1>l. /\ running[h] = c /\ P \subseteq starved[h] /\ x \in starved[h] \cup {None}
      /\ x \notin P /\ Swapped(h, c, P, x) /\ Lands(c)
      /\ \A t \in Task : rite'[t] = "hooks" => \/ rite[t] = "hooks"
                                               \/ t = c /\ axis'[c] = "Doomed"
  BY Zenon DEF Leaves
<1>0. /\ running \in [Hart -> Task \cup {None}] /\ starved \in [Hart -> SUBSET Task]
      /\ PenMatches /\ QueueMatches /\ OneQueue /\ ChainMatches /\ SeatMatches /\ HartNamed /\ HooksOff
  BY DEF RoomInv, TypeInv, TypeOK, RoomOK, Placed, Contained
<1>1. /\ c # x /\ c \notin P /\ Seated(c) /\ hart[c] = h
      /\ \A t \in P : t \in Task /\ InQueue(t)
      /\ x \in Task => InQueue(x)
  BY <1>l, <1>0, NameAssumption DEF SeatMatches, QueueMatches, InQueue, Seated, NameAssumption
<1>2. PenMatches'
  BY <1>l, <1>0, <1>1 DEF Swapped, Lands, PenMatches, InPen, InQueue
<1>3. QueueMatches'
  BY <1>l, <1>0, <1>1 DEF Swapped, Lands, QueueMatches, InQueue
<1>4. OneQueue'
  BY <1>l, <1>0, <1>1 DEF Swapped, Lands, OneQueue
<1>7. ChainMatches'
  BY <1>l, <1>0, <1>1 DEF Swapped, Lands, ChainMatches, InQueue
<1>5. SeatMatches'
  BY <1>l, <1>0, <1>1, NameAssumption DEF Swapped, SeatMatches, Seated, InQueue, NameAssumption
<1>6. HartNamed' /\ HooksOff'
  BY <1>l, <1>0, <1>1, NameAssumption DEF Swapped, HartNamed, HooksOff, Seated, InQueue, NameAssumption
<1> QED
  BY <1>2, <1>3, <1>4, <1>5, <1>6, <1>7, Zenon DEF Placed, Contained

\* The running task is in no container, and each task of its hart's queue is
\* ready, not paused, and in no other queue.
LEMMA Leaver ==
  ASSUME RoomInv, NEW h \in Hart, NEW c \in Task, running[h] = c
  PROVE  /\ Seated(c) /\ hart[c] = h
         /\ c \notin held /\ \A k \in Key : c \notin chain[k]
         /\ \A q \in Hart : c \notin starved[q]
         /\ \A t \in starved[h] : /\ t \in Task /\ ~paused[t] /\ axis[t] = "Ready"
                                  /\ \A q \in Hart : t \in starved[q] => q = h
BY DEF RoomInv, TypeInv, TypeOK, RoomOK, Placed, Contained, PenMatches, QueueMatches,
   OneQueue, SeatMatches, ChainMatches, InPen, InQueue, Seated

\* The task a pop returns is not among the stopped ones it skips.
LEMMA Popped ==
  ASSUME RoomInv, NEW h \in Hart, NEW P, NEW x, Pop(starved[h], P, x)
  PROVE  x \notin P
<1>1. None \notin starved[h]
  BY NameAssumption DEF NameAssumption, RoomInv, TypeInv, TypeOK, RoomOK
<1> QED
  BY <1>1, Zenon DEF Pop

\* A stopped running task goes to the pen.
LEMMA ParkRunningPlaced ==
  ASSUME RoomInv, NEW h \in Hart, running[h] \in Task, axis[running[h]] # "Doomed",
         NEW P \in SUBSET starved[h], NEW x \in starved[h] \cup {running[h], None},
         ParkRunning(h, P, x)
  PROVE  Placed'
<1>1. /\ x \in starved[h] \cup {None} /\ x \notin P
      /\ \A t \in Task : rite'[t] = rite[t]
  <2>1. x \notin P /\ x \in starved[h] \cup {None}
    BY Popped, Zenon DEF ParkRunning, Pop
  <2> QED
    BY <2>1, Zenon DEF ParkRunning, reapVars
<1>c. PICK c \in Task : c = running[h]
  BY Zenon
<1>2. Swapped(h, c, P, x)
  BY <1>1, <1>c, Leaver, NameAssumption, SMTT(30) DEF ParkRunning, siteVars, Seated,
      SeatAxis, SeatHart, ParkAxis, Swapped, RoomInv, TypeInv, TypeOK, TaskOK, RoomOK,
      NameAssumption
<1>3. Lands(c)
  BY <1>1, <1>c, Leaver, SMTT(30) DEF ParkRunning, siteVars, Seated, SeatAxis, ParkAxis,
      Lands, InPen, InQueue, RoomInv, TypeInv, TypeOK, TaskOK, RoomOK
<1>4. Leaves(h, c, P, x)
  BY <1>1, <1>c, <1>2, <1>3, Zenon DEF Leaves
<1> QED
  BY <1>4, SwapPlaced, Zenon

\* rotate moves the running task to the queue and one of the queue, or the
\* same task again, to the hart.
LEMMA RotatePlaced ==
  ASSUME RoomInv, NEW h \in Hart, running[h] \in Task, axis[running[h]] # "Doomed",
         ~Stopped(running[h]), NEW P \in SUBSET starved[h],
         NEW x \in starved[h] \cup {running[h], None}, Rotate(h, P, x)
  PROVE  Placed'
<1>1. /\ x \in Task /\ x \notin P /\ ~paused[running[h]]
      /\ \A t \in Task : rite'[t] = rite[t]
  BY Leaver DEF Rotate, Pop, Stopped, reapVars
<1>c. PICK c \in Task : c = running[h]
  BY Zenon
<1>2. CASE x = c
  <2>1. /\ \A t \in starved[h] : t # c /\ ~paused[t] /\ axis[t] = "Ready"
        /\ \A t \in starved[h], q \in Hart : t \in starved[q] => q = h
        /\ Seated(c) /\ hart[c] = h /\ \A q \in Hart : c \notin starved[q]
    BY <1>c, Leaver, Zenon
  <2>2. /\ \A t \in Task : axis'[t] = IF t \in P THEN "Parked" ELSE axis[t]
        /\ \A t \in Task : hart'[t] = hart[t]
    BY <1>1, <1>c, <1>2, <2>1, Zenon DEF Rotate, Seated, SeatAxis, SeatHart, ParkAxis
  <2>3. \A t \in Task, q \in Hart : t \in starved'[q] <=> t \in starved[q] \ P
    BY <1>1, <1>c, <1>2, <2>1, Zenon DEF Rotate, RoomInv, TypeInv, TypeOK, RoomOK
  <2>4. /\ held' = held \cup P /\ running' = [running EXCEPT ![h] = c]
        /\ UNCHANGED <<paused, wait, chain>>
    BY <1>c, <1>2, Zenon DEF Rotate, siteVars
  <2>5. /\ PenMatches /\ QueueMatches /\ OneQueue /\ ChainMatches /\ SeatMatches
        /\ HartNamed /\ HooksOff /\ running \in [Hart -> Task \cup {None}]
    BY Zenon DEF RoomInv, TypeInv, TypeOK, RoomOK, Placed, Contained
  <2>6. PenMatches' /\ QueueMatches'
    BY <2>1, <2>2, <2>3, <2>4, <2>5 DEF PenMatches, QueueMatches, InPen, InQueue
  <2>7. OneQueue' /\ ChainMatches'
    BY <2>1, <2>2, <2>3, <2>4, <2>5 DEF OneQueue, ChainMatches
  <2>8. SeatMatches'
    BY <1>c, <2>1, <2>2, <2>4, <2>5 DEF SeatMatches, Seated
  <2>9. HartNamed' /\ HooksOff'
    BY <1>1, <2>1, <2>2, <2>5 DEF HartNamed, HooksOff
  <2> QED
    BY <2>6, <2>7, <2>8, <2>9, Zenon DEF Placed, Contained
<1>3. CASE x # c
  <2>1. x \in starved[h]
    BY <1>1, <1>c, <1>3, NameAssumption, Zenon DEF NameAssumption
  <2>2. Swapped(h, c, P, x)
    BY <1>1, <1>c, <1>3, <2>1, Leaver, NameAssumption, SMTT(30)
    DEF Rotate, siteVars, Seated, SeatAxis, SeatHart, ParkAxis, Swapped, RoomInv, TypeInv,
        TypeOK, TaskOK, RoomOK, NameAssumption
  <2>3. Lands(c)
    BY <1>1, <1>c, <1>3, Leaver, SMTT(30) DEF Rotate, siteVars, Seated, SeatAxis, Lands, InPen,
       InQueue, RoomInv, TypeInv, TypeOK, TaskOK, RoomOK
  <2>4. Leaves(h, c, P, x)
    BY <1>1, <1>c, <2>1, <2>2, <2>3, Zenon DEF Leaves
  <2> QED
    BY <2>4, SwapPlaced, Zenon
<1> QED
  BY <1>2, <1>3, Zenon

\* block_with_call puts the running task on the chain of its key.
LEMMA QueuePlaced ==
  ASSUME RoomInv, NEW h \in Hart, running[h] \in Task, NEW k \in Key,
         NEW timed \in BOOLEAN, NEW join \in BOOLEAN, NEW P \in SUBSET starved[h],
         NEW x \in starved[h] \cup {None}, NEW n \in Ticket,
         Queue(h, k, timed, join, P, x, n)
  PROVE  Placed'
<1>1. x \notin P /\ \A t \in Task : rite'[t] = rite[t]
  BY Popped, Zenon DEF Queue, Swap, reapVars
<1>c. PICK c \in Task : c = running[h]
  BY Zenon
<1>2. Swapped(h, c, P, x)
  BY <1>1, <1>c, Leaver, NameAssumption, SMTT(30) DEF Queue, Swap, SiteOK, Seated,
      SeatAxis, SeatHart, ParkAxis, Swapped, RoomInv, TypeInv, TypeOK, TaskOK, RoomOK,
      NameAssumption
<1>3. Lands(c)
  BY <1>1, <1>c, Leaver, SMTT(30) DEF Queue, Swap, SiteOK, Seated, SeatAxis, ParkAxis,
      Lands, InPen, InQueue, RoomInv, TypeInv, TypeOK, TaskOK, RoomOK
<1>4. Leaves(h, c, P, x)
  BY <1>1, <1>c, <1>2, <1>3, Zenon DEF Leaves
<1> QED
  BY <1>4, SwapPlaced, Zenon

\* A task whose wake came early goes back to a queue, or to the pen.
LEMMA BlockBeaconPlaced ==
  ASSUME RoomInv, NEW h \in Hart, NEW P \in SUBSET starved[h],
         NEW x \in starved[h] \cup {None}, NEW to \in Hart, BlockBeacon(h, P, x, to)
  PROVE  Placed'
<1>1. running[h] \in Task /\ x \notin P /\ \A t \in Task : rite'[t] = rite[t]
  BY Runs, Popped, Zenon DEF BlockBeacon, Swap, reapVars, RoomInv
<1>c. PICK c \in Task : c = running[h]
  BY <1>1, Zenon
<1>2. Swapped(h, c, P, x)
  BY <1>1, <1>c, Leaver, NameAssumption, SMTT(30) DEF BlockBeacon, Swap, Launch, Penned,
      Seated, SeatAxis, SeatHart, ParkAxis, Swapped, RoomInv, TypeInv, TypeOK, TaskOK,
      RoomOK, NameAssumption
<1>3. Lands(c)
  BY <1>1, <1>c, Leaver, SMTT(30) DEF BlockBeacon, Swap, Launch, Penned, Seated,
      SeatAxis, ParkAxis, Lands, InPen, InQueue, RoomInv, TypeInv, TypeOK, TaskOK,
      RoomOK
<1>4. Leaves(h, c, P, x)
  BY <1>1, <1>c, <1>2, <1>3, Zenon DEF Leaves
<1> QED
  BY <1>4, SwapPlaced, Zenon

\* quit takes the running task off its hart.
LEMMA QuitPlaced ==
  ASSUME RoomInv, NEW h \in Hart, NEW P \in SUBSET starved[h],
         NEW x \in starved[h] \cup {None}, Quit(h, P, x)
  PROVE  Placed'
<1>1. running[h] \in Task /\ x \notin P /\ \A t \in Task \ {running[h]} : rite'[t] = rite[t]
  <2>1. running[h] \in Task
    BY Runs, Zenon DEF Quit, OnDuty, RoomInv
  <2>2. x \notin P
    BY Popped, Zenon DEF Quit, Swap
  <2> QED
    BY <2>1, <2>2 DEF Quit, RoomInv, TypeInv, TypeOK, ReapOK
<1>c. PICK c \in Task : c = running[h]
  BY <1>1, Zenon
<1>2. Swapped(h, c, P, x)
  BY <1>1, <1>c, Leaver, NameAssumption, SMTT(30) DEF Quit, Swap, siteVars, Seated,
      SeatAxis, SeatHart, ParkAxis, Swapped, RoomInv, TypeInv, TypeOK, TaskOK, RoomOK,
      NameAssumption
<1>3. Lands(c) /\ axis'[c] = "Doomed"
  BY <1>1, <1>c, Leaver, SMTT(30) DEF Quit, Swap, siteVars, Seated, SeatAxis, ParkAxis,
      Lands, InPen, InQueue, RoomInv, TypeInv, TypeOK, TaskOK, RoomOK
<1>4. Leaves(h, c, P, x)
  BY <1>1, <1>c, <1>2, <1>3, Zenon DEF Leaves
<1> QED
  BY <1>4, SwapPlaced, Zenon

-----------------------------------------------------------------------------
\* The boot state has one task, in one ready queue.
LEMMA InitPlaced == Init => Placed
BY NameAssumption DEF Init, NameAssumption, Placed, Contained, PenMatches, QueueMatches,
    OneQueue, SeatMatches, ChainMatches, HartNamed, HooksOff, InPen, InQueue, Seated

-----------------------------------------------------------------------------
(* Publishing, pausing and resuming.                                       *)

\* A published task is in the pen.
LEMMA SpawnPlaced ==
  ASSUME RoomInv, NEW h \in Hart, NEW t \in Task, Spawn(h, t)
  PROVE  Placed'
BY DEF Spawn, siteVars, RoomInv, TypeInv, TypeOK, TaskOK, RoomOK, SiteOK, Placed,
    Contained, PenMatches, QueueMatches, OneQueue, SeatMatches, ChainMatches, HartNamed,
    HooksOff, InPen, InQueue, Seated

\* Task::embark moves the task from the pen to one queue, or leaves it where
\* it waits.
LEMMA EmbarkPlaced ==
  ASSUME RoomInv, NEW h \in Hart, NEW t \in Task, NEW to \in Hart, Embark(h, t, to)
  PROVE  Placed'
<1>1. QueueMatches'
  <2>1. CASE axis[t] = "Waiting"
    BY <2>1
    DEF Embark, RoomInv, TypeInv, TypeOK, TaskOK, Placed, Contained, QueueMatches, InQueue
  <2>2. CASE axis[t] # "Waiting"
    <3>1. /\ \A q \in Hart : starved'[q] = IF q = to THEN starved[q] \cup {t}
                                                    ELSE starved[q]
          /\ \A u \in Task : axis'[u] = (IF u = t THEN "Ready" ELSE axis[u])
                               /\ paused'[u] = (IF u = t THEN FALSE ELSE paused[u])
      BY <2>2, Zenon DEF Embark, RoomInv, TypeInv, TypeOK, TaskOK, RoomOK
    <3> QED
      BY <3>1, ZenonT(30) DEF RoomInv, Placed, Contained, QueueMatches, InQueue
  <2> QED
    BY <2>1, <2>2, Zenon
<1>2. OneQueue'
  BY SMTT(30) DEF Embark, RoomInv, TypeInv, TypeOK, TaskOK, RoomOK, Placed, Contained,
     QueueMatches, OneQueue, InQueue
<1>3. PenMatches' /\ SeatMatches' /\ ChainMatches' /\ HartNamed' /\ HooksOff'
  BY DEF Embark, siteVars, reapVars, RoomInv, TypeInv, TypeOK, TaskOK, RoomOK, Placed, Contained,
     PenMatches, SeatMatches, ChainMatches, HartNamed, HooksOff, InPen, Seated
<1> QED
  BY <1>1, <1>2, <1>3 DEF Placed, Contained

\* Task::debark moves a queued task to the pen.
LEMMA DebarkPlaced ==
  ASSUME RoomInv, NEW h \in Hart, NEW t \in Task, Debark(h, t)
  PROVE  Placed'
BY DEF Debark, Dead, siteVars, reapVars, RoomInv, TypeInv, TypeOK, TaskOK, RoomOK,
    SiteOK, Placed, Contained, PenMatches, QueueMatches, OneQueue, SeatMatches,
    ChainMatches, HartNamed, HooksOff, InPen, InQueue, Seated

\* Team::embark moves the parked members from the pen to one queue each.
LEMMA TeamEmbarkPlaced ==
  ASSUME RoomInv, NEW h \in Hart, NEW T \in Team, TeamEmbark(h, T)
  PROVE  Placed'
<1>0. /\ TaskOK /\ RoomOK /\ SiteOK /\ PenMatches /\ QueueMatches /\ OneQueue /\ SeatMatches
      /\ ChainMatches /\ HartNamed /\ HooksOff
  BY Zenon DEF RoomInv, TypeInv, TypeOK, Placed, Contained
<1> DEFINE S == Unparked(T)
<1>1. S \subseteq Task /\ \A t \in S : axis[t] = "Parked"
  BY Zenon DEF Unparked, Members
<1>2. PICK to \in [S -> Hart] :
        /\ axis' = [t \in Task |-> IF t \in S THEN "Ready" ELSE axis[t]]
        /\ paused' = [t \in Task |-> paused[t] /\ t \notin S]
        /\ starved' = [q \in Hart |-> starved[q] \cup {t \in S : to[t] = q}]
        /\ held' = held \ S
  BY Zenon DEF TeamEmbark
<1>3. UNCHANGED <<hart, wait, running, chain, rite>>
  BY Zenon DEF TeamEmbark, siteVars, reapVars
<1> HIDE DEF S
<1>4. PenMatches'
  BY <1>0, <1>1, <1>2, <1>3, Zenon DEF TaskOK, RoomOK, PenMatches, InPen
<1>5. QueueMatches' /\ OneQueue'
  BY <1>0, <1>1, <1>2, <1>3, ZenonT(30) DEF TaskOK, RoomOK, QueueMatches, OneQueue, InQueue
<1>6. SeatMatches' /\ ChainMatches'
  BY <1>0, <1>1, <1>2, <1>3, SMTT(30) DEF TaskOK, SiteOK, SeatMatches, ChainMatches, Seated
<1>7. HartNamed' /\ HooksOff'
  BY <1>0, <1>1, <1>2, <1>3, Zenon DEF TaskOK, HartNamed, HooksOff
<1> QED
  BY <1>4, <1>5, <1>6, <1>7, Zenon DEF Placed, Contained

-----------------------------------------------------------------------------
(* The conductor.                                                          *)

\* dispatch moves one task from a queue to the idle hart, stopped ones to
\* the pen.
LEMMA DispatchPlaced ==
  ASSUME RoomInv, NEW h \in Hart, NEW P \in SUBSET Queued,
         NEW x \in Queued \cup {None}, Dispatch(h, P, x)
  PROVE  Placed'
<1>1. running[h] = None
  BY DEF Dispatch, RoomInv, TypeInv, SlotFilled
<1>2. \A t \in Queued : t \in Task /\ InQueue(t)
  BY Zenon DEF Queued, RoomInv, TypeInv, TypeOK, RoomOK, Placed, Contained, QueueMatches
<1>3. /\ P \subseteq Task /\ \A t \in P : InQueue(t) /\ t # x
      /\ x \in Task => InQueue(x)
  BY <1>2, NameAssumption, SMTT(30) DEF Dispatch, Pop, NameAssumption
<1>4. /\ \A t \in Task : axis'[t] = IF t = x THEN "OnHart"
                                     ELSE IF t \in P THEN "Parked" ELSE axis[t]
      /\ \A t \in Task : hart'[t] = IF t = x THEN h ELSE hart[t]
  BY <1>3 DEF Dispatch, InQueue, SeatAxis, SeatHart, ParkAxis
<1>0. /\ RoomOK /\ PenMatches /\ QueueMatches /\ OneQueue /\ SeatMatches /\ ChainMatches
      /\ HartNamed /\ HooksOff
  BY Zenon DEF RoomInv, TypeInv, TypeOK, Placed, Contained
<1>5. PenMatches' /\ QueueMatches' /\ OneQueue' /\ ChainMatches'
  BY <1>0, <1>3, <1>4, SMTT(30) DEF Dispatch, siteVars, RoomOK, PenMatches, QueueMatches,
     OneQueue, ChainMatches, InPen, InQueue
<1>6. SeatMatches' /\ HartNamed' /\ HooksOff'
  BY <1>0, <1>1, <1>3, <1>4, NameAssumption, SMTT(30)
  DEF Dispatch, reapVars, RoomOK, SeatMatches, HartNamed, HooksOff, InQueue, Seated, NameAssumption
<1> QED
  BY <1>5, <1>6, Zenon DEF Placed, Contained

-----------------------------------------------------------------------------
(* The end of a turn, and blocking.                                        *)

\* A turn ends: the running task is parked, rotated, kept, or found doomed.
LEMMA TurnPlaced ==
  ASSUME RoomInv, NEW h \in Hart, Starve(h) \/ Advance(h)
  PROVE  Placed'
<1>1. running[h] # None => running[h] \in Task
  BY DEF RoomInv, TypeInv, TypeOK, RoomOK
<1>2. OnDuty(h) => running[h] # None
  BY DEF OnDuty, RoomInv, TypeInv, SlotFilled
<1> QED
  BY <1>1, <1>2, StillPlaced, ParkRunningPlaced, RotatePlaced, ZenonT(30)
  DEF NoHooks, Starve, Advance, siteVars, reapVars

\* A wait or a join blocks.
LEMMA BlockPlaced ==
  ASSUME RoomInv, NEW h \in Hart,
         Block(h) \/ \E k \in Task \cup Team, timed \in BOOLEAN : Join(h, k, timed)
  PROVE  Placed'
<1>1. /\ running[h] \in Task
      /\ Block(h) => call[h].key \in Key /\ call[h].timed \in BOOLEAN
      /\ Task \cup Team \subseteq Key
  <2>1. pc[h] \in {"user", "block"}
    BY Zenon DEF Block, Join, OnDuty
  <2> QED
    BY <2>1, Runs, Zenon DEF Block, RoomInv, TypeInv, CallMade, TypeOK, HartOK, Key
<1> QED
  BY <1>1, StillPlaced, QueuePlaced, ZenonT(30) DEF NoHooks, Block, Join, siteVars, reapVars

=============================================================================
