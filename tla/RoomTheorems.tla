---------------------------- MODULE RoomTheorems ----------------------------
(* The theorems about Room, for every number of tasks, harts, teams and    *)
(* keys and every tree of teams.  RoomFrames and RoomTypes keep the        *)
(* containers and the types, RoomLife the course of a life, RoomWait the   *)
(* waits; here the steps are put together.                                 *)
EXTENDS RoomTypes, RoomWait, FiniteSetTheorems

-----------------------------------------------------------------------------
(* Types and containers.                                                   *)

\* Every state the kernel reaches is well typed, and a hart that is in user
\* code, in a blocking call or about to quit has a task in its running slot.
THEOREM TypeCorrect == Spec => [](TypeOK /\ SlotFilled)
<1>1. TypeInv => TypeOK /\ SlotFilled
  BY DEF TypeInv
<1> QED
  BY <1>1, InitType, NextType, PTL DEF Spec

\* Every step leaves each task in the container its state names.
LEMMA NextPlaced == RoomInv /\ [Next]_vars => Placed'
<1> SUFFICES ASSUME RoomInv, [Next]_vars PROVE Placed'
  OBVIOUS
<1>1. CASE UNCHANGED vars
  BY <1>1, StillPlaced, Zenon DEF NoHooks, vars, siteVars, reapVars
<1>2. Slot \subseteq Key /\ Task \subseteq Key /\ Team \subseteq Key
  BY Zenon DEF Key
<1>3. CASE Next
  BY <1>2, <1>3, StillActionPlaced, WakingPlaced, SpawnPlaced, EmbarkPlaced, DebarkPlaced,
     TeamEmbarkPlaced, DispatchPlaced, QuitPlaced, BlockBeaconPlaced, BlockPlaced,
     TurnPlaced, RedeemPlaced, SuspendPlaced, ReapedPlaced, ZenonT(30)
  DEF Next, StillAction
<1> QED
  BY <1>1, <1>3, Zenon

\* No task escapes every container, none is in two, for any number of tasks,
\* harts and teams: what suspend asserts of the task it meets (doom.rs:38-47)
\* and what dispatch promises while it steals (dispatch.rs:6).
THEOREM Containment == Spec => []Contained
<1>1. Init => RoomInv
  BY InitType, InitPlaced, Zenon DEF RoomInv
<1>2. RoomInv /\ [Next]_vars => RoomInv'
  BY NextType, NextPlaced, Zenon DEF RoomInv
<1>3. RoomInv => Contained
  BY DEF RoomInv, Placed
<1> QED
  BY <1>1, <1>2, <1>3, PTL DEF Spec

-----------------------------------------------------------------------------
(* Life and death.                                                         *)

\* A step, or a stutter, keeps the invariant of a life.
LEMMA NextLife == LifeInv /\ [Next]_vars => LifeInv'
<1> SUFFICES ASSUME LifeInv, [Next]_vars PROVE LifeInv'
  OBVIOUS
<1>1. RoomInv' /\ RoomInv
  BY NextType, NextPlaced, Zenon DEF LifeInv, RoomInv
<1>2. CASE UNCHANGED vars
  BY <1>1, <1>2, Zenon
  DEF LifeInv, CauseDead, TodoBorn, RiteDead, ReaperNamed, Dead, vars, taskVars, reapVars
<1>3. CASE Next
  BY <1>1, <1>3, LifeKept
<1> QED
  BY <1>2, <1>3, Zenon

\* The invariant the properties of a life rest on.
LEMMA Living == Spec => []LifeInv
<1>1. Init => LifeInv
  BY InitType, InitPlaced, Zenon
  DEF RoomInv, LifeInv, Init, CauseDead, TodoBorn, RiteDead, ReaperNamed
<1> QED
  BY <1>1, NextLife, PTL DEF Spec

\* Death is final and has one cause, for any number of tasks and harts: reap
\* and suspend find a task already dying and leave its cause alone.
THEOREM DeathIsFinal == Spec => DeathFinal
<1>1. LifeInv /\ [Next]_vars =>
        [\A t \in Task : /\ axis[t] = "Reaped" => axis'[t] = "Reaped"
                         /\ axis[t] = "Doomed" => axis'[t] \in {"Doomed", "Reaped"}
                         /\ cause[t] # "None" => cause'[t] = cause[t]]_vars
  BY Lasting, NextCause, Zenon DEF LifeInv, Dead
<1> QED
  BY <1>1, Living, PTL DEF Spec, DeathFinal

\* A stopped task is not put on a hart, for any number of tasks, harts and
\* teams (starved_pop and seat look at the pause of every team above it).
THEOREM StoppedIsOff == Spec => StoppedStaysOff
<1>1. LifeInv /\ [Next]_vars =>
        [\A t \in Task : axis[t] # "OnHart" /\ Stopped(t) => axis'[t] # "OnHart"]_vars
  BY Lasting, Zenon DEF LifeInv
<1> QED
  BY <1>1, Living, PTL DEF Spec, StoppedStaysOff

\* A closed team that is wholly reaped stays so: publish looks under commit
\* whether a team above is closed, and no phase of a closed team reopens.
THEOREM CompleteIsFinal == Spec => CompleteStays
<1>1. LifeInv /\ [Next]_vars =>
        [\A T \in Team : Closed(T) /\ AllReaped(T) => Closed(T)' /\ AllReaped(T)']_vars
  BY CompleteKept, Zenon
<1> QED
  BY <1>1, Living, PTL DEF Spec, CompleteStays

-----------------------------------------------------------------------------
(* Waiting.                                                                *)

\* Every reachable state has the invariant of the waits.
LEMMA Waiting == Spec => []WaitInv
<1>1. Init => WaitInv
  BY DEF Init, WaitInv, BeaconOrWaiter, TimersCurrent, TicketsUnique, JoinKeys, JoinOwed
<1> QED
  BY <1>1, Living, NextWaits, PTL DEF Spec

\* No wake is lost, for any number of tasks, harts and keys: the beacon is
\* looked at again in the commit section that queues the task.
THEOREM WakesKept == Spec => []BeaconOrWaiter
<1>1. WaitInv => BeaconOrWaiter
  BY Zenon DEF WaitInv
<1> QED
  BY <1>1, Waiting, PTL

\* redeem ends no wait but the one its deadline was set for: a wait that ends
\* takes its deadline with it, and no two waits have the same ticket.
THEOREM DeadlinesCurrent == Spec => []TimersCurrent
<1>1. WaitInv => TimersCurrent
  BY Zenon DEF WaitInv
<1> QED
  BY <1>1, Waiting, PTL

\* A join whose task is reaped, or whose team is, has a signal coming: reap
\* owes it in the commit that makes the join true, and pays before it ends.
THEOREM JoinsOwed == Spec => []JoinOwed
<1>1. WaitInv => JoinOwed
  BY DEF WaitInv
<1> QED
  BY <1>1, Waiting, PTL

-----------------------------------------------------------------------------
(* The tally.  There may be infinitely many tasks: those published are     *)
(* finitely many, which the counting needs.                                *)

TallyInv == TallyExact /\ IsFiniteSet(Born)

\* A publication adds one task to those published, a burial one to those gone.
LEMMA TallyKept == LifeInv /\ TallyInv /\ [Next]_vars => TallyInv'
<1> SUFFICES ASSUME LifeInv, TallyInv, [Next]_vars PROVE TallyInv'
  BY Zenon
<1>1. /\ tally.pushed = Cardinality(Born) /\ tally.exited = Cardinality(Gone)
      /\ Gone \subseteq Born /\ IsFiniteSet(Born) /\ tally \in [pushed : Nat, exited : Nat]
  BY DEF TallyInv, TallyExact, Born, Gone, LifeInv, RiteDead, RoomInv, TypeInv, TypeOK, ReapOK
<1>2. IsFiniteSet(Gone)
  BY <1>1, FS_Subset, Zenon
<1>3. SUFFICES /\ tally'.pushed = Cardinality(Born') /\ tally'.exited = Cardinality(Gone')
               /\ IsFiniteSet(Born')
  BY Zenon DEF TallyInv, TallyExact, Born, Gone
<1>4. CASE UNCHANGED vars
  BY <1>1, <1>4, Zenon DEF Born, Gone, vars, taskVars, reapVars
<1>5. CASE UNCHANGED <<Born, Gone, tally>>
  BY <1>1, <1>5, Zenon
<1>6. ASSUME NEW t, t \notin Born, Born' = Born \cup {t}, Gone' = Gone,
             tally' = [tally EXCEPT !.pushed = @ + 1]
      PROVE  /\ tally'.pushed = Cardinality(Born') /\ tally'.exited = Cardinality(Gone')
             /\ IsFiniteSet(Born')
  <2>1. Cardinality(Born') = Cardinality(Born) + 1 /\ IsFiniteSet(Born')
    BY <1>1, <1>6, FS_AddElement, Zenon
  <2> QED
    BY <1>1, <1>6, <2>1, Zenon
<1>7. ASSUME NEW t, t \notin Gone, Gone' = Gone \cup {t}, Born' = Born,
             tally' = [tally EXCEPT !.exited = @ + 1]
      PROVE  /\ tally'.pushed = Cardinality(Born') /\ tally'.exited = Cardinality(Gone')
             /\ IsFiniteSet(Born')
  <2>1. Cardinality(Gone') = Cardinality(Gone) + 1
    BY <1>2, <1>7, FS_AddElement, Zenon
  <2> QED
    BY <1>1, <1>7, <2>1, Zenon
<1> QED
  BY <1>4, <1>5, <1>6, <1>7, TallyStep, Zenon
\* Each published task is counted out once and only when it is gone, for any
\* number of tasks: pushed = exited, the licence to halt, means all are gone.
THEOREM TallyIsExact == Spec => []TallyExact
<1>1. Init => TallyInv
  <2> SUFFICES ASSUME Init PROVE TallyInv
    OBVIOUS
  <2>1. Born = {Root} /\ Gone = {}
    BY NameAssumption DEF Init, Born, Gone, NameAssumption
  <2>2. Cardinality(Born) = 1 /\ IsFiniteSet(Born) /\ Cardinality(Gone) = 0
    BY <2>1, FS_Singleton, FS_EmptySet, Zenon
  <2>3. tally.pushed = 1 /\ tally.exited = 0
    BY DEF Init
  <2> QED
    BY <2>2, <2>3, Zenon DEF TallyInv, TallyExact, Born, Gone
<1>2. TallyInv => TallyExact
  BY DEF TallyInv
<1> QED
  BY <1>1, <1>2, TallyKept, Living, PTL DEF Spec

=============================================================================
