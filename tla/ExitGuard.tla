----------------------------- MODULE ExitGuard -----------------------------
(***************************************************************************)
(* The exit guard of a team (core/work/unit/team/exit): a team whose guard *)
(* is armed must not lose a member, because its members hold hardware that *)
(* keeps using memory.  Every path on which a task dies first walks the    *)
(* task's team and its ancestors and trips their guards; a guard that was  *)
(* armed stops the machine before any reference of the task is cleaned up. *)
(*                                                                         *)
(* The module follows the four ways to die (slay, slaying a team, a fault, *)
(* quitting), the cascade into the teams a dead task built, arming and     *)
(* disarming, and the stop itself: the alarm, the peers that hunker down   *)
(* and the stopping hart that waits for them.                              *)
(***************************************************************************)
EXTENDS Integers, Sequences, FiniteSets, SequencesExt

CONSTANTS Teams, Tasks, Harts,
          Home,       \* the team of a task
          Sire,       \* the task that built a team, or None for the root
          Authorized, \* the tasks that hold a live guard pie with FETCH
          DeathsMax,  \* where the death counter saturates (usize::MAX)
          None

VARIABLES phase,    \* TeamState.phase of a team
          axis,     \* the axis of a task; "Off" stands for Ready, Waiting, Held and Parked
          listed,   \* tasks in the member list of their team
          exit,     \* ExitPolicy of a team: mode, owner and deaths
          run,      \* the task on a hart
          stack,    \* the death work a hart is in, innermost frame first
          commit,   \* the hart that holds the commit lock
          cleaned,  \* tasks whose references pend::doom began to clean up
          alarmer,  \* ALARMER
          halt      \* how far a hart is in stopping

vars == <<phase, axis, listed, exit, run, stack, commit, cleaned, alarmer, halt>>

Parent(T) == IF Sire[T] = None THEN None ELSE Home[Sire[T]]

Above[T \in Teams] == {T} \cup IF Parent(T) = None THEN {} ELSE Above[Parent(T)]

Below(T) == {U \in Teams : T \in Above[U]}

\* The teams Task::clan finds: everything under the task's own team.
Clan(t) == Below(Home[t]) \ {Home[t]}

Dead(t) == axis[t] \in {"Doomed", "Reaped"}

MembersBelow(T) == {t \in listed : T \in Above[Home[t]]}

Paused(T) == \E U \in Above[T] : phase[U] = "Paused"

Closed(T) == \E U \in Above[T] : phase[U] = "Doomed"

\* A team is constructing until its first task is published.
Constructing(T) == \A t \in Tasks : Home[t] = T => axis[t] = "Unborn"

Protected(T) == exit[T].mode # "Dormant"

Frame(at, t, T) == [at |-> at, task |-> t, team |-> T]

Running(h) == run[h] # None /\ stack[h] = << >> /\ halt[h] = "on"

InFrame(h, at) == stack[h] # << >> /\ Head(stack[h]).at = at /\ halt[h] = "on"

Push(h, f) == stack' = [stack EXCEPT ![h] = <<f>> \o @]

Become(h, f) == stack' = [stack EXCEPT ![h] = <<f>> \o Tail(@)]

Return(h) == stack' = [stack EXCEPT ![h] = Tail(@)]

----------------------------------------------------------------------------
Init ==
    /\ phase = [T \in Teams |-> "Live"]
    /\ axis = [t \in Tasks |-> "Unborn"]
    /\ listed = {}
    /\ exit = [T \in Teams |-> [mode |-> "Dormant", owner |-> None, deaths |-> 0]]
    /\ run = [h \in Harts |-> None]
    /\ stack = [h \in Harts |-> << >>]
    /\ commit = None
    /\ cleaned = {}
    /\ alarmer = None
    /\ halt = [h \in Harts |-> "on"]

Publish(t) ==
    /\ axis[t] = "Unborn" /\ commit = None /\ ~Closed(Home[t])
    /\ Sire[Home[t]] # None => axis[Sire[Home[t]]] # "Unborn"
    /\ axis' = [axis EXCEPT ![t] = "Off"]
    /\ listed' = listed \cup {t}
    /\ UNCHANGED <<phase, exit, run, stack, commit, cleaned, alarmer, halt>>

Dispatch(h, t) ==
    /\ run[h] = None /\ stack[h] = << >> /\ halt[h] = "on" /\ commit = None
    /\ axis[t] = "Off" /\ ~Paused(Home[t])
    /\ axis' = [axis EXCEPT ![t] = "OnHart"]
    /\ run' = [run EXCEPT ![h] = t]
    /\ UNCHANGED <<phase, listed, exit, stack, commit, cleaned, alarmer, halt>>

Preempt(h) ==
    /\ Running(h) /\ axis[run[h]] = "OnHart" /\ commit = None
    /\ axis' = [axis EXCEPT ![run[h]] = "Off"]
    /\ run' = [run EXCEPT ![h] = None]
    /\ UNCHANGED <<phase, listed, exit, stack, commit, cleaned, alarmer, halt>>

\* Team::debark: a member still on a hart makes it answer Busy, with the phase set.
Debark(h, T) ==
    /\ Running(h) /\ T \in Clan(run[h]) /\ commit = None /\ phase[T] = "Live"
    /\ phase' = [phase EXCEPT ![T] = "Paused"]
    /\ UNCHANGED <<axis, listed, exit, run, stack, commit, cleaned, alarmer, halt>>

Embark(h, T) ==
    /\ Running(h) /\ T \in Clan(run[h]) /\ commit = None /\ phase[T] = "Paused"
    /\ phase' = [phase EXCEPT ![T] = "Live"]
    /\ UNCHANGED <<axis, listed, exit, run, stack, commit, cleaned, alarmer, halt>>

HasUnavailableMembers(T) ==
    \E t \in MembersBelow(T) : Dead(t) \/ axis[t] = "OnHart"

\* exit::conflicts: another protected team above or below.
Conflicts(T) == \E U \in (Above[T] \cup Below(T)) \ {T} : Protected(U)

\* As if a death before did not forbid arming.
ArmForgetful(T, o) ==
    /\ exit[T].mode = "Dormant"
    /\ exit' = [exit EXCEPT ![T].mode = "Armed", ![T].owner = o]

\* ExitPolicy::arm where it succeeds and changes something.
Arm(T, o) ==
    /\ exit[T].deaths = 0 /\ exit[T].mode = "Dormant"
    /\ exit' = [exit EXCEPT ![T].mode = "Armed", ![T].owner = o]

\* ExitPolicy::disarm.
Disarm(T, o) ==
    /\ exit[T].deaths = 0 /\ exit[T].mode = "Armed" /\ exit[T].owner = o
    /\ exit' = [exit EXCEPT ![T].mode = "Dormant", ![T].owner = None]

Guard(h, T) ==
    /\ Running(h) /\ T \in Clan(run[h]) \cup {Home[run[h]]} /\ run[h] \in Authorized
    /\ commit = None /\ phase[T] = "Paused" /\ ~Constructing(T)
    /\ ~Conflicts(T) /\ ~HasUnavailableMembers(T)
    /\ Arm(T, run[h])
    /\ UNCHANGED <<phase, axis, listed, run, stack, commit, cleaned, alarmer, halt>>

Unguard(h, T) ==
    /\ Running(h) /\ T \in Clan(run[h]) \cup {Home[run[h]]} /\ run[h] \in Authorized
    /\ commit = None /\ phase[T] = "Paused" /\ ~Constructing(T)
    /\ ~HasUnavailableMembers(T)
    /\ Disarm(T, run[h])
    /\ UNCHANGED <<phase, axis, listed, run, stack, commit, cleaned, alarmer, halt>>

----------------------------------------------------------------------------
(* The ways to die *)

\* messenger::slay, up to the walk that suspend makes under the commit lock.
SuspendBegin(h, t, frames) ==
    /\ commit = None /\ axis[t] \in {"Off", "OnHart"}
    /\ commit' = h
    /\ stack' = [stack EXCEPT ![h] = <<Frame("suspend", t, Home[t])>> \o frames]

Slay(h, t) ==
    /\ Running(h) /\ (Home[t] = Home[run[h]] \/ Home[t] \in Clan(run[h]))
    /\ SuspendBegin(h, t, << >>)
    /\ UNCHANGED <<phase, axis, listed, exit, run, cleaned, alarmer, halt>>

DoomPhase(T) == [U \in Teams |-> IF U \in Below(T) THEN "Doomed" ELSE phase[U]]

\* UnitCall::Slay of a team: cull, whose cull_life first dooms the phases.
SlayTeam(h, T) ==
    /\ Running(h) /\ T \in Clan(run[h]) /\ commit = None
    /\ phase' = DoomPhase(T)
    /\ Push(h, Frame("cull", None, T))
    /\ UNCHANGED <<axis, listed, exit, run, commit, cleaned, alarmer, halt>>

\* cull_life: the members of the subtree one by one, suspended and reaped.
CullNext(h) ==
    /\ InFrame(h, "cull")
    /\ LET T == Head(stack[h]).team
           left == {t \in MembersBelow(T) : ~Dead(t)}
       IN  IF left = {}
           THEN Return(h) /\ UNCHANGED commit
           ELSE \E t \in left : SuspendBegin(h, t, stack[h])
    /\ UNCHANGED <<phase, axis, listed, exit, run, cleaned, alarmer, halt>>

\* trap doom: the walk comes before the task is marked, under the commit lock.
Fault(h) ==
    /\ Running(h) /\ commit = None
    /\ commit' = h
    /\ Push(h, Frame("fault", run[h], Home[run[h]]))
    /\ UNCHANGED <<phase, axis, listed, exit, run, cleaned, alarmer, halt>>

FaultEnd(h) ==
    /\ InFrame(h, "fault") /\ Head(stack[h]).team = None
    /\ axis' = [axis EXCEPT ![Head(stack[h]).task] = "Doomed"]
    /\ commit' = None
    /\ Return(h)
    /\ UNCHANGED <<phase, listed, exit, run, cleaned, alarmer, halt>>

\* The end of suspend: a task on a hart is left to that hart, any other is reaped here.
SuspendEnd(h) ==
    /\ InFrame(h, "suspend") /\ Head(stack[h]).team = None
    /\ LET t == Head(stack[h]).task IN
       /\ axis' = [axis EXCEPT ![t] = "Doomed"]
       /\ IF axis[t] = "OnHart" THEN Return(h) ELSE Become(h, Frame("reap", t, None))
    /\ commit' = None
    /\ UNCHANGED <<phase, listed, exit, run, cleaned, alarmer, halt>>

\* quit: an exit call of the running task, or what was left to its hart.
Quit(h) ==
    /\ Running(h) /\ commit = None
    /\ axis' = [axis EXCEPT ![run[h]] = "Doomed"]
    /\ run' = [run EXCEPT ![h] = None]
    /\ Push(h, Frame("reap", run[h], None))
    /\ UNCHANGED <<phase, listed, exit, commit, cleaned, alarmer, halt>>

\* The commit section of reap: only the first reaper goes on.
ReapBegin(h) ==
    /\ InFrame(h, "reap") /\ commit = None
    /\ LET t == Head(stack[h]).task IN
       IF axis[t] = "Reaped" THEN Return(h) /\ UNCHANGED axis
       ELSE /\ Become(h, Frame("dying", t, Home[t]))
            /\ axis' = [axis EXCEPT ![t] = "Doomed"]
    /\ UNCHANGED <<phase, listed, exit, run, commit, cleaned, alarmer, halt>>

WalkFrames == {"suspend", "fault", "dying", "pend"}

\* deaths.saturating_add(1).
SaturatingAdd(n) == IF n < DeathsMax THEN n + 1 ELSE n

\* trip: a dormant guard counts the death, an armed one is tripped by it.
Tripped(e) ==
    [mode |-> IF e.mode = "Dormant" THEN "Dormant" ELSE "Tripped",
     owner |-> IF e.mode = "Dormant" THEN e.owner ELSE None,
     deaths |-> SaturatingAdd(e.deaths)]

\* One step of member_dying: trip a guard, and stop or go up to the parent.
Trip(h) ==
    /\ \E at \in WalkFrames : InFrame(h, at)
    /\ LET f == Head(stack[h])
           T == f.team
       IN  /\ T # None
           /\ exit' = [exit EXCEPT ![T] = Tripped(@)]
           /\ IF exit[T].mode = "Dormant"
              THEN Become(h, [f EXCEPT !.team = Parent(T)]) /\ UNCHANGED halt
              ELSE halt' = [halt EXCEPT ![h] = "alarm"] /\ UNCHANGED stack
    /\ UNCHANGED <<phase, axis, listed, run, commit, cleaned, alarmer>>

\* member_dying returned inside reap: on to the exit hooks.
DyingEnd(h) ==
    /\ InFrame(h, "dying") /\ Head(stack[h]).team = None
    /\ Become(h, [Head(stack[h]) EXCEPT !.at = "heirs"])
    /\ UNCHANGED <<phase, axis, listed, exit, run, commit, cleaned, alarmer, halt>>

\* The first exit hook, messenger::doom: cull every team the task built.
HeirsNext(h) ==
    /\ InFrame(h, "heirs") /\ commit = None
    /\ LET f == Head(stack[h])
           left == {T \in Teams : Sire[T] = f.task
                       /\ (phase[T] # "Doomed" \/ \E t \in MembersBelow(T) : ~Dead(t))}
       IN  IF left = {}
           THEN Become(h, Frame("pend", f.task, Home[f.task])) /\ UNCHANGED phase
           ELSE \E T \in left : phase' = DoomPhase(T) /\ Push(h, Frame("cull", None, T))
    /\ UNCHANGED <<axis, listed, exit, run, commit, cleaned, alarmer, halt>>

\* The second hook, pend::doom: after its own walk it clears the references.
CleanUp(h) ==
    /\ InFrame(h, "pend") /\ Head(stack[h]).team = None
    /\ cleaned' = cleaned \cup {Head(stack[h]).task}
    /\ Become(h, [Head(stack[h]) EXCEPT !.at = "cleanup"])
    /\ UNCHANGED <<phase, axis, listed, exit, run, commit, alarmer, halt>>

Reaped(h) ==
    /\ InFrame(h, "cleanup") /\ commit = None
    /\ axis' = [axis EXCEPT ![Head(stack[h]).task] = "Reaped"]
    /\ Return(h)
    /\ UNCHANGED <<phase, listed, exit, run, commit, cleaned, alarmer, halt>>

\* TeamLife::prune: a reaped member whose receipts were all taken leaves the list.
Prune(t) ==
    /\ t \in listed /\ axis[t] = "Reaped" /\ commit = None
    /\ listed' = listed \ {t}
    /\ UNCHANGED <<phase, axis, exit, run, stack, commit, cleaned, alarmer, halt>>

----------------------------------------------------------------------------
(* Stopping the machine *)

\* protected_stop: claim the alarm and wake the peers, or hunker down behind the owner.
Alarm(h) ==
    /\ halt[h] = "alarm"
    /\ IF alarmer = None
       THEN alarmer' = h /\ halt' = [halt EXCEPT ![h] = "await"]
       ELSE halt' = [halt EXCEPT ![h] = "hunkered"] /\ UNCHANGED alarmer
    /\ UNCHANGED <<phase, axis, listed, exit, run, stack, commit, cleaned>>

\* The frames whose next step takes the commit lock.
WantsCommit(h) == \E at \in {"cull", "reap", "heirs", "cleanup"} : InFrame(h, at)

\* As if a hart spinning on a lock did not look at the alarm.
HushAtTrap(h) == stack[h] = << >>

\* Where a hart looks at the alarm: at a trap or in the run loop, and in a lock's spin.
HushPoint(h) == stack[h] = << >> \/ (WantsCommit(h) /\ commit # None)

Hush(h) ==
    /\ halt[h] = "on" /\ alarmer \notin {None, h} /\ HushPoint(h)
    /\ halt' = [halt EXCEPT ![h] = "hunkered"]
    /\ UNCHANGED <<phase, axis, listed, exit, run, stack, commit, cleaned, alarmer>>

\* quiesced_peers() reached hart_count() - 1.
Quiesce(h) ==
    /\ halt[h] = "await" /\ \A g \in Harts \ {h} : halt[g] = "hunkered"
    /\ halt' = [halt EXCEPT ![h] = "stopped"]
    /\ UNCHANGED <<phase, axis, listed, exit, run, stack, commit, cleaned, alarmer>>

----------------------------------------------------------------------------
Call(h) ==
    \/ \E T \in Teams :
          Debark(h, T) \/ Embark(h, T) \/ Guard(h, T) \/ Unguard(h, T) \/ SlayTeam(h, T)
    \/ \E t \in Tasks : Slay(h, t) \/ Dispatch(h, t)
    \/ Preempt(h) \/ Fault(h)

Work(h) ==
    \/ CullNext(h) \/ FaultEnd(h) \/ SuspendEnd(h) \/ ReapBegin(h) \/ Trip(h)
    \/ DyingEnd(h) \/ HeirsNext(h) \/ CleanUp(h) \/ Reaped(h)

Stop(h) == Alarm(h) \/ Hush(h) \/ Quiesce(h)

Next ==
    \/ \E h \in Harts : Call(h) \/ Quit(h) \/ Work(h) \/ Stop(h)
    \/ \E t \in Tasks : Publish(t) \/ Prune(t)

Spec == Init /\ [][Next]_vars

\* A hart in the kernel runs on.  A hart in a task is brought into the kernel by
\* the alarm's interrupt (broadcast), and every trap and every pass of the run
\* loop looks at the alarm: a hart cannot keep making calls past it.
FairSpec ==
    /\ Spec
    /\ \A h \in Harts :
          WF_vars(Work(h)) /\ WF_vars(Alarm(h)) /\ WF_vars(Quiesce(h)) /\ SF_vars(Hush(h))

----------------------------------------------------------------------------
(* Properties *)

\* Every variable keeps its type (TeamState, TaskAxis, ExitPolicy, ALARMER).
TypeOK ==
    /\ phase \in [Teams -> {"Live", "Paused", "Doomed"}]
    /\ axis \in [Tasks -> {"Unborn", "Off", "OnHart", "Doomed", "Reaped"}]
    /\ listed \subseteq Tasks /\ cleaned \subseteq Tasks
    /\ exit \in [Teams -> [mode : {"Dormant", "Armed", "Tripped"},
                           owner : Tasks \cup {None}, deaths : 0 .. DeathsMax]]
    /\ run \in [Harts -> Tasks \cup {None}]
    /\ commit \in Harts \cup {None} /\ alarmer \in Harts \cup {None}
    /\ halt \in [Harts -> {"on", "alarm", "await", "hunkered", "stopped"}]

\* A task whose references are being cleaned up, or were, belongs to no team
\* whose guard is or was armed, at any height: a protected domain keeps what
\* its members hold (docs/guard-death.md), also when it is armed after the death.
Contained == \A t \in cleaned : \A T \in Above[Home[t]] : ~Protected(T)

\* At most one team on a path of the tree is protected (nested_domains).
NoOverlap ==
    \A T, U \in Teams : T # U /\ T \in Above[U] => ~(Protected(T) /\ Protected(U))

\* The tasks on their way out: marked dead, or under the walk that precedes the mark.
Dying(t) == axis[t] = "Doomed" \/ \E h \in Harts : \E i \in DOMAIN stack[h] : stack[h][i].task = t

\* A guard is never taken off while a member below it is dying (unguard answers
\* Busy or Denied): the death finds the guard as it was when the death began.
GuardHoldsStep ==
    \A T \in Teams : Protected(T) /\ ~Protected(T)' =>
        \A t \in Tasks : T \in Above[Home[t]] => ~Dying(t)

\* Once a guard trips, the machine comes to rest: one hart owns the alarm and
\* has seen every other hart hunker down, whatever locks they were after.
AnyTripped == \E T \in Teams : exit[T].mode = "Tripped"
Halted == \E h \in Harts : halt[h] = "stopped"
TripStops == AnyTripped ~> Halted
=============================================================================
