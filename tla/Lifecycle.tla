----------------------------- MODULE Lifecycle -----------------------------
(***************************************************************************)
(* The static units of the system program: the table of units, the jobs    *)
(* that mint, embark, debark, recover and ruin them, and the frame that    *)
(* drives the jobs (programs/src/system/control/lifecycle, control/unit,   *)
(* assembly/static.rs, app/policy.rs).  A job is a plan of steps and a     *)
(* cursor; a dispatch advances one job until a step is pending, fails, or  *)
(* the plan ends.  Requests of outside callers, the reaper, the startup    *)
(* list and the closing of the system all submit jobs, at most one in      *)
(* flight for a unit.  Tasks run beside the frame and may die at any time. *)
(***************************************************************************)
EXTENDS Naturals, Sequences, FiniteSets, SequencesExt

CONSTANTS
    UnitList,    \* the units in the order the startup list starts them
    After,       \* unit -> the units it is declared to come after
    Guarded,     \* the units that run under an exit guard
    Supervisor,  \* the unit whose declaration names the supervised group
    Group,       \* the units of that group
    Gated,       \* the units that declare a retirement provider
    Ending,      \* unit -> "resident", "transient" or "told": how it is to end
    Kinds,       \* the actions outside callers ask for
    MaxAsk,      \* bound: requests of outside callers
    Failures     \* bound: steps that fail

VARIABLES
    row,       \* Table: the row of each unit
    job,       \* Jobs: the job in flight for each unit, or NoJob
    order,     \* Jobs: the units with a job in flight, as they are queued
    ended,     \* Jobs: the completions not answered or taken yet
    pending,   \* Control.pending: the units minted and not embarked
    holds,     \* what the unit's incarnation holds in the other services
    alive,     \* the kernel's view of the unit's team
    phase,     \* the part of the frame that runs next
    active,    \* Active: the unit whose job is being advanced
    budget,    \* Dispatch.remaining
    startup,   \* Startup: next unit and whether a job is awaited
    settle,    \* Settle and its Flow
    drained,   \* the retirement providers that have reported Done
    answers,   \* how often each outside request was answered
    halted,    \* the units whose stop was answered with success
    asked, faults, born, down

lifecycleVars == <<row, job, order, ended, pending, holds, alive, phase, active,
    budget, startup, settle, drained, answers, halted, asked, faults, born, down>>

Units == ToSet(UnitList)
NoJob == [action |-> "none"]
NoUnit == "no unit"
Entries == {"namespace", "exports", "construction", "claim"}

Assumptions ==
    /\ After \in [Units -> SUBSET Units]
    /\ Guarded \subseteq Units /\ Gated \subseteq Units
    /\ Ending \in [Units -> {"resident", "transient", "told"}]
    /\ Supervisor \notin Group /\ Group \cap Guarded = {}
    /\ Supervisor \in Units => Group \subseteq After[Supervisor]
    /\ MaxAsk \in Nat /\ Failures \in Nat

Live(u) == row[u].task # 0
Living(u) == row[u].state \notin {"absent", "dead"}
InFlight(u) == job[u] # NoJob
Gone(u) == alive[u] = "dead"
Idle == active = NoUnit
Busy == order # << >> \/ ended # {}

-----------------------------------------------------------------------------
(* Requests and jobs *)

Tracked(action, static, origin, caller, back) ==
    [action |-> action, static |-> static, origin |-> origin, caller |-> caller,
     at |-> 1, task |-> 0, inst |-> FALSE, launched |-> FALSE, failed |-> FALSE,
     back |-> back, waiters |-> {}, local |-> origin = "startup"]

\* The intent an accepted action states: run, stop, or nothing new.
Change(action, origin) ==
    CASE action = "mint" /\ origin \in {"external", "startup"} -> {FALSE}
      [] action = "embark" /\ origin \in {"external", "startup"} -> {TRUE}
      [] action \in {"debark", "ruin"} /\ origin = "external" -> {FALSE}
      [] OTHER -> {}

Intent(r, j) == LET c == Change(j.action, j.origin)
                IN  IF c = {} THEN r ELSE [r EXCEPT !.run = TRUE \in c]

Answer(ids) == answers' = [i \in DOMAIN answers |->
                   IF i \in ids THEN answers[i] + 1 ELSE answers[i]]

\* A second stop of a unit that is being stopped waits for the same job.
Merge(u, origin, back) ==
    /\ job' = [job EXCEPT ![u].waiters = IF back = 0 THEN @ ELSE @ \cup {back}]
    /\ UNCHANGED <<order, answers>>

\* An explicit stop that joins a job in flight is recorded at once.
Accepted(u, origin) ==
    row' = IF origin = "external" /\ row[u].state # "absent"
           THEN [row EXCEPT ![u].run = FALSE] ELSE row

Candidate(j) == j.origin = "recovery"
                /\ (j.action = "recover" \/ (j.action = "embark" /\ j.static))

\* A stop takes over a recovery: the same task and instance, a new cursor.
TakeOver(u, back) ==
    [job[u] EXCEPT !.action = "ruin", !.origin = "external", !.at = 1,
                   !.back = back, !.waiters = {}]

\* push_lifecycle: a job of its own, or a decision against the one in flight.
Push(u, j) ==
    \/ /\ ~InFlight(u)
       /\ job' = [job EXCEPT ![u] = j] /\ order' = Append(order, u)
       /\ UNCHANGED <<answers, row>>
    \/ /\ InFlight(u) /\ job[u].action = "ruin" /\ j.action = "ruin"
       /\ Merge(u, j.origin, j.back) /\ Accepted(u, j.origin)
    \/ /\ InFlight(u) /\ job[u].action # "ruin"
       /\ Candidate(job[u]) /\ j.origin = "external" /\ j.action = "ruin"
       /\ job' = [job EXCEPT ![u] = TakeOver(u, j.back)]
       /\ Answer(({job[u].back} \ {0}) \cup job[u].waiters)
       /\ Accepted(u, j.origin) /\ UNCHANGED order
    \/ /\ InFlight(u) /\ ~(job[u].action = "ruin" /\ j.action = "ruin")
       /\ ~(Candidate(job[u]) /\ j.origin = "external" /\ j.action = "ruin")
       /\ Answer({j.back} \ {0}) /\ UNCHANGED <<job, order, row>>

\* Requests are received and enqueued in one part of the frame.
Enqueue(u, action) ==
    /\ phase = "receive" /\ asked < MaxAsk /\ action \in Kinds
    /\ asked' = asked + 1
    /\ action = "recover" => Supervisor \in Units /\ Live(Supervisor) /\ ~Gone(Supervisor)
    /\ Push(u, IF action = "recover"
               THEN Tracked(action, FALSE, "recovery", row[Supervisor].task, asked + 1)
               ELSE Tracked(action, FALSE, "external", 0, asked + 1))
    /\ UNCHANGED <<ended, pending, holds, alive, phase, active, budget, startup,
                   settle, drained, halted, faults, born, down>>

\* The dispatch gets as many turns as there are items of work.
Budget ==
    /\ phase = "receive" /\ phase' = "dispatch"
    /\ budget' = Len(order) + Cardinality(ended)
    /\ UNCHANGED <<row, job, order, ended, pending, holds, alive, active, startup,
                   settle, drained, answers, halted, asked, faults, born, down>>

Select ==
    /\ phase = "dispatch" /\ Idle
    /\ IF budget > 0 /\ order # << >>
       THEN active' = Head(order) /\ order' = Tail(order) /\ UNCHANGED <<phase, budget>>
       ELSE phase' = "replies" /\ budget' = 0 /\ UNCHANGED <<active, order>>
    /\ UNCHANGED <<row, job, ended, pending, holds, alive, startup, settle, drained,
                   answers, halted, asked, faults, born, down>>

-----------------------------------------------------------------------------
(* Plans *)

MintPlan == <<"admit", "validate", "recheck", "construct", "commit">>
EmbarkPlan == <<"recheck", "bind", "namespace", "exports", "construction", "claim",
                "run", "supply", "ready", "done">>
DebarkPlan == <<"still", "pause", "rest">>
RuinPlan == <<"drain", "retire", "guard", "no claim", "no exports", "no namespace",
              "destroy", "no construction", "oust", "no supply", "no identity",
              "reclaim">>

Plan(action) == CASE action \in {"mint", "recover"} -> MintPlan
                  [] action = "embark" -> EmbarkPlan
                  [] action = "debark" -> DebarkPlan
                  [] action = "ruin" -> RuinPlan

At(step) == active # NoUnit /\ Plan(job[active].action)[job[active].at] = step
It == job[active]

\* The job leaves the dispatch: back in the queue, or completed.
Requeue(j) ==
    /\ job' = [job EXCEPT ![active] = j] /\ order' = Append(order, active)
    /\ active' = NoUnit /\ budget' = budget - 1 /\ UNCHANGED <<ended, down>>
Complete(j) ==
    /\ job' = [job EXCEPT ![active] = NoJob]
    /\ ended' = ended \cup {[unit |-> active, action |-> j.action, failed |-> j.failed,
                             back |-> j.back, waiters |-> j.waiters, local |-> j.local]}
    /\ active' = NoUnit /\ budget' = budget - 1 /\ UNCHANGED <<order, down>>

\* A recovery that has minted goes on to embark before it completes.
Completes(j) == ~(j.action = "recover" /\ j.origin = "recovery")

\* As if only the instance at hand told that a failure must be rolled back.
RollbackInstance(j) == j.action \in {"mint", "recover", "embark"} /\ j.inst
\* A failed start that has a team is undone by a ruin.
Rollback(j) == /\ j.action \in {"mint", "recover", "embark"}
               /\ j.inst \/ (j.origin = "recovery" /\ j.task # 0)

Pend(j) == Requeue(j)
Done(j) ==
    IF j.at < Len(Plan(j.action))
    THEN /\ job' = [job EXCEPT ![active] = [j EXCEPT !.at = @ + 1]]
         /\ UNCHANGED <<order, active, budget, ended, down>>
    ELSE IF Completes(j) THEN Complete(j)
    ELSE Requeue([j EXCEPT !.action = "embark", !.static = TRUE, !.at = 1])
\* A failed ruin of a task stops the system; other failures roll back or end.
Err(j) ==
    IF j.action = "ruin" /\ j.task # 0
    THEN down' = TRUE /\ UNCHANGED <<job, order, active, budget, ended>>
    ELSE IF Rollback(j)
    THEN Requeue([j EXCEPT !.failed = TRUE, !.action = "ruin", !.origin = "rollback", !.at = 1])
    ELSE Complete([j EXCEPT !.failed = TRUE])

Fault == faults < Failures /\ faults' = faults + 1
NoFault == UNCHANGED faults
StepRest == UNCHANGED <<phase, startup, settle, answers, halted, asked>>

-----------------------------------------------------------------------------
(* Mint *)

\* The caller is the supervisor the deployment names, still live and wanted;
\* the target is one of its group, wanted, and nothing is closing.
Verify(u, caller, retired) ==
    /\ ~settle.closing
    /\ Supervisor \in Units /\ u \in Group /\ u # Supervisor /\ u \notin Guarded
    /\ caller # 0 /\ row[Supervisor].task = caller /\ ~Gone(Supervisor)
    /\ row[Supervisor].named /\ row[Supervisor].run /\ row[Supervisor].state = "ready"
    /\ row[u].run
    /\ retired => row[u].state = "dead" /\ ~Live(u)

\* A recovery is checked again right before each of its effects.
VerifyEffect(u) == It.origin = "recovery" => Verify(u, It.caller, FALSE)

Admit ==
    /\ At("admit")
    /\ IF It.origin # "recovery" \/ Verify(active, It.caller, TRUE) THEN Done(It) ELSE Err(It)
    /\ NoFault /\ StepRest
    /\ UNCHANGED <<row, pending, holds, alive, drained, born>>

Recheck ==
    /\ At("recheck")
    /\ IF VerifyEffect(active) THEN Done(It) ELSE Err(It)
    /\ NoFault /\ StepRest
    /\ UNCHANGED <<row, pending, holds, alive, drained, born>>

\* The row must be free; a unit met for the first time is enlisted.
Validate ==
    /\ At("validate")
    /\ LET free == row[active].state \in {"absent", "never", "dead"}
           r == IF row[active].state = "absent" THEN [row[active] EXCEPT !.state = "never"]
                ELSE row[active]
       IN IF free THEN row' = [row EXCEPT ![active] = Intent(r, It)] /\ Done(It)
          ELSE Err(It) /\ UNCHANGED row
    /\ NoFault /\ StepRest
    /\ UNCHANGED <<pending, holds, alive, drained, born>>

\* The loader builds a team; the row takes it and is starting.
Construct ==
    /\ At("construct")
    /\ \/ /\ born' = [born EXCEPT ![active] = @ + 1]
          /\ row' = [row EXCEPT ![active].task = born[active] + 1,
                                ![active].state = "starting", ![active].named = FALSE]
          /\ alive' = [alive EXCEPT ![active] = "new"]
          /\ holds' = [holds EXCEPT ![active] = @ \cup {"team"}]
          /\ Done([It EXCEPT !.task = born[active] + 1, !.inst = TRUE]) /\ NoFault
       \/ Fault /\ Err(It) /\ UNCHANGED <<born, row, alive, holds>>
    /\ StepRest /\ UNCHANGED <<pending, drained>>

Commit ==
    /\ At("commit")
    /\ pending' = pending \cup {active}
    /\ Done([It EXCEPT !.inst = FALSE])
    /\ NoFault /\ StepRest
    /\ UNCHANGED <<row, holds, alive, drained, born>>

-----------------------------------------------------------------------------
(* Embark *)

\* A paused unit is resumed; another one leaves the pending list, takes an
\* identity, is marked static and gets its channels, each of which may fail.
Bind ==
    /\ At("bind")
    /\ \/ /\ row[active].state = "debarked"
          /\ row' = [row EXCEPT ![active] = Intent(@, It)]
          /\ Done([It EXCEPT !.task = row[active].task]) /\ NoFault
          /\ UNCHANGED <<pending, holds>>
       \/ /\ row[active].state # "debarked" /\ active \notin pending
          /\ Err(It) /\ NoFault /\ UNCHANGED <<row, pending, holds>>
       \/ /\ row[active].state # "debarked" /\ active \in pending
          /\ pending' = pending \ {active}
          /\ LET j == [It EXCEPT !.task = row[active].task, !.inst = TRUE]
                 named == [row[active] EXCEPT !.named = @ \/ j.static]
             IN \/ Fault /\ Err(j) /\ UNCHANGED <<row, holds>>
                \/ /\ holds' = [holds EXCEPT ![active] = @ \cup {"identity"}]
                   /\ \/ Fault /\ Err(j) /\ row' = [row EXCEPT ![active] = named]
                      \/ NoFault /\ Done(j) /\ row' = [row EXCEPT ![active] = Intent(named, j)]
    /\ halted' = IF row'[active].run /\ Change(It.action, It.origin) = {TRUE} THEN halted \ {active} ELSE halted
    /\ UNCHANGED <<phase, startup, settle, answers, asked, alive, drained, born>>

\* One entry of the new unit is prepared; a failure may leave it in part.
Prepare(kind) ==
    /\ At(kind)
    /\ \/ holds' = [holds EXCEPT ![active] = @ \cup {kind}] /\ NoFault /\ Done(It)
       \/ kind = "namespace" /\ NoFault /\ Pend(It)
          /\ holds' = [holds EXCEPT ![active] = @ \cup {kind}]
       \/ /\ Fault /\ Err(It)
          /\ holds' \in {holds, [holds EXCEPT ![active] = @ \cup {kind}]}
    /\ StepRest /\ UNCHANGED <<row, pending, alive, drained, born>>

\* The team is armed while it is still, resumed, and only then set going.
Arm ==
    /\ At("run") /\ It.inst /\ ~It.launched
    /\ active \in Guarded /\ ~row[active].guard
    /\ \/ NoFault /\ Pend(It) /\ UNCHANGED <<row, holds>>
       \/ Fault /\ Err(It) /\ UNCHANGED <<row, holds>>
       \/ /\ row' = [row EXCEPT ![active].guard = TRUE]
          /\ holds' = [holds EXCEPT ![active] = @ \cup {"guard"}]
          /\ \/ Fault /\ Err(It)
             \/ NoFault /\ UNCHANGED <<job, order, active, budget, ended, down>>
    /\ StepRest /\ UNCHANGED <<pending, alive, drained, born>>

Launch ==
    /\ At("run") /\ It.inst
    /\ active \in Guarded => row[active].guard
    /\ \/ /\ ~It.launched /\ VerifyEffect(active) /\ alive[active] = "new"
          /\ alive' = [alive EXCEPT ![active] = "running"]
          /\ NoFault /\ Done([It EXCEPT !.launched = TRUE])
       \/ ~It.launched /\ ~VerifyEffect(active) /\ NoFault /\ Err(It) /\ UNCHANGED alive
       \/ ~It.launched /\ Fault /\ Err(It) /\ UNCHANGED alive
    /\ StepRest /\ UNCHANGED <<row, pending, holds, drained, born>>

\* A paused unit goes on where it was.
Resume ==
    /\ At("run") /\ ~It.inst
    /\ \/ /\ row[active].state = "debarked" /\ alive[active] = "paused"
          /\ row' = [row EXCEPT ![active].state = "ready"]
          /\ alive' = [alive EXCEPT ![active] = "running"] /\ NoFault /\ Done(It)
       \/ /\ row[active].state # "debarked" \/ alive[active] = "dead"
          /\ NoFault /\ Err(It) /\ UNCHANGED <<row, alive>>
       \/ Fault /\ Err(It) /\ UNCHANGED <<row, alive>>
    /\ StepRest /\ UNCHANGED <<pending, holds, drained, born>>

\* Each supply the unit declares is acquired for it.
Supply ==
    /\ At("supply")
    /\ \/ NoFault /\ Done(It)
          /\ holds' = [holds EXCEPT ![active] = IF It.inst THEN @ \cup {"supply"} ELSE @]
       \/ /\ It.inst /\ Fault /\ Err(It)
          /\ holds' \in {holds, [holds EXCEPT ![active] = @ \cup {"supply"}]}
    /\ StepRest /\ UNCHANGED <<row, pending, alive, drained, born>>

\* Ready when the unit says so; a late or a dead unit fails.
Ready ==
    /\ At("ready")
    /\ \/ ~It.inst /\ Done(It) /\ UNCHANGED row
       \/ It.inst /\ row' = [row EXCEPT ![active].state = "ready"] /\ Done(It)
       \/ It.inst /\ ~Gone(active) /\ Pend(It) /\ UNCHANGED row
       \/ It.inst /\ Err(It) /\ row' = IF Gone(active)
             THEN [row EXCEPT ![active].state = "dead"] ELSE row
    /\ NoFault /\ StepRest /\ UNCHANGED <<pending, holds, alive, drained, born>>

Embarked ==
    /\ At("done")
    /\ IF row[active].state = "ready" THEN Done(It) ELSE Err(It)
    /\ NoFault /\ StepRest /\ UNCHANGED <<row, pending, holds, alive, drained, born>>

-----------------------------------------------------------------------------
(* Debark *)

Still ==
    /\ At("still")
    /\ IF row[active].state \in {"ready", "debarked"}
       THEN row' = [row EXCEPT ![active] = Intent(@, It)]
            /\ Done([It EXCEPT !.task = row[active].task])
       ELSE Err(It) /\ UNCHANGED row
    /\ NoFault /\ StepRest /\ UNCHANGED <<pending, holds, alive, drained, born>>

\* The team is paused once no member is on a hart.
Pause ==
    /\ At("pause")
    /\ \/ row[active].state = "debarked" /\ Done(It) /\ NoFault /\ UNCHANGED alive
       \/ row[active].state # "debarked" /\ Pend(It) /\ NoFault /\ UNCHANGED alive
       \/ /\ row[active].state # "debarked" /\ alive[active] = "running"
          /\ alive' = [alive EXCEPT ![active] = "paused"] /\ Done(It) /\ NoFault
       \/ row[active].state # "debarked" /\ Gone(active) /\ Err(It) /\ NoFault /\ UNCHANGED alive
       \/ row[active].state # "debarked" /\ Fault /\ Err(It) /\ UNCHANGED alive
    /\ StepRest /\ UNCHANGED <<row, pending, holds, drained, born>>

Rest ==
    /\ At("rest")
    /\ row' = [row EXCEPT ![active].state = "debarked"] /\ Done(It)
    /\ NoFault /\ StepRest /\ UNCHANGED <<pending, holds, alive, drained, born>>

-----------------------------------------------------------------------------
(* Ruin *)

\* The retirement providers the unit declares must have settled.
Drain ==
    /\ At("drain")
    /\ \/ active \in drained \cup (Units \ Gated) /\ Done(It) /\ UNCHANGED drained
       \/ active \in Gated \ drained /\ drained' = drained \cup {active} /\ Done(It)
       \/ active \in Gated \ drained /\ Pend(It) /\ UNCHANGED drained
    /\ NoFault /\ StepRest /\ UNCHANGED <<row, pending, holds, alive, born>>

Retire ==
    /\ At("retire")
    /\ LET task == IF It.task # 0 THEN It.task ELSE row[active].task
           r == Intent(row[active], It)
       IN \/ /\ task # 0
             /\ row' = [row EXCEPT ![active] = [r EXCEPT !.state = "stopping"]]
             /\ Done([It EXCEPT !.task = task])
          \/ task = 0 /\ row[active].state = "dead"
             /\ row' = [row EXCEPT ![active] = r] /\ Done(It)
          \/ task = 0 /\ row[active].state # "dead" /\ Err(It) /\ UNCHANGED row
    /\ NoFault /\ StepRest /\ UNCHANGED <<pending, holds, alive, drained, born>>

\* The guard is taken off while the whole team is still.
ReleaseGuard ==
    /\ At("guard")
    /\ \/ ~row[active].guard /\ Done(It) /\ NoFault /\ UNCHANGED <<row, holds>>
       \/ row[active].guard /\ Pend(It) /\ NoFault /\ UNCHANGED <<row, holds>>
       \/ row[active].guard /\ Fault /\ Err(It) /\ UNCHANGED <<row, holds>>
       \/ /\ row[active].guard /\ Done(It) /\ NoFault
          /\ row' = [row EXCEPT ![active].guard = FALSE]
          /\ holds' = [holds EXCEPT ![active] = @ \ {"guard"}]
    /\ StepRest /\ UNCHANGED <<pending, alive, drained, born>>

\* One entry of the unit is taken back; a job without a task has none.
Undo(step, kind) ==
    /\ At(step)
    /\ \/ It.task = 0 /\ Done(It) /\ NoFault /\ UNCHANGED holds
       \/ It.task # 0 /\ Done(It) /\ NoFault
          /\ holds' = [holds EXCEPT ![active] = @ \ {kind}]
       \/ It.task # 0 /\ kind = "namespace" /\ Pend(It) /\ NoFault /\ UNCHANGED holds
       \/ It.task # 0 /\ Fault /\ Err(It) /\ UNCHANGED holds
    /\ StepRest /\ UNCHANGED <<row, pending, alive, drained, born>>

\* The team is slain, and the step waits until the task has been joined.
Destroy ==
    /\ At("destroy")
    /\ \/ row[active].guard /\ Err(It) /\ UNCHANGED alive
       \/ ~row[active].guard /\ (It.task = 0 \/ Gone(active)) /\ Done(It) /\ UNCHANGED alive
       \/ /\ ~row[active].guard /\ It.task # 0 /\ ~Gone(active)
          /\ \/ alive' = [alive EXCEPT ![active] = "dying"] /\ Pend(It)
             \/ alive' = [alive EXCEPT ![active] = "dead"] /\ Done(It)
             \/ alive[active] = "dying" /\ Err(It) /\ UNCHANGED alive
    /\ NoFault /\ StepRest /\ UNCHANGED <<row, pending, holds, drained, born>>

Oust ==
    /\ At("oust")
    /\ \/ /\ holds' = [holds EXCEPT ![active] = @ \ {"team"}]
          /\ pending' = pending \ {active} /\ Done(It) /\ NoFault
       \/ Live(active) /\ Pend(It) /\ NoFault /\ UNCHANGED <<holds, pending>>
       \/ Live(active) /\ Fault /\ Err(It) /\ UNCHANGED <<holds, pending>>
    /\ StepRest /\ UNCHANGED <<row, alive, drained, born>>

Reclaim ==
    /\ At("reclaim")
    /\ IF row[active].guard THEN Err(It) /\ UNCHANGED <<row, alive>>
       ELSE /\ row' = [row EXCEPT ![active].task = 0, ![active].state = "dead"]
            /\ alive' = [alive EXCEPT ![active] = "none"]
            /\ Done([It EXCEPT !.inst = FALSE])
    /\ NoFault /\ StepRest /\ UNCHANGED <<pending, holds, drained, born>>

PlanStep ==
    \/ Admit \/ Recheck \/ Validate \/ Construct \/ Commit
    \/ Bind \/ (\E k \in Entries : Prepare(k)) \/ Arm \/ Launch \/ Resume \/ Supply
    \/ Ready \/ Embarked \/ Still \/ Pause \/ Rest
    \/ Drain \/ Retire \/ ReleaseGuard \/ Undo("no claim", "claim")
    \/ Undo("no exports", "exports") \/ Undo("no namespace", "namespace") \/ Destroy
    \/ Undo("no construction", "construction") \/ Oust
    \/ Undo("no supply", "supply") \/ Undo("no identity", "identity") \/ Reclaim

-----------------------------------------------------------------------------
(* The rest of the frame *)

\* A unit that ended by itself and has no job is stopped like any other.
Reapable(u) == Living(u) /\ ~InFlight(u) /\ Live(u) /\ Gone(u)

Reap ==
    /\ phase = "reap" /\ phase' = "receive"
    /\ job' = [u \in Units |-> IF Reapable(u) THEN Tracked("ruin", FALSE, "reaper", 0, 0)
                               ELSE job[u]]
    /\ order' = order \o SelectSeq(UnitList, Reapable)
    /\ UNCHANGED <<row, ended, pending, holds, alive, active, budget, startup, settle,
                   drained, answers, halted, asked, faults, born, down>>

HasReply(c) == c.back # 0 \/ c.waiters # {}

\* A completion with callers is answered and gone.
ReplyCompleted ==
    /\ phase = "replies" /\ \E c \in ended : HasReply(c)
    /\ LET told == {c \in ended : HasReply(c)}
       IN /\ ended' = ended \ told
          /\ Answer(UNION {({c.back} \ {0}) \cup c.waiters : c \in told})
          /\ halted' = halted \cup {c.unit : c \in {d \in told : d.action = "ruin" /\ ~d.failed}}
    /\ UNCHANGED <<row, job, order, pending, holds, alive, phase, active, budget,
                   startup, settle, drained, asked, faults, born, down>>

Submit(u, action) ==
    /\ job' = [job EXCEPT ![u] = Tracked(action, TRUE, "startup", 0, 0)]
    /\ order' = Append(order, u)

\* The startup list: mint a unit, embark it, go on with the next one; the
\* completions nobody waits for are dropped afterwards.
StartupStep ==
    /\ phase = "replies" /\ \A c \in ended : ~HasReply(c)
    /\ phase' = "settle" /\ ended' = {}
    /\ \/ /\ settle.closing \/ startup.next > Len(UnitList)
          /\ UNCHANGED <<job, order, startup, down>>
       \/ /\ ~settle.closing /\ startup.next <= Len(UnitList) /\ startup.waiting
          /\ LET mine == {c \in ended : c.local}
             IN \/ mine = {} /\ UNCHANGED <<job, order, startup, down>>
                \/ \E c \in mine :
                     /\ c.failed /\ down' = TRUE /\ UNCHANGED <<job, order, startup>>
                \/ \E c \in mine :
                     LET next == IF c.action = "embark" THEN startup.next + 1 ELSE startup.next
                         action == IF c.action = "embark" THEN "mint" ELSE "embark"
                     IN /\ ~c.failed
                        /\ IF next > Len(UnitList)
                           THEN UNCHANGED <<job, order, down>>
                                /\ startup' = [next |-> next, waiting |-> FALSE]
                           ELSE IF InFlight(UnitList[next])
                           THEN down' = TRUE /\ UNCHANGED <<job, order, startup>>
                           ELSE Submit(UnitList[next], action) /\ UNCHANGED down
                                /\ startup' = [next |-> next, waiting |-> TRUE]
       \/ /\ ~settle.closing /\ startup.next <= Len(UnitList) /\ ~startup.waiting
          /\ IF Busy THEN UNCHANGED <<job, order, startup>>
             ELSE Submit(UnitList[startup.next], "mint")
                  /\ startup' = [startup EXCEPT !.waiting = TRUE]
          /\ UNCHANGED down
    /\ UNCHANGED <<row, pending, holds, alive, active, budget, settle, drained, answers,
                   halted, asked, faults, born>>

Eligible == startup.next > Len(UnitList) /\ \A u \in Units : Living(u) => Ending[u] = "resident"
Walking == \E u \in Units : Living(u) /\ Ending[u] = "transient"

\* Closing begins when the work is over or has been quiet for too long; the
\* static units are only stopped once every retirement provider has settled.
SettleStep ==
    /\ phase = "settle" /\ phase' = "rest"
    /\ \/ ~settle.closing /\ ~(Eligible /\ ~Busy) /\ UNCHANGED <<settle, drained>>
       \/ /\ ~settle.closing /\ Eligible /\ ~Busy
          /\ settle' = [settle EXCEPT !.closing = TRUE] /\ UNCHANGED drained
       \/ /\ ~settle.closing /\ Walking
          /\ settle' = [settle EXCEPT !.closing = TRUE, !.forced = TRUE] /\ UNCHANGED drained
       \/ settle.closing /\ ~settle.settling /\ Gated \subseteq drained
          /\ settle' = [settle EXCEPT !.settling = TRUE] /\ UNCHANGED drained
       \/ settle.closing /\ ~settle.settling
          /\ \E u \in Gated \ drained : drained' = drained \cup {u} /\ UNCHANGED settle
       \/ settle.settling /\ UNCHANGED <<settle, drained>>
    /\ UNCHANGED <<row, job, order, ended, pending, holds, alive, active, budget, startup,
                   answers, halted, asked, faults, born, down>>

\* A unit that comes after u and still has a team.
Used(u) == \E v \in Units \ {u} : Living(v) /\ Live(v) /\ u \in After[v]

ClosingUnit(u) == /\ row[u].state \in {"starting", "ready", "debarked"} /\ Live(u)
                  /\ ~Used(u) /\ ~InFlight(u)

\* The units no one uses any more are stopped; at the end the system is done.
RuinRest ==
    /\ phase = "rest"
    /\ IF settle.settling
       THEN /\ job' = [u \in Units |-> IF ClosingUnit(u)
                  THEN Tracked("ruin", FALSE, "closing", 0, 0) ELSE job[u]]
            /\ order' = order \o SelectSeq(UnitList, ClosingUnit)
       ELSE UNCHANGED <<job, order>>
    /\ IF /\ settle.settling /\ ~Busy /\ \A u \in Units : ~Living(u)
       THEN phase' = "over" ELSE phase' = "reap"
    /\ UNCHANGED <<row, ended, pending, holds, alive, active, budget, startup, settle,
                   drained, answers, halted, asked, faults, born, down>>

\* A task ends by itself, or after it was slain.
Die(u) ==
    /\ alive[u] \in {"running", "dying"}
    /\ alive[u] = "running" => u \notin Guarded
    /\ alive' = [alive EXCEPT ![u] = "dead"]
    /\ UNCHANGED <<row, job, order, ended, pending, holds, phase, active, budget, startup,
                   settle, drained, answers, halted, asked, faults, born, down>>

-----------------------------------------------------------------------------
lifecycleInit ==
    /\ row = [u \in Units |-> [state |-> "absent", task |-> 0, named |-> FALSE,
                               guard |-> FALSE, run |-> FALSE]]
    /\ job = [u \in Units |-> NoJob] /\ order = << >> /\ ended = {} /\ pending = {}
    /\ holds = [u \in Units |-> {}] /\ alive = [u \in Units |-> "none"]
    /\ phase = "reap" /\ active = NoUnit /\ budget = 0
    /\ startup = [next |-> 1, waiting |-> FALSE]
    /\ settle = [closing |-> FALSE, forced |-> FALSE, settling |-> FALSE]
    /\ drained = {} /\ answers = [i \in 1 .. MaxAsk |-> 0] /\ halted = {}
    /\ asked = 0 /\ faults = 0 /\ born = [u \in Units |-> 0] /\ down = FALSE

\* One part of the frame, or one step of the job being advanced.
FrameStep == ~down /\ (Reap \/ Budget \/ Select \/ PlanStep \/ ReplyCompleted
                       \/ StartupStep \/ SettleStep \/ RuinRest)

lifecycleNext == \/ FrameStep
                 \/ ~down /\ \E u \in Units, a \in Kinds : Enqueue(u, a)
                 \/ \E u \in Units : ~down /\ Die(u)

\* The frame goes on, a slain task ends, and a step that is not refused for
\* ever is not pending for ever.
Advance == ~down /\ PlanStep /\ job' # job
Expire(u) == ~down /\ Die(u) /\ alive[u] = "dying"
lifecycleFair == /\ WF_lifecycleVars(FrameStep) /\ SF_lifecycleVars(Advance)
                 /\ \A u \in Units : WF_lifecycleVars(Expire(u))

-----------------------------------------------------------------------------
(* Properties *)

\* The variables keep the shapes of the code's structures.
TypeOK ==
    /\ \A u \in Units :
         /\ row[u].state \in {"absent", "never", "starting", "ready", "stopping", "dead", "debarked"}
         /\ row[u].task \in {0, born[u]}
         /\ holds[u] \subseteq Entries \cup {"team", "identity", "supply", "guard"}
    /\ pending \subseteq Units /\ active \in Units \cup {NoUnit}
    /\ \A u \in Units : InFlight(u) = (u \in ToSet(order) \cup {active})
    /\ IsInjective(order)

\* A unit the table calls dead holds nothing: no team, no entry in another
\* service, no guard, no supply, and it is not waiting to be embarked.
Reclaimed == \A u \in Units : row[u].state = "dead" /\ ~InFlight(u) =>
    row[u].task = 0 /\ holds[u] = {} /\ u \notin pending /\ ~row[u].guard

\* A constructed team is never dropped: without a job it is ready, paused, or
\* minted and waiting to be embarked, and a start that failed leaves no unit
\* half started.
Tended ==
    /\ \A u \in Units : Live(u) /\ ~InFlight(u) =>
         row[u].state \in {"ready", "debarked"} \/ (row[u].state = "starting" /\ u \in pending)
    /\ \A c \in ended : c.failed /\ c.action = "embark" => row[c.unit].state # "starting"

\* A team is not slain while its exit guard is on, and the table and the
\* kernel agree about the guard.
GuardKept == \A u \in Units :
    /\ row[u].guard = ("guard" \in holds[u])
    /\ alive[u] \in {"dying", "dead"} => "guard" \notin holds[u]

\* Once a stop was answered with success the unit does not run until a caller
\* or the startup asks for it again: a racing recovery does not restart it.
StopHolds == \A u \in halted : alive[u] # "running"

\* Every request is answered at most once, and while the system is up it is
\* answered or still on a job or a completion.
AnsweredOnce == \A i \in 1 .. asked :
    /\ answers[i] <= 1
    /\ answers[i] = 0 => \/ \E u \in Units : InFlight(u) /\ (job[u].back = i \/ i \in job[u].waiters)
                         \/ \E c \in ended : c.back = i \/ i \in c.waiters

\* The startup list is worked off: every unit is started, or the system closes
\* or goes down.
Started == startup.next > Len(UnitList) \/ settle.closing \/ down
StartsUp == <>Started

\* Once closing has begun the system ends.
Closing == settle.closing
Over == down \/ phase = "over"
Ends == Closing ~> Over
=============================================================================
