------------------------------ MODULE Instance ------------------------------
(***************************************************************************)
(* Control's dynamic instances (control/instance, control/endpoint/        *)
(* instance.rs) and their Prepare and Retire phases (assembly/hooks.rs).   *)
(* Control is one thread that runs its frame over and over: construct,     *)
(* answer commands, reap, run the hook of every instance.  The kernel      *)
(* (teams that end, owners that die, ousting) moves at any time.           *)
(***************************************************************************)
EXTENDS Naturals, FiniteSets

CONSTANTS Insts,       \* instances that may be made
          Cap          \* INSTANCE_CAP

VARIABLES inst,        \* Control.instances
          phase,       \* Work::Phase jobs of each instance
          cmd,         \* Work::Command of the owner of each instance
          frame,       \* the step of the frame, and the instances still to visit
          team,        \* kernel: the team of each instance
          owner,       \* kernel: whether the owner of each instance lives
          late,        \* clock: the time to claim has passed
          fault        \* an error that stops the system (Fault::Room)

insVars == <<inst, phase, cmd, frame, team, owner, late, fault>>

None == [at |-> "none", rec |-> "none", claimed |-> FALSE, started |-> FALSE]
On(i) == inst[i].at # "none"
\* Instance::team
Team(i) == On(i) /\ inst[i].at # "Dead" /\ inst[i].rec \in {"Owner", "Returned"}

Init ==
    /\ inst = [i \in Insts |-> None] /\ phase = [i \in Insts |-> {}]
    /\ cmd = [i \in Insts |-> "none"] /\ frame = [at |-> "construct", todo |-> {}]
    /\ team = [i \in Insts |-> "unmade"] /\ owner = [i \in Insts |-> TRUE]
    /\ late = [i \in Insts |-> FALSE] /\ fault = FALSE

TypeOK ==
    /\ inst \in [Insts -> [at : {"none", "Starting", "Debarked", "Ready", "Stopping", "Dead"},
                           rec : {"none", "Owner", "Returned", "Consumed", "Reported"},
                           claimed : BOOLEAN, started : BOOLEAN]]
    /\ phase \in [Insts -> SUBSET {"Prepare", "Retire"}]
    /\ cmd \in [Insts -> {"none", "Embark", "Debark", "Ruin", "Release"}]
    /\ frame \in [at : {"construct", "commands", "reap", "hooks"}, todo : SUBSET Insts]
    /\ team \in [Insts -> {"unmade", "off", "run", "half", "dying", "done", "gone"}]
    /\ Cardinality({i \in Insts : On(i)}) <= Cap

----------------------------------------------------------------------------
(* The kernel *)

\* unit::slay_team: the members end, in their own time.
Slay(t) == IF t \in {"off", "run", "half"} THEN "dying" ELSE t

MainExits(i) ==
    /\ team[i] = "run" /\ team' = [team EXCEPT ![i] = "half"]
    /\ UNCHANGED <<inst, phase, cmd, frame, owner, late, fault>>
\* The last member has ended.
Ends(i) ==
    /\ team[i] \in {"half", "dying"} /\ team' = [team EXCEPT ![i] = "done"]
    /\ UNCHANGED <<inst, phase, cmd, frame, owner, late, fault>>
\* Its tasks are below it in the tree and end with it.
OwnerDies(i) ==
    /\ owner[i] /\ team[i] # "unmade" /\ owner' = [owner EXCEPT ![i] = FALSE]
    /\ team' = [team EXCEPT ![i] = Slay(@)]
    /\ UNCHANGED <<inst, phase, cmd, frame, late, fault>>
\* A dead owner's subtree is pruned with it.
Pruned(i) ==
    /\ ~owner[i] /\ team[i] = "done" /\ team' = [team EXCEPT ![i] = "gone"]
    /\ UNCHANGED <<inst, phase, cmd, frame, owner, late, fault>>
Expire(i) ==
    /\ inst[i].at = "Debarked" /\ ~inst[i].claimed /\ ~late[i]
    /\ late' = [late EXCEPT ![i] = TRUE]
    /\ UNCHANGED <<inst, phase, cmd, frame, team, owner, fault>>

----------------------------------------------------------------------------
(* Construction and commands *)

\* reserve_instance; the owner of these instances is not Control.
Evictable(i) == inst[i].at = "Dead" /\ inst[i].rec = "Reported"

CreateInstance(i) ==
    /\ frame.at = "construct" /\ team[i] = "unmade"
    /\ LET made == [None EXCEPT !.at = "Starting", !.rec = "Owner"]
           full == Cardinality({j \in Insts : On(j)}) >= Cap
       IN \/ ~full /\ inst' = [inst EXCEPT ![i] = made]
          \/ \E j \in Insts : /\ full /\ Evictable(j)
                              /\ inst' = [inst EXCEPT ![j] = None, ![i] = made]
    /\ team' = [team EXCEPT ![i] = "off"]
    /\ UNCHANGED <<phase, cmd, frame, owner, late, fault>>

\* submit_command: one at a time; a second of the same kind waits with the first.
Submit(i, c) ==
    /\ frame.at = "construct" /\ owner[i] /\ On(i) /\ cmd[i] = "none"
    /\ cmd' = [cmd EXCEPT ![i] = c]
    /\ UNCHANGED <<inst, phase, frame, team, owner, late, fault>>

Stop(i) == [inst EXCEPT ![i].at = IF @ = "Dead" THEN @ ELSE "Stopping"]
StopSlay(i) ==
    /\ inst' = Stop(i)
    /\ team' = [team EXCEPT ![i] = IF Team(i) THEN Slay(@) ELSE @]
Claimable(i) == inst[i].claimed \/ ~late[i]

Finish(i) == cmd' = [cmd EXCEPT ![i] = "none"]
Requeue == UNCHANGED cmd

\* Embark, and the wait for readiness that follows it.
Embark(i) ==
    /\ cmd[i] = "Embark"
    /\ \/ /\ inst[i].at = "Starting" /\ inst[i].started
          /\ \/ inst' = [inst EXCEPT ![i].at = "Ready"] /\ Finish(i) /\ UNCHANGED team
             \/ Requeue /\ UNCHANGED <<inst, team>>
             \/ StopSlay(i) /\ Finish(i)
       \/ /\ inst[i].at = "Debarked"
          /\ \/ StopSlay(i) /\ Finish(i)
             \/ /\ Claimable(i) /\ Requeue /\ UNCHANGED team
                /\ inst' = [inst EXCEPT ![i].claimed = TRUE]
             \/ /\ Claimable(i) /\ team[i] = "off"
                /\ team' = [team EXCEPT ![i] = "run"]
                /\ inst' = [inst EXCEPT ![i].claimed = TRUE, ![i].started = TRUE,
                                        ![i].at = IF inst[i].started THEN "Ready" ELSE "Starting"]
                /\ IF inst[i].started THEN Finish(i) ELSE Requeue
       \/ /\ ~(inst[i].at = "Starting" /\ inst[i].started) /\ inst[i].at # "Debarked"
          /\ Finish(i) /\ UNCHANGED <<inst, team>>
    /\ UNCHANGED fault

Debark(i) ==
    /\ cmd[i] = "Debark"
    /\ \/ Requeue /\ inst[i].at = "Ready" /\ UNCHANGED <<inst, team>>
       \/ Finish(i) /\ UNCHANGED <<inst, team>>
       \/ /\ inst[i].at = "Ready" /\ team[i] = "run" /\ Finish(i)
          /\ inst' = [inst EXCEPT ![i].at = "Debarked"] /\ team' = [team EXCEPT ![i] = "off"]
    /\ UNCHANGED fault

Ruin(i) ==
    /\ cmd[i] = "Ruin"
    /\ IF Team(i) THEN StopSlay(i) /\ Requeue ELSE Finish(i) /\ UNCHANGED <<inst, team>>
    /\ UNCHANGED fault

\* release_instance; what was told may be lost on the way (heard).
Release(i, heard) ==
    /\ cmd[i] = "Release"
    /\ LET rec == IF inst[i].rec = "Owner" THEN "Returned" ELSE inst[i].rec IN
       IF inst[i].at # "Dead"
       THEN /\ inst' = [inst EXCEPT ![i].at = "Stopping", ![i].rec = rec]
            /\ team' = [team EXCEPT ![i] = IF rec = "Returned" THEN Slay(@) ELSE @]
            /\ Requeue /\ UNCHANGED fault
       ELSE \/ /\ rec = "Returned" /\ team[i] # "done" /\ UNCHANGED <<team, fault>>
               /\ inst' = [inst EXCEPT ![i].rec = rec]
               /\ IF team[i] = "gone" THEN Finish(i) ELSE Requeue
            \/ /\ rec = "Returned" /\ team[i] = "done"
               /\ team' = [team EXCEPT ![i] = "gone"]
               /\ inst' = [inst EXCEPT ![i].rec = IF heard THEN "Reported" ELSE "Consumed"]
               /\ Finish(i) /\ UNCHANGED fault
            \/ /\ rec # "Returned" /\ Finish(i) /\ UNCHANGED team
               /\ inst' = [inst EXCEPT ![i].rec = IF heard THEN "Reported" ELSE @]
               /\ fault' = (fault \/ (heard /\ rec \notin {"Consumed", "Reported"}))

Answer(i) ==
    /\ frame.at = "commands" /\ i \in frame.todo
    /\ frame' = [frame EXCEPT !.todo = @ \ {i}]
    /\ \/ cmd[i] = "none" /\ UNCHANGED <<inst, cmd, team, fault>>
       \/ cmd[i] # "none" /\ ~On(i) /\ Finish(i) /\ UNCHANGED <<inst, team, fault>>
       \/ On(i) /\ (Embark(i) \/ Debark(i) \/ Ruin(i) \/ \E h \in BOOLEAN : Release(i, h))
    /\ UNCHANGED <<phase, owner, late>>

----------------------------------------------------------------------------
(* Reaping: every instance, then the ones to keep *)

Over(i) == team[i] \in {"half", "dying", "done", "gone"}
Reaped(i) ==
    LET x == inst[i] IN
    IF x.at = "Dead" /\ x.rec = "Returned" /\ team[i] = "done" THEN [x EXCEPT !.rec = "Consumed"]
    ELSE IF ~Team(i) THEN x
    ELSE IF ~owner[i] \/ Over(i) \/ (~x.claimed /\ x.at = "Debarked" /\ late[i])
    THEN [x EXCEPT !.at = "Stopping"] ELSE x
Retains(i, x) ==
    \/ x.at # "Dead" /\ x.rec \in {"Owner", "Returned"}
    \/ x.rec = "Returned" \/ (x.at = "Stopping" /\ x.rec = "Consumed") \/ owner[i]
ReapInstances ==
    /\ frame.at = "reap" /\ frame' = [at |-> "hooks", todo |-> {i \in Insts : On(i)}]
    /\ inst' = [i \in Insts |-> IF On(i) /\ Retains(i, Reaped(i)) THEN Reaped(i) ELSE None]
    /\ team' = [i \in Insts |->
                 IF On(i) /\ inst[i].at = "Dead" /\ inst[i].rec = "Returned" /\ team[i] = "done"
                 THEN "gone"
                 ELSE IF Team(i) /\ Reaped(i).at = "Stopping" THEN Slay(team[i]) ELSE team[i]]
    /\ UNCHANGED <<phase, cmd, owner, late, fault>>

----------------------------------------------------------------------------
(* Hooks *)

PrunedReceipt(i) ==
    inst[i].rec = "Owner" /\ inst[i].at = "Stopping" /\ ~owner[i] /\ team[i] = "gone"
Retirable(i) ==
    /\ inst[i].at = "Stopping"
    /\ inst[i].rec \in {"Consumed", "Reported"} \/ PrunedReceipt(i) \/ team[i] = "done"

\* select: the phase to run now, a job of its own.
Selected(i) ==
    IF inst[i].at = "Starting" /\ ~inst[i].started THEN "Prepare"
    ELSE IF Retirable(i) THEN "Retire" ELSE "none"

Visit(i) == frame.at = "hooks" /\ i \in frame.todo /\ frame' = [frame EXCEPT !.todo = @ \ {i}]
Skip(i) ==
    /\ Visit(i) /\ (~On(i) \/ Selected(i) = "none")
    /\ UNCHANGED <<inst, phase, cmd, team, owner, late, fault>>
PhasePending(i) ==
    /\ Visit(i) /\ On(i) /\ Selected(i) # "none"
    /\ phase' = [phase EXCEPT ![i] = @ \cup {Selected(i)}]
    /\ UNCHANGED <<inst, cmd, team, owner, late, fault>>
PhaseFails(i) ==
    /\ Visit(i) /\ On(i) /\ Selected(i) # "none"
    /\ phase' = [phase EXCEPT ![i] = @ \ {Selected(i)}] /\ inst' = Stop(i)
    /\ UNCHANGED <<cmd, team, owner, late, fault>>
Prepare(i) ==
    /\ Visit(i) /\ On(i) /\ Selected(i) = "Prepare"
    /\ phase' = [phase EXCEPT ![i] = @ \ {"Prepare"}]
    /\ inst' = [inst EXCEPT ![i].at = "Debarked"] /\ late' = [late EXCEPT ![i] = FALSE]
    /\ UNCHANGED <<cmd, team, owner, fault>>
\* The last step, reclaim: a live owner keeps its receipt, another is consumed.
Reclaims(i, rec, t) ==
    \/ inst[i].rec \in {"Consumed", "Reported"} /\ rec = inst[i].rec /\ t = team[i]
    \/ inst[i].rec = "Owner" /\ owner[i] /\ rec = "Owner" /\ t = team[i]
    \/ PrunedReceipt(i) /\ rec = "Consumed" /\ t = team[i]
    \/ /\ inst[i].rec \in {"Owner", "Returned"} /\ ~(inst[i].rec = "Owner" /\ owner[i])
       /\ team[i] = "done" /\ rec = "Consumed" /\ t = "gone"
Retire(i) ==
    /\ Visit(i) /\ On(i) /\ Selected(i) = "Retire"
    /\ \E rec \in {"Owner", "Consumed", "Reported"}, t \in {team[i], "gone"} :
         /\ Reclaims(i, rec, t)
         /\ inst' = [inst EXCEPT ![i].rec = rec, ![i].at = "Dead"]
         /\ team' = [team EXCEPT ![i] = t] /\ fault' = (fault \/ rec = "Returned")
    /\ phase' = [phase EXCEPT ![i] = @ \ {"Retire"}]
    /\ UNCHANGED <<cmd, owner, late>>

Frame ==
    /\ \/ frame.at = "construct" /\ frame' = [at |-> "commands", todo |-> Insts]
       \/ frame = [at |-> "commands", todo |-> {}] /\ frame' = [at |-> "reap", todo |-> {}]
       \/ frame = [at |-> "hooks", todo |-> {}] /\ frame' = [at |-> "construct", todo |-> {}]
    /\ UNCHANGED <<inst, phase, cmd, team, owner, late, fault>>

Kernel(i) == MainExits(i) \/ Ends(i) \/ OwnerDies(i) \/ Pruned(i) \/ Expire(i)
Hook(i) == Skip(i) \/ PhasePending(i) \/ PhaseFails(i) \/ Prepare(i) \/ Retire(i)
Next ==
    \/ ReapInstances \/ Frame
    \/ \E i \in Insts : \/ CreateInstance(i) \/ Answer(i) \/ Hook(i) \/ Kernel(i)
                        \/ \E c \in {"Embark", "Debark", "Ruin", "Release"} : Submit(i, c)

Spec == Init /\ [][Next]_insVars

----------------------------------------------------------------------------
(* Properties *)

\* A team with a member that may still run is in Control's table and is not
\* said to be dead (retains_after_reap, select, finish).
NoneAbandoned ==
    \A i \in Insts : team[i] \in {"off", "run", "half", "dying"} => Team(i)

\* As long as its owner lives, an instance leaves the table only after the
\* owner has been told that its release is complete (reserve_instance, reap).
ToldFirstStep ==
    \A i \in Insts : On(i) /\ inst'[i].at = "none" /\ owner[i] => inst[i].rec = "Reported"

\* The checks that would stop the whole system never fail (finish, answer).
NoFault == ~fault

=============================================================================
