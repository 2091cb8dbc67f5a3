------------------------------- MODULE Idle -------------------------------
(***************************************************************************)
(* The idle loop of a hart, the kick that must get it out of wfi, and the  *)
(* halt barrier: conductor/fetch.rs, scheduler/idle.rs, scheduler/mod.rs   *)
(* (kick), halt/mod.rs and unit/tally.rs.                                  *)
(*                                                                         *)
(* Room.tla takes each commit section as one step.  Here the section of a  *)
(* kick is cut at every access to the WAITING bits and to the pending      *)
(* software interrupts, because idle harts set, clear and test those with  *)
(* no lock; lock says which hart is in a section that is cut.              *)
(***************************************************************************)
EXTENDS Integers, Sequences, FiniteSets

CONSTANTS
  Hart, Task, None,
  Root,      \* the entry task, launched before the other harts start
  Quantum    \* QUANTUM_TICKS: turns a task keeps a hart others wait for

ASSUME IdleAssumption ==
  /\ Root \in Task /\ None \notin Task \cup Hart
  /\ Quantum \in Nat \ {0} /\ Hart # {} /\ IsFiniteSet(Hart)

VARIABLES
  starved, running, ticks,   \* Conductor: queue, slot, ticks_left of the slot
  unborn, blocked, husks,    \* tasks in none of those
  grave,                     \* the husk a hart is burying
  waiting,                   \* WAITING: the harts that say they sleep
  ssoft,                     \* the harts whose software interrupt is pending
  lock,                      \* the hart inside a kick's commit section
  rising, kick, back,        \* what it kicks, whereto, where it goes on
  PUSHED, REAPED,            \* tally
  seen,                      \* the count of PUSHED a hart in tally::done has loaded
  HALTING, arrivals,         \* halt: the flag, the order of arrival
  pc

taskVars == <<starved, running, ticks, unborn, blocked, husks, grave>>
kickVars == <<lock, rising, kick, back>>
tallyVars == <<PUSHED, REAPED, seen>>
haltVars == <<HALTING, arrivals>>
vars == <<taskVars, waiting, ssoft, kickVars, tallyVars, haltVars, pc>>

NoKick == [task |-> None, to |-> None, notify |-> FALSE]

Label == {"user", "run", "dig", "next", "fetch", "check", "count", "sleep", "look",
          "up", "check2", "count2", "loop", "count3", "armed", "wfi", "woken", "break", "seek", "clear",
          "pick", "push", "test", "other", "find",
          "halt", "elect", "yell", "barrier", "reset", "stopped"}

Kicking == {"pick", "push", "test", "other", "find"}

\* Every variable has its type; ticks_left stays in 1..Quantum, and the
\* commit lock is held exactly during a kick.
TypeOK ==
  /\ starved \in [Hart -> Seq(Task)]
  /\ running \in [Hart -> Task \cup {None}]
  /\ ticks \in [Hart -> 1..Quantum]
  /\ unborn \subseteq Task /\ blocked \subseteq Task /\ husks \subseteq Task
  /\ grave \in [Hart -> Task \cup {None}]
  /\ waiting \subseteq Hart /\ ssoft \subseteq Hart
  /\ lock \in Hart \cup {None}
  /\ rising \in [Hart -> SUBSET Task]
  /\ kick \in [Hart -> [task : Task \cup {None}, to : Hart \cup {None},
                        notify : BOOLEAN]]
  /\ back \in [Hart -> {"user", "break", "armed"}]
  /\ PUSHED \in Nat /\ REAPED \in Nat /\ seen \in [Hart -> Nat] /\ HALTING \in BOOLEAN
  /\ pc \in [Hart -> Label]
  /\ arrivals \in Seq(Hart)
  /\ \A h \in Hart : lock = h <=> pc[h] \in Kicking

\* What tally::done asks: every task published has been buried.
Done == PUSHED = 0 \/ REAPED = PUSHED

Goto(h, l) == pc' = [pc EXCEPT ![h] = l]

Init ==
  /\ \E b \in Hart : starved = [h \in Hart |-> IF h = b THEN <<Root>> ELSE <<>>]
  /\ running = [h \in Hart |-> None]
  /\ ticks = [h \in Hart |-> Quantum]
  /\ unborn = Task \ {Root} /\ blocked = {} /\ husks = {}
  /\ grave = [h \in Hart |-> None]
  /\ waiting = {} /\ ssoft = {}
  /\ lock = None
  /\ rising = [h \in Hart |-> {}]
  /\ kick = [h \in Hart |-> NoKick]
  /\ back = [h \in Hart |-> "user"]
  /\ PUSHED = 1 /\ REAPED = 0 /\ seen = [h \in Hart |-> 0]
  /\ HALTING = FALSE /\ arrivals = <<>>
  /\ pc = [h \in Hart |-> "run"]

-----------------------------------------------------------------------------
(* What a task in user code may do.                                        *)

\* swap: the head of the queue, if any, is seated.  Pauses are left to Room.
Swap(h) ==
  /\ lock = None
  /\ running' = [running EXCEPT ![h] = IF starved[h] = <<>> THEN None
                                       ELSE Head(starved[h])]
  /\ starved' = [starved EXCEPT ![h] = IF @ = <<>> THEN @ ELSE Tail(@)]
  /\ ticks' = [ticks EXCEPT ![h] = Quantum]

\* block_with_call queues the running task on a wait site.
Block(h) ==
  /\ pc[h] = "user"
  /\ Swap(h)
  /\ blocked' = blocked \cup {running[h]}
  /\ Goto(h, IF starved[h] = <<>> THEN "run" ELSE "user")
  /\ UNCHANGED <<unborn, husks, grave, waiting, ssoft, kickVars, tallyVars, haltVars>>

\* quit: the running task dies; run follows, whoever was seated.
Quit(h) ==
  /\ pc[h] = "user"
  /\ Swap(h)
  /\ husks' = husks \cup {running[h]}
  /\ Goto(h, "run")
  /\ UNCHANGED <<unborn, blocked, grave, waiting, ssoft, kickVars, tallyVars, haltVars>>

\* A task is published: held until an embark kicks it, like a sleeper.
Spawn(h, t) ==
  /\ pc[h] = "user" /\ lock = None
  /\ t \in unborn
  /\ unborn' = unborn \ {t} /\ blocked' = blocked \cup {t}
  /\ PUSHED' = PUSHED + 1
  /\ UNCHANGED <<starved, running, ticks, husks, grave, waiting, ssoft, kickVars,
                 REAPED, seen, haltVars, pc>>

\* The start of a section that lets the tasks S rise.
StartRise(h, S, l) ==
  /\ lock = None
  /\ lock' = h
  /\ rising' = [rising EXCEPT ![h] = S]
  /\ back' = [back EXCEPT ![h] = l]
  /\ blocked' = blocked \ S
  /\ Goto(h, "pick")

\* A call of the running task, or a deadline met in its timer trap.
Wake(h, S) ==
  /\ pc[h] = "user" /\ S # {}
  /\ StartRise(h, S, "user")
  /\ UNCHANGED <<starved, running, ticks, unborn, husks, grave, waiting, ssoft, kick,
                 tallyVars, haltVars>>

\* The software interrupt clears itself before run, the timer clears nothing.
Trap(h, soft) ==
  /\ pc[h] = "user"
  /\ soft => h \in ssoft
  /\ ssoft' = IF soft THEN ssoft \ {h} ELSE ssoft
  /\ Goto(h, "run")
  /\ UNCHANGED <<taskVars, waiting, kickVars, tallyVars, haltVars>>

-----------------------------------------------------------------------------
(* kick, inside the commit section.                                        *)

\* idle::pick: a hart that sleeps or, when none does, one in turn.
Pick(h, t, q) ==
  /\ pc[h] = "pick" /\ t \in rising[h]
  /\ IF waiting # {} THEN q \in waiting ELSE q # h \/ Hart = {h}
  /\ rising' = [rising EXCEPT ![h] = @ \ {t}]
  /\ kick' = [kick EXCEPT ![h] = [task |-> t, to |-> q, notify |-> FALSE]]
  /\ Goto(h, "push")
  /\ UNCHANGED <<taskVars, waiting, ssoft, lock, back, tallyVars, haltVars>>

\* Conductor::push: notify when the queue was empty.
Push(h) ==
  LET q == kick[h].to
  IN  /\ pc[h] = "push"
      /\ starved' = [starved EXCEPT ![q] = Append(@, kick[h].task)]
      /\ kick' = [kick EXCEPT ![h].notify = starved[q] = <<>>]
      /\ Goto(h, "test")
      /\ UNCHANGED <<running, ticks, unborn, blocked, husks, grave, waiting, ssoft,
                     lock, rising, back, tallyVars, haltVars>>

\* The kick is over: the next one, or the end of the section.
EndKick(h) ==
  /\ kick' = [kick EXCEPT ![h] = NoKick]
  /\ lock' = IF rising[h] = {} THEN None ELSE lock
  /\ back' = IF rising[h] = {} THEN [back EXCEPT ![h] = "user"] ELSE back
  /\ Goto(h, IF rising[h] = {} THEN back[h] ELSE "pick")

\* Nudge the hart if it sleeps or had an empty queue; else its timer will do.
Test(h) ==
  LET q == kick[h].to
  IN  /\ pc[h] = "test"
      /\ IF q \in waiting \/ kick[h].notify
         THEN ssoft' = ssoft \cup {q} /\ Goto(h, "other") /\ UNCHANGED <<lock, kick, back>>
         ELSE EndKick(h) /\ UNCHANGED ssoft
      /\ UNCHANGED <<taskVars, waiting, rising, tallyVars, haltVars>>

\* The hart nudged does not sleep: it may be long, so another may steal.
Other(h) ==
  /\ pc[h] = "other"
  /\ IF kick[h].to \notin waiting THEN Goto(h, "find") /\ UNCHANGED <<lock, kick, back>>
     ELSE EndKick(h)
  /\ UNCHANGED <<taskVars, waiting, ssoft, rising, tallyVars, haltVars>>

Find(h) ==
  /\ pc[h] = "find"
  /\ \/ \E q \in waiting \ {kick[h].to} : ssoft' = ssoft \cup {q}
     \/ waiting \subseteq {kick[h].to} /\ UNCHANGED ssoft
  /\ EndKick(h)
  /\ UNCHANGED <<taskVars, waiting, rising, tallyVars, haltVars>>

-----------------------------------------------------------------------------
(* run: bury, then advance.                                                *)

\* bury takes a husk; with none left run goes on.
Dig(h) ==
  /\ pc[h] = "run"
  /\ \/ \E t \in husks : /\ husks' = husks \ {t}
                         /\ grave' = [grave EXCEPT ![h] = t]
                         /\ Goto(h, "dig")
     \/ husks = {} /\ Goto(h, "next") /\ UNCHANGED <<husks, grave>>
  /\ UNCHANGED <<starved, running, ticks, unborn, blocked, waiting, ssoft, kickVars,
                 tallyVars, haltVars>>

\* The husk is retired and counted; or retire refuses, the husk goes back
\* and bury gives up for this time.
Bury(h) ==
  /\ pc[h] = "dig"
  /\ grave' = [grave EXCEPT ![h] = None]
  /\ \/ REAPED' = REAPED + 1 /\ UNCHANGED husks /\ Goto(h, "run")
     \/ husks' = husks \cup {grave[h]} /\ UNCHANGED REAPED /\ Goto(h, "next")
  /\ UNCHANGED <<starved, running, ticks, unborn, blocked, waiting, ssoft, kickVars,
                 PUSHED, seen, haltVars>>

\* rotate: the running task to the end of the queue, its head to the hart.
Rotate(h) ==
  /\ lock = None /\ starved[h] # <<>>
  /\ running' = [running EXCEPT ![h] = Head(starved[h])]
  /\ starved' = [starved EXCEPT ![h] = Append(Tail(@), running[h])]
  /\ ticks' = [ticks EXCEPT ![h] = Quantum]

\* Room::Starve: the running task gives up its turn.
Starve(h) ==
  /\ pc[h] = "user"
  /\ Rotate(h)
  /\ UNCHANGED <<unborn, blocked, husks, grave, waiting, ssoft, kickVars, tallyVars,
                 haltVars, pc>>

\* MUTANT of Advance: a kept turn is not counted down.
AdvanceHog(h) ==
  /\ pc[h] = "next" /\ lock = None
  /\ \/ running[h] = None /\ Goto(h, "fetch") /\ UNCHANGED <<starved, running, ticks>>
     \/ /\ running[h] # None
        /\ starved[h] = <<>> \/ ticks[h] > 1
        /\ Goto(h, "user") /\ UNCHANGED <<starved, running, ticks>>
     \/ running[h] # None /\ Rotate(h) /\ Goto(h, "user")
  /\ UNCHANGED <<unborn, blocked, husks, grave, waiting, ssoft, kickVars, tallyVars,
                 haltVars>>

\* MUTANT of Advance: the last tick is counted down too.
AdvanceUnderflow(h) ==
  /\ pc[h] = "next" /\ lock = None
  /\ \/ running[h] = None /\ Goto(h, "fetch") /\ UNCHANGED <<starved, running, ticks>>
     \/ /\ running[h] # None
        /\ starved[h] = <<>> \/ ticks[h] > 1
        /\ ticks' = [ticks EXCEPT ![h] = @ - 1]
        /\ Goto(h, "user") /\ UNCHANGED <<starved, running>>
  /\ UNCHANGED <<unborn, blocked, husks, grave, waiting, ssoft, kickVars, tallyVars,
                 haltVars>>

\* advance: keep the hart while nobody waits or ticks are left and the wait
\* of the queue's head is within its budget, else rotate.
Advance(h) ==
  /\ pc[h] = "next" /\ lock = None
  /\ \/ running[h] = None /\ Goto(h, "fetch") /\ UNCHANGED <<starved, running, ticks>>
     \/ /\ running[h] # None
        /\ starved[h] = <<>> \/ ticks[h] > 1
        /\ ticks' = [ticks EXCEPT ![h] = IF @ > 1 THEN @ - 1 ELSE @]
        /\ Goto(h, "user") /\ UNCHANGED <<starved, running>>
     \/ running[h] # None /\ Rotate(h) /\ Goto(h, "user")
  /\ UNCHANGED <<unborn, blocked, husks, grave, waiting, ssoft, kickVars, tallyVars,
                 haltVars>>

-----------------------------------------------------------------------------
(* The idle loop.                                                          *)

\* steal's try_lock misses a victim that is reading its own slot, as a hart
\* may from a trap to the end of bury (running_task).
Evasive(q) == pc[q] \in {"user", "run", "dig"}

\* dispatch: the head of the own queue, else one stolen, seated; the hart
\* goes on to label yes, or to no with nothing found.
Dispatch(h, yes, no) ==
  /\ lock = None
  /\ \/ \E q \in Hart :
          /\ starved[q] # <<>>
          /\ q = h \/ starved[h] = <<>>
          /\ running' = [running EXCEPT ![h] = Head(starved[q])]
          /\ starved' = [starved EXCEPT ![q] = Tail(@)]
          /\ ticks' = [ticks EXCEPT ![h] = Quantum]
          /\ Goto(h, yes)
     \/ /\ starved[h] = <<>>
        /\ \A q \in Hart : starved[q] # <<>> => Evasive(q)
        /\ Goto(h, no)
        /\ UNCHANGED <<running, starved, ticks>>
  /\ UNCHANGED <<unborn, blocked, husks, grave, waiting, ssoft, kickVars, tallyVars,
                 haltVars>>

Fetch(h) == pc[h] = "fetch" /\ Dispatch(h, "user", "check")

\* tally::done, asked outside every lock, loads PUSHED and then REAPED.
Load(h) ==
  /\ pc[h] \in {"check", "check2", "loop"}
  /\ seen' = [seen EXCEPT ![h] = PUSHED]
  /\ Goto(h, CASE pc[h] = "check" -> "count" [] pc[h] = "check2" -> "count2"
              [] pc[h] = "loop" -> "count3")
  /\ UNCHANGED <<taskVars, waiting, ssoft, kickVars, PUSHED, REAPED, haltVars>>

\* Its answer, and the PUSHED it loaded is forgotten.
Answer(h) == seen[h] = 0 \/ REAPED = seen[h]
Forget(h) == seen' = [seen EXCEPT ![h] = 0] /\ UNCHANGED <<PUSHED, REAPED>>

Check(h) ==
  /\ pc[h] \in {"count", "count2"}
  /\ Goto(h, IF Answer(h) THEN "halt" ELSE IF pc[h] = "count" THEN "sleep" ELSE "loop")
  /\ Forget(h)
  /\ UNCHANGED <<taskVars, waiting, ssoft, kickVars, haltVars>>

\* idle::sleep: the bit is set before the queues are looked at again.
Sleep(h) ==
  /\ pc[h] = "sleep"
  /\ waiting' = waiting \cup {h}
  /\ Goto(h, "look")
  /\ UNCHANGED <<taskVars, ssoft, kickVars, tallyVars, haltVars>>

Look(h) == pc[h] = "look" /\ Dispatch(h, "up", "check2")

\* idle::wake, with a task in the slot.
Up(h) ==
  /\ pc[h] = "up"
  /\ waiting' = waiting \ {h}
  /\ Goto(h, "user")
  /\ UNCHANGED <<taskVars, ssoft, kickVars, tallyVars, haltVars>>

Loop(h) ==
  /\ pc[h] = "count3"
  /\ IF Answer(h)
     THEN ssoft' = ssoft \ {h} /\ waiting' = waiting \ {h} /\ Goto(h, "halt")
     ELSE Goto(h, "armed") /\ UNCHANGED <<ssoft, waiting>>
  /\ Forget(h)
  /\ UNCHANGED <<taskVars, kickVars, haltVars>>

\* A pending external interrupt rings its bell: the tasks S rise.
Ring(h, S) ==
  /\ pc[h] = "armed" /\ S # {}
  /\ StartRise(h, S, "armed")
  /\ UNCHANGED <<starved, running, ticks, unborn, husks, grave, waiting, ssoft, kick,
                 tallyVars, haltVars>>

\* MUTANT of Armed: no look at the queues between the clear and wfi.
ArmedBlind(h) ==
  /\ pc[h] = "armed"
  /\ Goto(h, "wfi")
  /\ UNCHANGED <<taskVars, waiting, ssoft, kickVars, tallyVars, haltVars>>

Armed(h) == pc[h] = "armed" /\ Dispatch(h, "up", "wfi")

\* wfi ends at a pending software interrupt.
Wfi(h) ==
  /\ pc[h] = "wfi" /\ h \in ssoft
  /\ Goto(h, "woken")
  /\ UNCHANGED <<taskVars, waiting, ssoft, kickVars, tallyVars, haltVars>>

\* It also ends at the timer, at an external interrupt, or for no reason.
WfiStray(h) ==
  /\ pc[h] = "wfi"
  /\ Goto(h, "woken")
  /\ UNCHANGED <<taskVars, waiting, ssoft, kickVars, tallyVars, haltVars>>

\* redeem: the waits S that are due rise, and the hart leaves the loop.
Redeem(h, S) ==
  /\ pc[h] = "woken" /\ lock = None
  /\ IF S = {} THEN Goto(h, "seek") /\ UNCHANGED <<lock, rising, back, blocked>>
     ELSE StartRise(h, S, "break")
  /\ UNCHANGED <<starved, running, ticks, unborn, husks, grave, waiting, ssoft, kick,
                 tallyVars, haltVars>>

Break(h) ==
  /\ pc[h] = "break"
  /\ ssoft' = ssoft \ {h} /\ waiting' = waiting \ {h}
  /\ Goto(h, "fetch")
  /\ UNCHANGED <<taskVars, kickVars, tallyVars, haltVars>>

Seek(h) == pc[h] = "seek" /\ Dispatch(h, "up", "clear")

\* clear_ssoft: a nudge that came since the last look is forgotten here.
Clear(h) ==
  /\ pc[h] = "clear"
  /\ ssoft' = ssoft \ {h}
  /\ Goto(h, "loop")
  /\ UNCHANGED <<taskVars, waiting, kickVars, tallyVars, haltVars>>

-----------------------------------------------------------------------------
(* halt.                                                                   *)

Arrive(h) ==
  /\ pc[h] = "halt"
  /\ arrivals' = Append(arrivals, h)
  /\ Goto(h, "elect")
  /\ UNCHANGED <<taskVars, waiting, ssoft, kickVars, tallyVars, HALTING>>

\* MUTANT of Elect: the flag is read and not swapped.
ElectReads(h) ==
  /\ pc[h] = "elect"
  /\ Goto(h, IF HALTING THEN "stopped" ELSE "yell")
  /\ UNCHANGED <<taskVars, waiting, ssoft, kickVars, tallyVars, haltVars>>

\* The hart that swaps HALTING first closes the system, the others stop.
Elect(h) ==
  /\ pc[h] = "elect"
  /\ HALTING' = TRUE
  /\ Goto(h, IF HALTING THEN "stopped" ELSE "yell")
  /\ UNCHANGED <<taskVars, waiting, ssoft, kickVars, tallyVars, arrivals>>

\* MUTANT of Yell: the sleeping harts are not told.
YellNobody(h) ==
  /\ pc[h] = "yell"
  /\ Goto(h, "barrier")
  /\ UNCHANGED <<taskVars, waiting, ssoft, kickVars, tallyVars, haltVars>>

Yell(h) ==
  /\ pc[h] = "yell"
  /\ ssoft' = ssoft \cup waiting
  /\ Goto(h, "barrier")
  /\ UNCHANGED <<taskVars, waiting, kickVars, tallyVars, haltVars>>

\* MUTANT of Barrier: it opens one hart early.
BarrierEarly(h) ==
  /\ pc[h] = "barrier"
  /\ Len(arrivals) + 1 >= Cardinality(Hart)
  /\ Goto(h, "reset")
  /\ UNCHANGED <<taskVars, waiting, ssoft, kickVars, tallyVars, haltVars>>

\* All have arrived: the hooks run and the machine is reset.
Barrier(h) ==
  /\ pc[h] = "barrier"
  /\ Len(arrivals) >= Cardinality(Hart)
  /\ Goto(h, "reset")
  /\ UNCHANGED <<taskVars, waiting, ssoft, kickVars, tallyVars, haltVars>>

-----------------------------------------------------------------------------

\* Steps a hart takes without the commit lock, or while holding it.
Free(h) ==
  \/ Push(h) \/ Test(h) \/ Other(h) \/ Find(h)
  \/ \E t \in Task, q \in Hart : Pick(h, t, q)
  \/ Dig(h) \/ Bury(h)
  \/ Load(h) \/ Check(h) \/ Sleep(h) \/ Up(h) \/ Loop(h) \/ Wfi(h) \/ Break(h) \/ Clear(h)
  \/ Arrive(h) \/ Elect(h) \/ Yell(h) \/ Barrier(h)

\* Steps that take the commit lock first.
Locked(h) ==
  \/ Advance(h) \/ Fetch(h) \/ Look(h) \/ Armed(h) \/ Seek(h)
  \/ \E S \in SUBSET blocked : Redeem(h, S)

\* What tasks and devices may do and need not.
Loose(h) ==
  \/ Block(h) \/ Quit(h) \/ Starve(h) \/ WfiStray(h)
  \/ \E t \in Task : Spawn(h, t)
  \/ \E S \in SUBSET blocked : Wake(h, S) \/ Ring(h, S)

Interrupt(h) == Trap(h, TRUE) \/ Trap(h, FALSE)

Next == \E h \in Hart : Free(h) \/ Locked(h) \/ Loose(h) \/ Interrupt(h)

Spec == Init /\ [][Next]_vars

\* A hart goes on; one that spins on the commit lock gets it in the end; the
\* timer every seat and every advance arms (prepare, beat_until) goes off.
\* Nothing is assumed of the tasks, of devices, of the timers of idle harts.
Fairness ==
  \A h \in Hart :
    WF_vars(Free(h)) /\ SF_vars(Locked(h)) /\ SF_vars(Interrupt(h))

FairSpec == Spec /\ Fairness

-----------------------------------------------------------------------------
(* Properties.                                                             *)

\* No lost wake-up: a hart in wfi with work in its own queue has an
\* interrupt pending, or the kick that brought the work is about to send it
\* (kick, wait's look between clear_ssoft and wfi).
NudgedOrEmpty ==
  \A h \in Hart :
    pc[h] = "wfi" /\ starved[h] # <<>> /\ h \notin ssoft
    => \E k \in Hart : pc[k] = "test" /\ kick[k].to = h

\* One hart closes the system: the hooks (report, rip, flush) do not race.
OneCloser ==
  \A g, h \in Hart :
    pc[g] \in {"yell", "barrier", "reset"} /\ pc[h] \in {"yell", "barrier", "reset"}
    => g = h

\* When the hooks run every hart has arrived and no task is left anywhere:
\* rip empties queues nobody uses any more.
QuietReset ==
  \A h \in Hart :
    pc[h] = "reset" =>
      /\ \A g \in Hart : pc[g] \in {"elect", "stopped", "reset"}
      /\ \A g \in Hart : running[g] = None /\ starved[g] = <<>>
      /\ husks = {} /\ blocked = {}

\* Who is queued gets a hart: turns end, stolen or not, and a sleeping hart
\* is woken for it; unless a hart has gone to the halt barrier, whose queue
\* is then served by thieves only.
HungryFed ==
  \A t \in Task :
    (\E h \in Hart, i \in 1..Cardinality(Task) : i <= Len(starved[h]) /\ starved[h][i] = t)
    ~> ((\E h \in Hart : running[h] = t) \/ arrivals # <<>>)

\* When every task has been counted out, and no hart had gone to the barrier
\* before, the machine is reset, though harts sleep in wfi with no timer due
\* (yell, the checks of done).
HaltReached == (Done /\ arrivals = <<>>) ~> \E h \in Hart : pc[h] = "reset"

\* tally.rs:27, halt/mod.rs:1: a hart goes to the barrier only when every
\* task that was started has been collected.
NoEarlyHalt == \A h \in Hart : pc[h] = "halt" => Done

=============================================================================
