----------------------------- MODULE MCProgress -----------------------------
(***************************************************************************)
(* What must happen in the end, under the fairness each component's module *)
(* states: a hole with a serving reader, a machine whose guard tripped, a  *)
(* ring with a careful writer, interrupt lines with their drivers,         *)
(* and the units of a system that starts and ends.  A behaviour picks one  *)
(* part, and the others rest.                                              *)
(***************************************************************************)
EXTENDS Integers, Sequences, FiniteSets, TLC

CONSTANTS Nil,
          w1, w2, r1, x1,                  \* users of a hole
          root, dom, sup, m1, h1, h2, h3   \* teams, tasks, harts

VARIABLES part,
          kind, hands, taking, bytes, count, chain, pend, pc, len, sent, hold, todo, out,
          phase, axis, listed, exit, run, stack, commit, cleaned, alarmer, halt,
          rk1, rk2, rk3, rk4, rk5, rk6, rk7, rk8, rk9, rk10, rk11, rk12, rk13, rk14, rk15,
          ln1, ln2, ln3, ln4, ln5, ln6, ln7, ln8, ln9, ln10, ln11, ln12, ln13, ln14, ln15,
          ln16,
          un1, un2, un3, un4, un5, un6, un7, un8, un9, un10, un11, un12, un13, un14, un15,
          un16, un17, un18, un19

Serve == INSTANCE Hole WITH
    Writer <- {w1, w2}, Reader <- {r1}, Husher <- {}, Drainer <- {}, Ringer <- {},
    Bounded <- {}, Sealer <- x1, MaxMessages <- 1, MaxBytes <- 2, Lengths <- {1},
    RingCap <- 2, MaxSend <- 1, None <- Nil

Stop == INSTANCE ExitGuard WITH
    Teams <- {root, dom}, Tasks <- {sup, m1}, Harts <- {h1, h2, h3},
    Home <- (sup :> root) @@ (m1 :> dom), Sire <- (root :> Nil) @@ (dom :> sup),
    Authorized <- {sup}, DeathsMax <- 1, None <- Nil

Ring == INSTANCE Rack WITH
    Cap <- 2, Mode <- "oldest", Careful <- TRUE, MaxSeq <- 3, Reopens <- 1, write <- rk1,
    read <- rk2, lost <- rk3, dropped <- rk4, slots <- rk5, bell <- rk6, space <- rk7,
    wpc <- rk8, frame <- rk9, rpc <- rk10, nextSeq <- rk11, skipped <- rk12, copy <- rk13,
    got <- rk14, reopened <- rk15

Routing == INSTANCE Lines WITH
    Clients <- {"a", "b"}, Line <- ("a" :> 1) @@ ("b" :> 1), Raises <- 2, level <- ln1,
    prio <- ln2, wired <- ln3, claimed <- ln4, irq <- ln5, gate <- ln6, cells <- ln7,
    busy <- ln8, door <- ln9, pc <- ln10, cur <- ln11, life <- ln12, rung <- ln13,
    back <- ln14, work <- ln15, count <- ln16

Units == INSTANCE Lifecycle WITH
    UnitList <- <<"a", "b">>, After <- ("a" :> {}) @@ ("b" :> {"a"}), Guarded <- {},
    Supervisor <- "none", Group <- {}, Gated <- {},
    Ending <- [u \in {"a", "b"} |-> "resident"], Kinds <- {"embark"}, MaxAsk <- 1,
    Failures <- 0, row <- un1, job <- un2, order <- un3, ended <- un4, pending <- un5,
    holds <- un6, alive <- un7, phase <- un8, active <- un9, budget <- un10,
    startup <- un11, settle <- un12, drained <- un13, answers <- un14, halted <- un15,
    asked <- un16, faults <- un17, born <- un18, down <- un19

ASSUME Serve!Assumptions /\ Ring!Assumptions /\ Routing!Assumptions /\ Units!Assumptions

hole == <<kind, hands, taking, bytes, count, chain, pend, pc, len, sent, hold, todo, out>>
guard == <<phase, axis, listed, exit, run, stack, commit, cleaned, alarmer, halt>>
rack == <<rk1, rk2, rk3, rk4, rk5, rk6, rk7, rk8, rk9, rk10, rk11, rk12, rk13, rk14,
              rk15>>
router == <<ln1, ln2, ln3, ln4, ln5, ln6, ln7, ln8, ln9, ln10, ln11, ln12, ln13, ln14,
              ln15, ln16>>
system == <<un1, un2, un3, un4, un5, un6, un7, un8, un9, un10, un11, un12, un13, un14,
              un15, un16, un17, un18, un19>>

vars == <<part, hole, guard, rack, router, system>>

Init ==
    /\ part \in {"serve", "stop", "ring", "lines", "units"}
    /\ Serve!Init /\ Stop!Init /\ Ring!Init /\ Routing!Init /\ Units!lifecycleInit

OnHole(step) ==
    part = "serve" /\ step /\ UNCHANGED <<part, guard, rack, router, system>>
OnGuard(step) ==
    part = "stop" /\ step /\ UNCHANGED <<part, hole, rack, router, system>>
OnRing(step) ==
    part = "ring" /\ step /\ UNCHANGED <<part, hole, guard, router, system>>
OnLines(step) ==
    part = "lines" /\ step /\ UNCHANGED <<part, hole, guard, rack, system>>
OnUnits(step) ==
    part = "units" /\ step /\ UNCHANGED <<part, hole, guard, rack, router>>

Next ==
    \/ OnHole(Serve!Next)
    \/ OnGuard(Stop!Next)
    \/ OnRing(Ring!Next)
    \/ OnLines(Routing!Next)
    \/ OnUnits(Units!lifecycleNext)

\* The fairness of the components.  A behaviour has one part only, so a condition on
\* "this step of one part or that step of another" is each part's own condition.
Weak1 ==
    \/ OnHole(Serve!Proceed(w1)) \/ OnGuard(Stop!Work(h1)) \/ OnRing(Ring!WriterStep)
    \/ OnLines(Routing!RouterStep) \/ OnUnits(Units!FrameStep)
Weak2 ==
    \/ OnHole(Serve!Proceed(w2)) \/ OnGuard(Stop!Work(h2)) \/ OnRing(Ring!ReaderStep)
    \/ OnLines(Routing!Trap) \/ OnUnits(Units!Expire("a"))
Weak3 ==
    \/ OnHole(Serve!Proceed(r1)) \/ OnGuard(Stop!Work(h3)) \/ OnLines(Routing!ClientStep("a"))
    \/ OnUnits(Units!Expire("b"))
Weak4 ==
    \/ OnHole(Serve!Proceed(x1)) \/ OnGuard(Stop!Alarm(h1)) \/ OnLines(Routing!ClientStep("b"))
Weak5 == OnHole(Serve!StartPull(r1)) \/ OnGuard(Stop!Alarm(h2))
Weak6 == OnGuard(Stop!Alarm(h3))
Weak7 == OnGuard(Stop!Quiesce(h1))
Weak8 == OnGuard(Stop!Quiesce(h2))
Weak9 == OnGuard(Stop!Quiesce(h3))
Strong1 == OnHole(Serve!Taken(r1)) \/ OnGuard(Stop!Hush(h1)) \/ OnUnits(Units!Advance)
Strong2 == OnGuard(Stop!Hush(h2))
Strong3 == OnGuard(Stop!Hush(h3))

FairSpec ==
    /\ Init /\ [][Next]_vars
    /\ WF_vars(Weak1) /\ WF_vars(Weak2) /\ WF_vars(Weak3) /\ WF_vars(Weak4)
    /\ WF_vars(Weak5) /\ WF_vars(Weak6) /\ WF_vars(Weak7) /\ WF_vars(Weak8)
    /\ WF_vars(Weak9) /\ SF_vars(Strong1) /\ SF_vars(Strong2) /\ SF_vars(Strong3)

----------------------------------------------------------------------------
(* Properties.  Each is stated in its component's module. *)

Is(p) == part = p

\* What is waited for in each part, and when it is there.  As a behaviour has one part,
\* a line of waits that follow from one another is each part's own.  The two writers of
\* the hole are alike, so one stands for both.
Wait1 ==
    \/ Is("serve") /\ Serve!Committed(<<w1, 1>>)
    \/ Is("ring") /\ Ring!Unread
    \/ Is("lines") /\ Routing!Wanted("a")
    \/ Is("units") /\ ~Units!Started
Got1 ==
    \/ Is("serve") /\ Serve!Consumed(<<w1, 1>>)
    \/ Is("ring") /\ ~Ring!Unread
    \/ Is("lines") /\ Routing!Drained("a")
    \/ Is("units") /\ Units!Started
Wait2 ==
    \/ Is("serve") /\ Serve!Asleep(w1)
    \/ Is("lines") /\ Routing!Wanted("b")
Got2 ==
    \/ Is("serve") /\ Serve!Woken(w1)
    \/ Is("lines") /\ Routing!Drained("b")

\* In part "stop" or "units": what must come to rest, and its rest.
Ending ==
    \/ Is("stop") /\ Stop!AnyTripped
    \/ Is("units") /\ Units!Closing
Ended ==
    \/ Is("stop") /\ Stop!Halted
    \/ Is("units") /\ Units!Over

\* Who waits is served.  Hole's Served and WriterWoken: a committed message is
\* consumed, and with readers at work a writer does not sleep for ever on a full hole,
\* unless the hole is sealed.  Rack's AllRead: all a careful writer puts into a ring
\* is read.  Lines' Attended: what a device has is drained while its line has a living
\* owner.  Lifecycle's StartsUp: the startup list is worked off.
Served == (Wait1 ~> Got1) /\ (Wait2 ~> Got2)

\* Once a guard trips, the machine comes to rest (ExitGuard's TripStops): one hart owns
\* the alarm and has seen every other hart hunker down, whatever locks they were after.
\* Once the system closes it ends (Lifecycle's Ends).
ComesToRest == Ending ~> Ended

=============================================================================
