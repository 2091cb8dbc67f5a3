---------------------------- MODULE IdleProofs ----------------------------
(* No wake-up is lost and one hart closes the system, for any number of    *)
(* harts and tasks.                                                        *)
EXTENDS Idle, TLAPS

Kick == [task : Task \cup {None}, to : Hart \cup {None}, notify : BOOLEAN]

\* The part of the types the argument uses.
Shape ==
  /\ pc \in [Hart -> Label]
  /\ back \in [Hart -> {"user", "break", "armed"}]
  /\ kick \in [Hart -> Kick]
  /\ starved = [h \in Hart |-> starved[h]]
  /\ HALTING \in BOOLEAN

\* A hart between idle::sleep and idle::wake.
Drowsy(h) ==
  \/ pc[h] \in {"look", "up", "check2", "count2", "loop", "count3", "armed", "wfi",
                "woken", "break", "seek", "clear"}
  \/ pc[h] \in Kicking /\ back[h] # "user"

SleepBit == \A h \in Hart : Drowsy(h) => h \in waiting

Closing(h) == pc[h] \in {"yell", "barrier", "reset"}

\* Nobody closes the system before the flag is set.
Flagged == \A h \in Hart : Closing(h) => HALTING

IdleInv == Shape /\ SleepBit /\ NudgedOrEmpty /\ Flagged /\ OneCloser

\* A step of h leaves the other harts their place, their bit, and whatever
\* interrupt is pending for them.
OthersKept(h) ==
  \A g \in Hart \ {h} :
    /\ pc'[g] = pc[g] /\ back'[g] = back[g] /\ kick'[g] = kick[g]
    /\ g \in waiting => g \in waiting'
    /\ g \in ssoft => g \in ssoft'

\* What the step does for h itself, and for the harts it kicks.
StepSound(h) ==
  /\ Drowsy(h)' => h \in waiting'
  /\ pc'[h] = "wfi" => starved'[h] = <<>>
  /\ \A g \in Hart \ {h} :
       starved'[g] # <<>> => starved[g] # <<>> \/ (pc'[h] = "test" /\ kick'[h].to = g)
  /\ \A g \in Hart :
       pc[h] = "test" /\ kick[h].to = g /\ g \in waiting => g \in ssoft'
  /\ Closing(h)' => HALTING' /\ (Closing(h) \/ ~HALTING)
  /\ HALTING => HALTING'

\* Such a step keeps the invariant.
LEMMA SoundStep ==
  ASSUME IdleInv, NEW h \in Hart, Shape', OthersKept(h), StepSound(h)
  PROVE  IdleInv'
<1> USE DEF OthersKept, StepSound
<1>1. SleepBit'
  BY DEF IdleInv, SleepBit, Drowsy
<1>2. NudgedOrEmpty'
  <2> SUFFICES ASSUME NEW g \in Hart, pc'[g] = "wfi", starved'[g] # <<>>, g \notin ssoft'
               PROVE  \E k \in Hart : pc'[k] = "test" /\ kick'[k].to = g
    BY DEF NudgedOrEmpty
  <2>1. g # h /\ pc[g] = "wfi" /\ g \notin ssoft /\ g \in waiting
    BY DEF IdleInv, SleepBit, Drowsy
  <2>2. CASE starved[g] = <<>>
    BY <2>1, <2>2
  <2>3. CASE starved[g] # <<>>
    <3>1. PICK k \in Hart : pc[k] = "test" /\ kick[k].to = g
      BY <2>1, <2>3 DEF IdleInv, NudgedOrEmpty
    <3>2. k # h
      BY <2>1, <3>1
    <3> QED
      BY <3>1, <3>2
  <2> QED
    BY <2>2, <2>3
<1>3. Flagged' /\ OneCloser'
  BY DEF IdleInv, Flagged, OneCloser, Closing
<1> QED
  BY <1>1, <1>2, <1>3 DEF IdleInv

\* The boot state.
LEMMA InitInv == Init => IdleInv
<1> SUFFICES ASSUME Init PROVE IdleInv
  OBVIOUS
<1>1. Shape
  BY Zenon DEF Init, Shape, Kick, NoKick, Label
<1>2. SleepBit /\ NudgedOrEmpty /\ Flagged /\ OneCloser
  BY DEF Init, Drowsy, Kicking, SleepBit, NudgedOrEmpty, Flagged, Closing, OneCloser
<1> QED
  BY <1>1, <1>2 DEF IdleInv

\* The steps of a task, of run and of a trap.
LEMMA UserStep ==
  ASSUME IdleInv, NEW h \in Hart,
         \/ Block(h) \/ Quit(h) \/ Starve(h) \/ Interrupt(h) \/ Dig(h) \/ Bury(h)
         \/ Advance(h)
         \/ \E t \in Task : Spawn(h, t)
         \/ \E S \in SUBSET blocked : Wake(h, S)
  PROVE  IdleInv'
<1> USE DEF Shape, Goto, Kicking, taskVars, kickVars, tallyVars, haltVars, Label
<1>0. Shape
  BY DEF IdleInv
<1>1. CASE \/ Block(h) \/ Quit(h) \/ Starve(h) \/ Interrupt(h) \/ Dig(h) \/ Bury(h)
           \/ Advance(h)
  <2>1. /\ pc[h] \in {"user", "run", "dig", "next"}
        /\ \E l \in {"user", "run", "dig", "next", "fetch"} : pc' = [pc EXCEPT ![h] = l]
    <3>1. CASE Starve(h)
      BY <1>0, <3>1 DEF Starve
    <3>2. CASE Block(h) \/ Quit(h) \/ Interrupt(h) \/ Dig(h) \/ Bury(h) \/ Advance(h)
      BY <3>2, Zenon DEF Block, Quit, Interrupt, Trap, Dig, Bury, Advance
    <3> QED
      BY <1>1, <3>1, <3>2
  <2>2. /\ ssoft' = ssoft \/ ssoft' = ssoft \ {h}
        /\ UNCHANGED <<waiting, back, kick, HALTING>>
    <3>1. CASE Block(h) \/ Quit(h) \/ Starve(h)
      BY <3>1, Zenon DEF Block, Quit, Starve
    <3>2. CASE Interrupt(h)
      BY <3>2, Zenon DEF Interrupt, Trap
    <3>3. CASE Dig(h) \/ Bury(h)
      BY <3>3, Zenon DEF Dig, Bury
    <3>4. CASE Advance(h)
      BY <3>4, Zenon DEF Advance
    <3> QED
      BY <1>1, <3>1, <3>2, <3>3, <3>4, Zenon
  <2>3. \E s : starved' = [starved EXCEPT ![h] = s]
    <3>1. ASSUME UNCHANGED starved PROVE starved' = [starved EXCEPT ![h] = starved[h]]
      BY <1>0, <3>1
    <3>2. CASE Block(h) \/ Quit(h)
      BY <3>2, Zenon DEF Block, Quit, Swap
    <3>3. CASE Starve(h)
      BY <3>3, Zenon DEF Starve, Rotate
    <3>4. CASE Interrupt(h) \/ Dig(h) \/ Bury(h)
      BY <3>1, <3>4, Zenon DEF Interrupt, Trap, Dig, Bury
    <3>5. CASE Advance(h)
      BY <3>1, <3>5, Zenon DEF Advance, Rotate
    <3> QED
      BY <1>1, <3>2, <3>3, <3>4, <3>5, Zenon
  <2>4. Shape'
    BY <1>0, <2>1, <2>2, <2>3
  <2>5. OthersKept(h) /\ StepSound(h)
    BY <1>0, <2>1, <2>2, <2>3 DEF OthersKept, StepSound, Drowsy, Closing
  <2> QED
    BY <2>4, <2>5, SoundStep
<1>2. ASSUME NEW t \in Task, Spawn(h, t) PROVE IdleInv'
  BY <1>2 DEF Spawn, IdleInv, SleepBit, Drowsy, NudgedOrEmpty, Flagged, Closing, OneCloser
<1>3. ASSUME NEW S \in SUBSET blocked, Wake(h, S) PROVE IdleInv'
  <2>1. Shape' /\ OthersKept(h) /\ StepSound(h)
    BY <1>0, <1>3 DEF Wake, StartRise, OthersKept, StepSound, Drowsy, Closing
  <2> QED
    BY <2>1, SoundStep
<1> QED
  BY <1>1, <1>2, <1>3, Zenon

\* The steps of a kick.
LEMMA KickStep ==
  ASSUME IdleInv, NEW h \in Hart,
         \/ Push(h) \/ Test(h) \/ Other(h) \/ Find(h)
         \/ \E t \in Task, q \in Hart : Pick(h, t, q)
  PROVE  IdleInv'
<1> USE DEF Shape, Goto, Kicking, taskVars, kickVars, tallyVars, haltVars, Label
<1>0. Shape /\ (pc[h] \in Kicking /\ back[h] # "user" => h \in waiting)
  BY DEF IdleInv, SleepBit, Drowsy
<1>1. EndKick(h) => /\ pc' \in [Hart -> Label] /\ back' \in [Hart -> {"user", "break", "armed"}]
                    /\ kick' \in [Hart -> Kick]
                    /\ \A g \in Hart \ {h} : /\ pc'[g] = pc[g] /\ back'[g] = back[g]
                                             /\ kick'[g] = kick[g]
                    /\ \/ pc'[h] = back[h] /\ back'[h] = "user"
                       \/ pc'[h] = "pick" /\ back'[h] = back[h]
  BY <1>0 DEF EndKick, NoKick, Kick
<1>2. CASE Push(h)
  <2>0. kick' \in [Hart -> Kick]
    <3>1. (starved[kick[h].to] = <<>>) \in BOOLEAN
      OBVIOUS
    <3>2. PICK b \in BOOLEAN : kick' = [kick EXCEPT ![h].notify = b]
      BY <1>2, <3>1, Zenon DEF Push
    <3> QED
      BY <1>0, <3>2 DEF Kick
  <2>1. Shape'
    BY <1>0, <1>2, <2>0, Zenon DEF Push
  <2>2. OthersKept(h)
    BY <1>0, <1>2, SMTT(30) DEF Push, OthersKept
  <2>3. StepSound(h)
    BY <1>0, <1>2 DEF Push, StepSound, Drowsy, Closing, Kick
  <2> QED
    BY <2>1, <2>2, <2>3, SoundStep
<1>3. CASE Test(h)
  <2>1. Shape' /\ OthersKept(h)
    BY <1>0, <1>1, <1>3 DEF Test, OthersKept
  <2>2. StepSound(h)
    BY <1>0, <1>1, <1>3 DEF Test, StepSound, Drowsy, Closing
  <2> QED
    BY <2>1, <2>2, SoundStep
<1>4. CASE Other(h) \/ Find(h)
  <2>1. Shape' /\ OthersKept(h)
    BY <1>0, <1>1, <1>4 DEF Other, Find, OthersKept
  <2>2. StepSound(h)
    BY <1>0, <1>1, <1>4 DEF Other, Find, StepSound, Drowsy, Closing
  <2> QED
    BY <2>1, <2>2, SoundStep
<1>5. ASSUME NEW t \in Task, NEW q \in Hart, Pick(h, t, q) PROVE IdleInv'
  <2>1. Shape' /\ OthersKept(h) /\ StepSound(h)
    BY <1>0, <1>5 DEF Pick, OthersKept, StepSound, Drowsy, Closing, Kick
  <2> QED
    BY <2>1, SoundStep
<1> QED
  BY <1>2, <1>3, <1>4, <1>5, Zenon

\* dispatch, wherever the loop calls it.
LEMMA DispatchStep ==
  ASSUME IdleInv, NEW h \in Hart, Fetch(h) \/ Look(h) \/ Armed(h) \/ Seek(h)
  PROVE  IdleInv'
<1> USE DEF Shape, Goto, Kicking, taskVars, kickVars, tallyVars, haltVars, Label
<1>0. Shape /\ (pc[h] \in {"look", "armed", "seek"} => h \in waiting)
  BY DEF IdleInv, SleepBit, Drowsy
<1>1. PICK yes, no \in Label :
        /\ Dispatch(h, yes, no)
        /\ \/ pc[h] = "fetch" /\ yes = "user" /\ no = "check"
           \/ pc[h] = "look" /\ yes = "up" /\ no = "check2"
           \/ pc[h] = "armed" /\ yes = "up" /\ no = "wfi"
           \/ pc[h] = "seek" /\ yes = "up" /\ no = "clear"
  BY DEF Fetch, Look, Armed, Seek
<1>2. /\ UNCHANGED <<waiting, ssoft, back, kick, HALTING>>
      /\ \/ /\ pc' = [pc EXCEPT ![h] = yes]
            /\ \E q \in Hart : /\ starved[q] # <<>>
                              /\ starved' = [starved EXCEPT ![q] = Tail(@)]
         \/ /\ pc' = [pc EXCEPT ![h] = no]
            /\ starved[h] = <<>> /\ starved' = starved
  BY <1>1, Zenon DEF Dispatch
<1>3. Shape' /\ OthersKept(h)
  BY <1>0, <1>1, <1>2 DEF OthersKept
<1>4. StepSound(h)
  BY <1>0, <1>1, <1>2 DEF StepSound, Drowsy, Closing
<1> QED
  BY <1>3, <1>4, SoundStep

\* The other steps of the idle loop.
LEMMA LoopStep ==
  ASSUME IdleInv, NEW h \in Hart,
         \/ Load(h) \/ Check(h) \/ Sleep(h) \/ Up(h) \/ Loop(h) \/ Wfi(h) \/ WfiStray(h)
         \/ Break(h) \/ Clear(h)
         \/ \E S \in SUBSET blocked : Redeem(h, S) \/ Ring(h, S)
  PROVE  IdleInv'
<1> USE DEF Shape, Goto, Kicking, taskVars, kickVars, tallyVars, haltVars, Label
<1>0. Shape /\ (Drowsy(h) => h \in waiting)
  BY DEF IdleInv, SleepBit
<1>1. CASE Load(h) \/ Check(h)
  <2>1. PICK l \in {"count", "count2", "count3", "halt", "sleep", "loop"} :
               /\ pc' = [pc EXCEPT ![h] = l]
               /\ l \in {"count2", "count3", "loop"} => Drowsy(h)
    BY <1>0, <1>1 DEF Load, Check, Drowsy
  <2>2. UNCHANGED <<starved, waiting, ssoft, back, kick, HALTING>>
    BY <1>1, Zenon DEF Load, Check
  <2>3. pc[h] \notin Kicking /\ ~Closing(h)
    BY <1>1 DEF Load, Check, Closing
  <2>4. Shape'
    BY <1>0, <2>1, <2>2
  <2>5. OthersKept(h)
    BY <1>0, <2>1, <2>2 DEF OthersKept
  <2>6. Drowsy(h)' => h \in waiting'
    BY <1>0, <2>1, <2>2, <2>3 DEF Drowsy
  <2>7. pc[h] # "test" /\ pc'[h] # "wfi" /\ ~Closing(h)'
    BY <1>0, <2>1, <2>3 DEF Closing
  <2>8. StepSound(h)
    BY <2>2, <2>6, <2>7, Zenon DEF StepSound
  <2> QED
    BY <2>4, <2>5, <2>8, SoundStep
<1>2. CASE \/ Sleep(h) \/ Up(h) \/ Loop(h) \/ Wfi(h) \/ WfiStray(h) \/ Break(h) \/ Clear(h)
  <2>1. CASE Sleep(h) \/ Up(h) \/ Wfi(h) \/ WfiStray(h)
    <3>1. Shape' /\ OthersKept(h)
      BY <1>0, <2>1 DEF Sleep, Up, Wfi, WfiStray, OthersKept
    <3>2. StepSound(h)
      BY <1>0, <2>1 DEF Sleep, Up, Wfi, WfiStray, StepSound, Drowsy, Closing
    <3> QED
      BY <3>1, <3>2, SoundStep, Zenon
  <2>2. CASE Loop(h) \/ Break(h) \/ Clear(h)
    <3>1. Shape' /\ OthersKept(h)
      BY <1>0, <2>2 DEF Loop, Break, Clear, OthersKept
    <3>2. StepSound(h)
      BY <1>0, <2>2 DEF Loop, Break, Clear, StepSound, Drowsy, Closing
    <3> QED
      BY <3>1, <3>2, SoundStep, Zenon
  <2> QED
    BY <1>2, <2>1, <2>2, Zenon
<1>3. ASSUME NEW S \in SUBSET blocked, Redeem(h, S) \/ Ring(h, S) PROVE IdleInv'
  <2>1. Shape' /\ OthersKept(h)
    BY <1>0, <1>3 DEF Redeem, Ring, StartRise, OthersKept
  <2>2. StepSound(h)
    BY <1>0, <1>3 DEF Redeem, Ring, StartRise, StepSound, Drowsy, Closing
  <2> QED
    BY <2>1, <2>2, SoundStep
<1> QED
  BY <1>1, <1>2, <1>3, Zenon

\* The steps of halt.
LEMMA HaltStep ==
  ASSUME IdleInv, NEW h \in Hart, Arrive(h) \/ Elect(h) \/ Yell(h) \/ Barrier(h)
  PROVE  IdleInv'
<1> USE DEF Shape, Goto, Kicking, taskVars, kickVars, tallyVars, haltVars, Label
<1>0. Shape /\ (Closing(h) => HALTING)
  BY DEF IdleInv, Flagged
<1>1. Shape' /\ OthersKept(h)
  <2>1. CASE Arrive(h)
    BY <1>0, <2>1 DEF Arrive, OthersKept
  <2>2. CASE Elect(h)
    BY <1>0, <2>2 DEF Elect, OthersKept
  <2>3. CASE Yell(h)
    BY <1>0, <2>3 DEF Yell, OthersKept
  <2>4. CASE Barrier(h)
    BY <1>0, <2>4 DEF Barrier, OthersKept
  <2> QED
    BY <2>1, <2>2, <2>3, <2>4
<1>2. StepSound(h)
  BY <1>0 DEF Arrive, Elect, Yell, Barrier, StepSound, Drowsy, Closing
<1> QED
  BY <1>1, <1>2, SoundStep

\* Every step keeps the invariant.
LEMMA NextInv == IdleInv /\ [Next]_vars => IdleInv'
<1> SUFFICES ASSUME IdleInv, [Next]_vars PROVE IdleInv'
  OBVIOUS
<1>1. CASE UNCHANGED vars
  BY <1>1, Zenon DEF vars, taskVars, kickVars, haltVars, IdleInv, Shape, SleepBit, Drowsy,
     NudgedOrEmpty, Flagged, Closing, OneCloser
<1>2. CASE Next
  BY <1>2, UserStep, KickStep, DispatchStep, LoopStep, HaltStep, Zenon
  DEF Next, Free, Locked, Loose
<1> QED
  BY <1>1, <1>2

\* However many harts and tasks there are, a hart in wfi with work in its own
\* queue has been or is about to be interrupted (kick against fetch::wait),
\* and only one hart runs the closing hooks (HALTING.swap in halt).
THEOREM NoLostWake == Spec => [](NudgedOrEmpty /\ OneCloser)
<1>1. Init => IdleInv
  BY InitInv
<1>2. IdleInv /\ [Next]_vars => IdleInv'
  BY NextInv
<1>3. IdleInv => NudgedOrEmpty /\ OneCloser
  BY DEF IdleInv
<1> QED
  BY <1>1, <1>2, <1>3, PTL DEF Spec

=============================================================================
