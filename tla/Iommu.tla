------------------------------- MODULE Iommu -------------------------------
(***************************************************************************)
(* The IOMMU driver (programs/src/driver/iommu): private domains that share*)
(* one engine.  The server answers one call at a time, so each call is one *)
(* step; the hardware's steps come between calls.  The owner of a domain   *)
(* may make any call in any order and repeat it.                           *)
(*                                                                         *)
(* A call that finds a fence or a handshake still open returns Pending, or *)
(* Unavailable once the deadline has passed; both leave the same state to  *)
(* the next call, so deadlines do not appear here.  The registers read back*)
(* what was written, except where a failure is named.                      *)
(***************************************************************************)
EXTENDS Integers, Sequences, FiniteSets

CONSTANTS Domains,     \* one per requester, each with its own tables and slots
          MaxSerial,   \* bound: binding serials an owner uses
          QueueMax     \* commands the queue holds (COMMAND_ENTRIES - 1)

VARIABLES binding,     \* Domain.binding with its hold scope
          retired,     \* Domain.retired: serials up to here are spent
          mode,        \* Core.mode
          csr,         \* the two queues' control registers
          commands,    \* the command queue between CQH and CQT
          ddtp,        \* the directory is in use
          dc, leaf,    \* in memory: is the device context written; whose frames the table maps
          ctx, iotlb,  \* what the hardware caches of them
          record       \* the publish and retire completion slots

iommuVars == <<binding, retired, mode, csr, commands, ddtp, dc, leaf, ctx, iotlb, record>>

Serials == 1 .. MaxSerial
Free == [s |-> 0, phase |-> "Free", hold |-> "none", reach |-> FALSE,
         scope |-> "Open", prog |-> FALSE, publish |-> 1, retire |-> 1]

Phases == {"Acquiring", "Acquired", "Publishing", "PublishFailed", "Published",
           "Invalidating", "Invalidated", "Quiescing", "Quiet", "Releasing"}

TypeOK ==
    /\ binding \in [Domains -> {Free} \cup
          [s : Serials, phase : Phases, hold : {"none", "held", "given"}, reach : BOOLEAN,
           scope : {"Open", "Closing", "Stopped"}, prog : BOOLEAN,
           publish : 1 .. 4, retire : 1 .. 4]]
    /\ retired \in [Domains -> 0 .. MaxSerial]
    /\ mode \in {"Off", "Raising", "On", "Lowering"}
    /\ csr \in {"off", "on", "bad", "busy"}
    /\ Len(commands) <= QueueMax
    /\ ddtp \in BOOLEAN
    /\ \A d \in Domains : leaf[d] \in 0 .. MaxSerial /\ iotlb[d] \subseteq Serials

Init ==
    /\ binding = [d \in Domains |-> Free]
    /\ retired = [d \in Domains |-> 0]
    /\ mode = "Off" /\ csr = "off" /\ commands = << >> /\ ddtp = FALSE
    /\ dc = [d \in Domains |-> FALSE] /\ leaf = [d \in Domains |-> 0]
    /\ ctx = [d \in Domains |-> FALSE] /\ iotlb = [d \in Domains |-> {}]
    /\ record = [d \in Domains |-> [publish |-> 0, retire |-> 0]]

SetMax(a, b) == IF a > b THEN a ELSE b
Set(d, b) == binding' = [binding EXCEPT ![d] = b]

----------------------------------------------------------------------------
(* One cache barrier: directory, translations, fence. *)

CacheSteps == <<"dir", "vma", "fence">>

\* Invalidation::step submits what fits and remembers where it stopped.
Fits(at) == IF at > 3 THEN 4 ELSE IF at + QueueMax - Len(commands) > 4 THEN 4
            ELSE at + QueueMax - Len(commands)
Submitted(d, kind, at) ==
    commands \o [i \in 1 .. Fits(at) - at |->
        [op |-> CacheSteps[at + i - 1], d |-> d, kind |-> kind, s |-> binding[d].s]]

\* fence_step clears the slot before the fence is submitted.
Cleared(d, kind, at) ==
    IF at <= 3 /\ Fits(at) = 4 THEN [record EXCEPT ![d][kind] = 0] ELSE record

Completed(d, kind, at) == at = 4 /\ record[d][kind] = binding[d].s

----------------------------------------------------------------------------
(* Acquire and publish *)

\* finish_acquire: registering the frames, and reading their addresses, may each
\* fail; a frame that is held stays held.
FinishAcquire(d, b) ==
    \/ b.hold = "none" /\ Set(d, b)
    \/ Set(d, [b EXCEPT !.hold = "held"])
    \/ Set(d, [b EXCEPT !.hold = "held", !.phase = "Acquired"])

\* Acquire(d, s) of a free domain, or the same call again while Acquiring.
Acquire(d, s) ==
    /\ \/ /\ binding[d] = Free /\ s > retired[d]
          /\ FinishAcquire(d, [Free EXCEPT !.s = s, !.phase = "Acquiring"])
       \/ binding[d].s = s /\ binding[d].phase = "Acquiring" /\ FinishAcquire(d, binding[d])
    /\ UNCHANGED <<retired, mode, csr, commands, ddtp, dc, leaf, ctx, iotlb, record>>

\* raise_engine fails with the queues partly up: the next user of the engine
\* lowers it first.
RaiseFails(d) ==
    /\ binding[d].phase = "Acquired" /\ mode = "Off"
    /\ mode' = "Raising" /\ csr' = "bad" /\ commands' = << >>
    /\ UNCHANGED <<binding, retired, ddtp, dc, leaf, ctx, iotlb, record>>

\* The first publish: mark reachable, then write the tables, the context and DDTP.
\* It may fail before it wrote anything, or after the tables at DDTP.
Program(d) ==
    /\ binding[d].phase \in {"Acquired", "Publishing"} /\ ~binding[d].prog
    /\ binding[d].hold = "held" /\ binding[d].scope = "Open" /\ ~binding[d].reach
    /\ mode \in {"Off", "On"}
    /\ mode' = "On" /\ csr' = "on"
    /\ LET b == [binding[d] EXCEPT !.reach = TRUE, !.prog = TRUE]
           failed == [b EXCEPT !.phase = "PublishFailed", !.scope = "Closing"]
           written == dc' = [dc EXCEPT ![d] = TRUE] /\ leaf' = [leaf EXCEPT ![d] = b.s]
       IN  \/ /\ written /\ ddtp' = TRUE
              /\ Set(d, [b EXCEPT !.phase = "Publishing", !.publish = Fits(1)])
              /\ commands' = Submitted(d, "publish", 1)
              /\ record' = Cleared(d, "publish", 1)
           \/ /\ Set(d, failed) /\ written /\ UNCHANGED <<ddtp, record, commands>>
           \/ /\ Set(d, failed) /\ UNCHANGED <<dc, leaf, ddtp, record, commands>>
    /\ UNCHANGED <<retired, ctx, iotlb>>

\* A later publish goes on with the barrier and looks for its completion.
PublishStep(d) ==
    /\ binding[d].phase = "Publishing" /\ binding[d].prog /\ mode = "On"
    /\ LET at == binding[d].publish
       IN  /\ Set(d, IF Completed(d, "publish", at) THEN [binding[d] EXCEPT !.phase = "Published"]
                     ELSE [binding[d] EXCEPT !.publish = Fits(at)])
           /\ commands' = Submitted(d, "publish", at)
           /\ record' = Cleared(d, "publish", at)
    /\ UNCHANGED <<retired, mode, csr, ddtp, dc, leaf, ctx, iotlb>>

----------------------------------------------------------------------------
(* Invalidate *)

\* Without a binding the serial is spent: a late Acquire of it is refused.
Tombstone(d, s) ==
    /\ binding[d] = Free /\ s > retired[d]
    /\ retired' = [retired EXCEPT ![d] = s]
    /\ UNCHANGED <<binding, mode, csr, commands, ddtp, dc, leaf, ctx, iotlb, record>>

\* What was never programmed has no translation to withdraw.
InvalidateUnpublished(d) ==
    /\ \/ binding[d].phase \in {"Acquiring", "Acquired"}
       \/ binding[d].phase = "Publishing" /\ ~binding[d].prog
    /\ Set(d, [binding[d] EXCEPT !.phase = "Invalidated"])
    /\ UNCHANGED <<retired, mode, csr, commands, ddtp, dc, leaf, ctx, iotlb, record>>

\* Otherwise clear the context, then run the retire barrier to its completion.
Invalidate(d) ==
    /\ \/ binding[d].phase \in {"PublishFailed", "Published", "Invalidating"}
       \/ binding[d].phase = "Publishing" /\ binding[d].prog
    /\ LET at == binding[d].retire
           b == [binding[d] EXCEPT !.prog = FALSE, !.retire = Fits(at)]
       IN  /\ Set(d, [b EXCEPT !.phase = IF Completed(d, "retire", at) THEN "Invalidated"
                                         ELSE "Invalidating"])
           /\ commands' = Submitted(d, "retire", at)
           /\ record' = Cleared(d, "retire", at)
    /\ dc' = [dc EXCEPT ![d] = FALSE]
    /\ UNCHANGED <<retired, mode, csr, ddtp, leaf, ctx, iotlb>>

----------------------------------------------------------------------------
(* Quiesce and release *)

\* As if only a domain whose context is written were using the queues.
ProgrammedUsers(d) == \E e \in Domains \ {d} : binding[e].prog
OtherEngineUsers(d) ==
    \E e \in Domains \ {d} : binding[e].phase \in Phases \ {"Acquiring", "Acquired"}

\* lower_engine: write both queues down once, then wait until they read quiet,
\* then switch the directory off.
LowerStart ==
    /\ mode \in {"On", "Raising"}
    /\ mode' = "Lowering" /\ csr' = "busy" /\ UNCHANGED <<ddtp, commands>>
LowerDone ==
    /\ \/ mode = "Off"
       \/ mode = "Lowering" /\ csr = "off"
    /\ mode' = "Off" /\ ddtp' = FALSE /\ UNCHANGED <<csr, commands>>

\* Quiesce: with other users the engine stays up.
Quiesce(d) ==
    /\ binding[d].phase \in {"Invalidated", "Quiescing"}
    /\ \/ /\ OtherEngineUsers(d)
          /\ Set(d, [binding[d] EXCEPT !.phase = "Quiet"])
          /\ UNCHANGED <<mode, csr, commands, ddtp>>
       \/ /\ ~OtherEngineUsers(d) /\ LowerStart
          /\ Set(d, [binding[d] EXCEPT !.phase = "Quiescing"])
       \/ /\ ~OtherEngineUsers(d) /\ LowerDone
          /\ Set(d, [binding[d] EXCEPT !.phase = "Quiet"])
    /\ UNCHANGED <<retired, dc, leaf, ctx, iotlb, record>>

\* Settled: the context reads clear and the retire fence has completed.
Settled(d) == ~dc[d] /\ record[d].retire = binding[d].s

\* release_binding: the scope closes and stops once settled, gives its reference
\* back, and the source window is revoked; either may fail and is tried again.
ReleaseBinding(d) ==
    LET b == binding[d]
        closing == [b EXCEPT !.phase = "Releasing",
                    !.scope = IF b.phase # "Releasing" /\ b.scope = "Open" THEN "Closing" ELSE b.scope]
        stopped == [closing EXCEPT !.scope = "Stopped"]
        given == [stopped EXCEPT !.hold = IF b.hold = "held" THEN "given" ELSE b.hold]
        blocked == closing.scope = "Closing" /\ b.reach /\ ~Settled(d)
    IN  \/ blocked /\ Set(d, closing) /\ UNCHANGED retired
        \/ ~blocked /\ b.hold = "held" /\ Set(d, stopped) /\ UNCHANGED retired
        \/ ~blocked /\ Set(d, given) /\ UNCHANGED retired
        \/ /\ ~blocked /\ Set(d, Free)
           /\ retired' = [retired EXCEPT ![d] = SetMax(@, b.s)]

\* Release: the last user lowers the engine before it gives the frames back.
Release(d) ==
    /\ binding[d].phase \in {"Quiescing", "Quiet", "Releasing"}
    /\ \/ /\ OtherEngineUsers(d) /\ ReleaseBinding(d)
          /\ UNCHANGED <<mode, csr, commands, ddtp>>
       \/ ~OtherEngineUsers(d) /\ LowerStart /\ UNCHANGED <<binding, retired>>
       \/ ~OtherEngineUsers(d) /\ LowerDone /\ ReleaseBinding(d)
    /\ UNCHANGED <<dc, leaf, ctx, iotlb, record>>

----------------------------------------------------------------------------
(* The hardware *)

\* The queue is served in order while it is on.
Process ==
    /\ csr = "on" /\ commands # << >>
    /\ commands' = Tail(commands)
    /\ LET c == Head(commands)
       IN  /\ ctx' = IF c.op = "dir" THEN [ctx EXCEPT ![c.d] = FALSE] ELSE ctx
           /\ iotlb' = IF c.op = "vma" THEN [iotlb EXCEPT ![c.d] = {}] ELSE iotlb
           /\ record' = IF c.op = "fence" THEN [record EXCEPT ![c.d][c.kind] = c.s] ELSE record
    /\ UNCHANGED <<binding, retired, mode, csr, ddtp, dc, leaf>>

\* A device access caches its context, and through a cached context a translation.
Fill(d) ==
    /\ ddtp
    /\ \/ dc[d] /\ ~ctx[d] /\ ctx' = [ctx EXCEPT ![d] = TRUE] /\ UNCHANGED iotlb
       \/ /\ ctx[d] /\ leaf[d] \notin iotlb[d]
          /\ iotlb' = [iotlb EXCEPT ![d] = @ \cup {leaf[d]}] /\ UNCHANGED ctx
    /\ UNCHANGED <<binding, retired, mode, csr, commands, ddtp, dc, leaf, record>>

\* A queue that was written down stops; what it still held is lost.
QueueStops ==
    /\ csr = "busy" /\ csr' = "off" /\ commands' = << >>
    /\ UNCHANGED <<binding, retired, mode, ddtp, dc, leaf, ctx, iotlb, record>>

Call(d) ==
    \/ \E s \in Serials : Acquire(d, s) \/ Tombstone(d, s)
    \/ RaiseFails(d) \/ Program(d) \/ PublishStep(d)
    \/ InvalidateUnpublished(d) \/ Invalidate(d) \/ Quiesce(d) \/ Release(d)

Next == Process \/ QueueStops \/ \E d \in Domains : Call(d) \/ Fill(d)

Spec == Init /\ [][Next]_iommuVars

----------------------------------------------------------------------------
(* Properties *)

Reach(d) == iotlb[d] \cup (IF dc[d] \/ ctx[d] THEN {leaf[d]} ELSE {})

\* The frames a device may still reach, through the table, a cached context or a
\* cached translation, are frames whose reference the driver still holds.
ReachHeld ==
    \A d \in Domains : Reach(d) \subseteq (IF binding[d].hold = "held" THEN {binding[d].s} ELSE {})

\* The engine is not lowered under a domain whose barrier is still to complete.
EngineKept ==
    /\ \A d \in Domains :
          binding[d].phase \in {"Publishing", "PublishFailed", "Published", "Invalidating"}
              => mode = "On" /\ csr = "on"
    /\ mode = "Off" => csr = "off" /\ ~ddtp

\* The mapping to the promise of one domain.
Stage(b) ==
    CASE b.phase \in {"Acquiring", "Acquired"} -> "acquired"
      [] b.phase = "Publishing" -> IF b.prog THEN "open" ELSE "acquired"
      [] b.phase \in {"PublishFailed", "Published", "Invalidating"} -> "open"
      [] b.phase \in {"Invalidated", "Quiescing"} -> "shut"
      [] b.phase \in {"Quiet", "Releasing"} -> "quiet"
      [] OTHER -> "free"
Promise(d) == INSTANCE Domain
              WITH dom <- [s |-> binding[d].s, at |-> Stage(binding[d])],
                   spent <- retired[d], reach <- Reach(d)

\* Every step of the driver and of the hardware is, for each domain, a step that
\* Domain allows or none: what Binding assumes of the IOMMU is what it does.
PromiseInit == \A d \in Domains : Promise(d)!DomInit
PromiseStep == \A d \in Domains : Promise(d)!DomAllowed

=============================================================================
