----------------------------- MODULE MCServices ----------------------------
(****************************************************************************)
(* Small instances of the programs outside the kernel: drivers, Hub, and    *)
(* the system's own services, each with the processes it talks to.  As in   *)
(* MCObjects a behaviour picks one part, one pool of variables serves them  *)
(* all, and what a part does not use stays 0.  A component stands here more *)
(* than once where its cases would multiply in one instance.                *)
(****************************************************************************)
EXTENDS Integers, FiniteSets, Sequences, TLC

VARIABLES part, x1, x2, x3, x4, x5, x6, x7, x8, x9, x10, x11, x12, x13, x14, x15, x16, x17, x18,
          x19, x20, x21, x22, x23, x24, x25, x26, x27, x28, x29, x30, x31, x32

\* every operation an authority may be granted
All == {"part", "bind", "unbind", "unpart", "replace", "grant", "revoke", "cancel"}
Definitions ==
    <<[kind |-> "image", items |-> 0], [kind |-> "inventory", items |-> 2],
      [kind |-> "retention", items |-> 1], [kind |-> "platform", items |-> 1]>>

IommuTwo == INSTANCE Iommu WITH
    Domains <- {"d1", "d2"}, MaxSerial <- 1, QueueMax <- 3, binding <- x1, retired <- x2,
    mode <- x3, csr <- x4, commands <- x5, ddtp <- x6, dc <- x7, leaf <- x8, ctx <- x9,
    iotlb <- x10, record <- x11

IommuOne == INSTANCE Iommu WITH
    Domains <- {"d1"}, MaxSerial <- 2, QueueMax <- 3, binding <- x1, retired <- x2,
    mode <- x3, csr <- x4, commands <- x5, ddtp <- x6, dc <- x7, leaf <- x8, ctx <- x9,
    iotlb <- x10, record <- x11

Device == INSTANCE Binding WITH
    Serials <- {1, 2}, Waiting <- 2, dom <- x1, spent <- x2, reach <- x3, hub <- x4,
    running <- x5, op <- x6, await <- x7, queue <- x8, fn <- x9, bus <- x10, exe <- x11,
    dev <- x12

HubRun == INSTANCE Hub WITH
    Tasks <- {"t1", "t2"}, Started <- {"t1", "t2"}, Serials <- {1, 2}, ReturnCap <- 1,
    History <- 1, Losses <- 1, adm <- x1, past <- x2, bnd <- x3, settling <- x4,
    launch <- x5, ret <- x6, rpc <- x7, frames <- x8, wire <- x9, ctl <- x10, quit <- x11,
    crd <- x12, lost <- x13

HubLaunch == INSTANCE Hub WITH
    Tasks <- {"t1"}, Started <- {}, Serials <- {1, 2}, ReturnCap <- 1, History <- 1,
    Losses <- 2, adm <- x1, past <- x2, bnd <- x3, settling <- x4, launch <- x5, ret <- x6,
    rpc <- x7, frames <- x8, wire <- x9, ctl <- x10, quit <- x11, crd <- x12, lost <- x13

Enrolling == INSTANCE Enroll WITH
    Devs <- 1..3, Class <- <<"a", "b", "a">>, Owners <- {"o1", "o2"}, Faults <- 2,
    cells <- x1, leagues <- x2, closing <- x3, made <- x4, members <- x5, tree <- x6,
    live <- x7, page <- x8, held <- x9, peered <- x10, faults <- x11

Creating == INSTANCE Creates WITH
    Scopes <- {"s1"}, MaxId <- 2, Inputs <- {1}, Prints <- {1}, Window <- 1, RecordCap <- 2,
    WorkCap <- 1, MaxJob <- 2, Pipelined <- FALSE, creates <- x1, marks <- x2, closed <- x3,
    work <- x4, launches <- x5, next <- x6, stage <- x7, gate <- x8, told <- x9,
    built <- x10, voided <- x11

Instances == INSTANCE Instance WITH
    Insts <- {"i1", "i2"}, Cap <- 1, inst <- x1, phase <- x2, cmd <- x3, frame <- x4,
    team <- x5, owner <- x6, late <- x7, fault <- x8

Entries == INSTANCE Grants WITH
    Names <- {"a"}, Resources <- {1}, OpSets <- {All}, MaxKey <- 1, MaxSlot <- 2,
    MaxId <- 1, MaxOp <- 2, MaxPie <- 1, Failures <- 1, slots <- x1, records <- x2,
    high <- x3, opHigh <- x4, pies <- x5, pending <- x6, plan <- x7, count <- x8,
    used <- x9, applied <- x10

Granting == INSTANCE Grants WITH
    Names <- {"a"}, Resources <- {1}, OpSets <- {All, {"bind"}}, MaxKey <- 2, MaxSlot <- 1,
    MaxId <- 2, MaxOp <- 1, MaxPie <- 0, Failures <- 1, slots <- x1, records <- x2,
    high <- x3, opHigh <- x4, pies <- x5, pending <- x6, plan <- x7, count <- x8,
    used <- x9, applied <- x10

Patient == INSTANCE Rack WITH
    Cap <- 2, Mode <- "oldest", Careful <- TRUE, MaxSeq <- 4, Reopens <- 1, write <- x1,
    read <- x2, lost <- x3, dropped <- x4, slots <- x5, bell <- x6, space <- x7, wpc <- x8,
    frame <- x9, rpc <- x10, nextSeq <- x11, skipped <- x12, copy <- x13, got <- x14,
    reopened <- x15

Hasty == INSTANCE Rack WITH
    Cap <- 2, Mode <- "newest", Careful <- FALSE, MaxSeq <- 4, Reopens <- 1, write <- x1,
    read <- x2, lost <- x3, dropped <- x4, slots <- x5, bell <- x6, space <- x7, wpc <- x8,
    frame <- x9, rpc <- x10, nextSeq <- x11, skipped <- x12, copy <- x13, got <- x14,
    reopened <- x15

Routing == INSTANCE Lines WITH
    Clients <- {"a", "b", "c"}, Line <- ("a" :> 1) @@ ("b" :> 1) @@ ("c" :> 2), Raises <- 2,
    level <- x1, prio <- x2, wired <- x3, claimed <- x4, irq <- x5, gate <- x6, cells <- x7,
    busy <- x8, door <- x9, pc <- x10, cur <- x11, life <- x12, rung <- x13, back <- x14,
    work <- x15, count <- x16

Typing == INSTANCE Console WITH
    Scripts <- {<<"d", "d", "n">>, <<"d", "i", "n">>, <<"d", "e", "f">>}, RingCap <- 1,
    InCap <- 1, DrainMax <- 2, ChunkMax <- 2, TxMax <- 1, LineMax <- 2, Outputs <- 0,
    script <- x1, typed <- x2, fifo <- x3, lane <- x4, muted <- x5, upc <- x6, batch <- x7,
    rx <- x8, bell <- x9, space <- x10, tx <- x11, tbell <- x12, tspace <- x13, tpc <- x14,
    active <- x15, incoming <- x16, fed <- x17, line <- x18, pending <- x19, event <- x20,
    frame <- x21, waiting <- x22, input <- x23, control <- x24, output <- x25, apc <- x26,
    got <- x27, wrote <- x28, printed <- x29, made <- x30, last <- x31, base <- x32

Printing == INSTANCE Console WITH
    Scripts <- {<<"i", "n">>}, RingCap <- 1, InCap <- 1, DrainMax <- 2, ChunkMax <- 2,
    TxMax <- 1, LineMax <- 2, Outputs <- 1, script <- x1, typed <- x2, fifo <- x3,
    lane <- x4, muted <- x5, upc <- x6, batch <- x7, rx <- x8, bell <- x9, space <- x10,
    tx <- x11, tbell <- x12, tspace <- x13, tpc <- x14, active <- x15, incoming <- x16,
    fed <- x17, line <- x18, pending <- x19, event <- x20, frame <- x21, waiting <- x22,
    input <- x23, control <- x24, output <- x25, apc <- x26, got <- x27, wrote <- x28,
    printed <- x29, made <- x30, last <- x31, base <- x32

Coding == INSTANCE Frames WITH
    family <- x1, value <- x2, frame <- x3, stage <- x4, got <- x5

Supplying == INSTANCE Leases WITH
    Tasks <- {"t", "u"}, Bindings <- {"x", "y"}, Absent <- {"y"}, Remotes <- {}, MaxId <- 2,
    Width <- 2, RecordCap <- 2, CallerCap <- 1, Failures <- 2, book <- x1, leases <- x2,
    next <- x3, dead <- x4, stopped <- x5, faults <- x6

Remoting == INSTANCE Leases WITH
    Tasks <- {"t"}, Bindings <- {"x"}, Absent <- {}, Remotes <- {"r"}, MaxId <- 2,
    Width <- 2, RecordCap <- 2, CallerCap <- 2, Failures <- 2, book <- x1, leases <- x2,
    next <- x3, dead <- x4, stopped <- x5, faults <- x6

Founding == INSTANCE Sources WITH
    Plan <- Definitions, Failures <- 2, Starved <- FALSE, at <- x1, step <- x2,
    authority <- x3, roots <- x4, pole <- x5, held <- x6, lost <- x7, faults <- x8

Sitting == INSTANCE Guests WITH
    Sessions <- {"s1", "s2"}, Caller <- [s \in {"s1", "s2"} |-> "c"], Muddled <- {"s2"},
    TipCap <- 1, MaxAsk <- 1, Failures <- 1, user <- x1, inbox <- x2, named <- x3,
    ticket <- x4, delivered <- x5, tips <- x6, question <- x7, desk <- x8, attached <- x9,
    unread <- x10, frame <- x11, asked <- x12, heard <- x13, faults <- x14

Watching == INSTANCE Watches WITH
    Watchers <- {"w1", "w2", "w3"}, Who <- ("w1" :> "c") @@ ("w2" :> "c") @@ ("w3" :> "d"),
    Filter <- ("w1" :> (<<"a">>)) @@ ("w2" :> (<<"a">>)) @@ ("w3" :> (<<>>)),
    Roads <- {<<"a", "b">>, <<"c">>}, MaxSeq <- 2, QueueCap <- 1, watch <- x1, said <- x2,
    list <- x3, queue <- x4, changes <- x5, seq <- x6, taken <- x7, since <- x8,
    skipped <- x9

Grouped == INSTANCE Lifecycle WITH
    UnitList <- <<"a", "b">>, After <- ("a" :> {}) @@ ("b" :> {"a"}), Guarded <- {},
    Supervisor <- "b", Group <- {"a"}, Gated <- {},
    Ending <- ("a" :> "resident") @@ ("b" :> "told"), Kinds <- {"ruin", "recover"},
    MaxAsk <- 2, Failures <- 0, row <- x1, job <- x2, order <- x3, ended <- x4,
    pending <- x5, holds <- x6, alive <- x7, phase <- x8, active <- x9, budget <- x10,
    startup <- x11, settle <- x12, drained <- x13, answers <- x14, halted <- x15,
    asked <- x16, faults <- x17, born <- x18, down <- x19

UnderGuard == INSTANCE Lifecycle WITH
    UnitList <- <<"a", "b">>, After <- ("a" :> {}) @@ ("b" :> {"a"}), Guarded <- {"a"},
    Supervisor <- "none", Group <- {}, Gated <- {"b"},
    Ending <- ("a" :> "resident") @@ ("b" :> "transient"),
    Kinds <- {"ruin", "debark", "embark"}, MaxAsk <- 1, Failures <- 1, row <- x1, job <- x2,
    order <- x3, ended <- x4, pending <- x5, holds <- x6, alive <- x7, phase <- x8,
    active <- x9, budget <- x10, startup <- x11, settle <- x12, drained <- x13,
    answers <- x14, halted <- x15, asked <- x16, faults <- x17, born <- x18, down <- x19

ASSUME Patient!Assumptions /\ Hasty!Assumptions /\ Routing!Assumptions /\ Typing!Assumptions
ASSUME Printing!Assumptions /\ Supplying!Assumptions /\ Remoting!Assumptions /\ Founding!Assumptions
ASSUME Sitting!Assumptions /\ Watching!Assumptions /\ Grouped!Assumptions /\ UnderGuard!Assumptions

vars == <<part, x1, x2, x3, x4, x5, x6, x7, x8, x9, x10, x11, x12, x13, x14, x15, x16, x17, x18,
            x19, x20, x21, x22, x23, x24, x25, x26, x27, x28, x29, x30, x31, x32>>

\* RestK holds what a part of K variables leaves alone, ZeroK says it is unused.
Rest32 == <<part>>
Rest19 == <<x20, x21, x22, x23, x24, x25, x26, x27, x28, x29, x30, x31, x32, Rest32>>
Rest16 == <<x17, x18, x19, Rest19>>
Rest15 == <<x16, Rest16>>
Rest14 == <<x15, Rest15>>
Rest13 == <<x14, Rest14>>
Rest12 == <<x13, Rest13>>
Rest11 == <<x12, Rest12>>
Rest10 == <<x11, Rest11>>
Rest9 == <<x10, Rest10>>
Rest8 == <<x9, Rest9>>
Rest6 == <<x7, x8, Rest8>>
Rest5 == <<x6, Rest6>>

Zero19 ==
    /\ x20 = 0 /\ x21 = 0 /\ x22 = 0 /\ x23 = 0 /\ x24 = 0 /\ x25 = 0 /\ x26 = 0 /\ x27 = 0 /\ x28 = 0
    /\ x29 = 0 /\ x30 = 0 /\ x31 = 0 /\ x32 = 0
Zero16 == x17 = 0 /\ x18 = 0 /\ x19 = 0 /\ Zero19
Zero15 == x16 = 0 /\ Zero16
Zero14 == x15 = 0 /\ Zero15
Zero13 == x14 = 0 /\ Zero14
Zero12 == x13 = 0 /\ Zero13
Zero11 == x12 = 0 /\ Zero12
Zero10 == x11 = 0 /\ Zero11
Zero9 == x10 = 0 /\ Zero10
Zero8 == x9 = 0 /\ Zero9
Zero6 == x7 = 0 /\ x8 = 0 /\ Zero8
Zero5 == x6 = 0 /\ Zero6

Init ==
    \/ Zero5 /\ part = "frames" /\ Coding!framesInit
    \/ /\ Zero6
       /\ \/ part = "supply" /\ Supplying!leasesInit
          \/ part = "remote" /\ Remoting!leasesInit
    \/ /\ Zero8
       /\ \/ part = "instance" /\ Instances!Init
          \/ part = "sources" /\ Founding!sourcesInit
    \/ Zero9 /\ part = "watches" /\ Watching!watchesInit
    \/ /\ Zero10
       /\ \/ part = "tree" /\ Entries!Init
          \/ part = "grants" /\ Granting!Init
    \/ /\ Zero11
       /\ \/ part = "iommu" /\ IommuTwo!Init
          \/ part = "iommu_again" /\ IommuOne!Init
          \/ part = "enroll" /\ Enrolling!Init
          \/ part = "creates" /\ Creating!Init
    \/ Zero12 /\ part = "binding" /\ Device!Init
    \/ /\ Zero13
       /\ \/ part = "hub" /\ HubRun!Init
          \/ part = "hub_launch" /\ HubLaunch!Init
    \/ Zero14 /\ part = "guests" /\ Sitting!guestsInit
    \/ /\ Zero15
       /\ \/ part = "careful" /\ Patient!Init
          \/ part = "newest" /\ Hasty!Init
    \/ Zero16 /\ part = "lines" /\ Routing!Init
    \/ /\ Zero19
       /\ \/ part = "units" /\ Grouped!lifecycleInit
          \/ part = "guarded" /\ UnderGuard!lifecycleInit
    \/ part = "typing" /\ Typing!Init
    \/ part = "printing" /\ Printing!Init

Next ==
    \/ part = "iommu" /\ IommuTwo!Next /\ UNCHANGED Rest11
    \/ part = "iommu_again" /\ IommuOne!Next /\ UNCHANGED Rest11
    \/ part = "binding" /\ Device!Next /\ UNCHANGED Rest12
    \/ part = "hub" /\ HubRun!Next /\ UNCHANGED Rest13
    \/ part = "hub_launch" /\ HubLaunch!Next /\ UNCHANGED Rest13
    \/ part = "enroll" /\ Enrolling!Next /\ UNCHANGED Rest11
    \/ part = "creates" /\ Creating!Next /\ UNCHANGED Rest11
    \/ part = "instance" /\ Instances!Next /\ UNCHANGED Rest8
    \/ part = "tree" /\ Entries!Next /\ UNCHANGED Rest10
    \/ part = "grants" /\ Granting!Next /\ UNCHANGED Rest10
    \/ part = "careful" /\ Patient!Next /\ UNCHANGED Rest15
    \/ part = "newest" /\ Hasty!Next /\ UNCHANGED Rest15
    \/ part = "lines" /\ Routing!Next /\ UNCHANGED Rest16
    \/ part = "typing" /\ Typing!Next /\ UNCHANGED Rest32
    \/ part = "printing" /\ Printing!Next /\ UNCHANGED Rest32
    \/ part = "frames" /\ Coding!framesNext /\ UNCHANGED Rest5
    \/ part = "supply" /\ Supplying!leasesNext /\ UNCHANGED Rest6
    \/ part = "remote" /\ Remoting!leasesNext /\ UNCHANGED Rest6
    \/ part = "sources" /\ Founding!sourcesNext /\ UNCHANGED Rest8
    \/ part = "guests" /\ Sitting!guestsNext /\ UNCHANGED Rest14
    \/ part = "watches" /\ Watching!watchesNext /\ UNCHANGED Rest9
    \/ part = "units" /\ Grouped!lifecycleNext /\ UNCHANGED Rest19
    \/ part = "guarded" /\ UnderGuard!lifecycleNext /\ UNCHANGED Rest19

Spec == Init /\ [][Next]_vars

----------------------------------------------------------------------------
(* Properties.  Each is stated in its component's module. *)

Is(p) == part = p

\* A device stays inside what its owner holds: it reaches only memory the
\* domain still has, whatever the order of answers from the IOMMU's queues; its
\* binding is closed only when the device is quiet and its memory given back;
\* and every variable of the parts keeps its type.
Confined ==
    /\ Is("iommu") => IommuTwo!TypeOK /\ IommuTwo!ReachHeld /\ IommuTwo!EngineKept
    /\ Is("iommu_again") => IommuOne!TypeOK /\ IommuOne!ReachHeld /\ IommuOne!EngineKept
    /\ Is("hub") => HubRun!TypeOK
    /\ Is("hub_launch") => HubLaunch!TypeOK
    /\ Is("creates") => Creating!TypeOK
    /\ Is("instance") => Instances!TypeOK
    /\ Is("tree") => Entries!TypeOK
    /\ Is("grants") => Granting!TypeOK
    /\ Is("careful") => Patient!TypeOK
    /\ Is("newest") => Hasty!TypeOK
    /\ Is("lines") => Routing!TypeOK
    /\ Is("typing") => Typing!TypeOK
    /\ Is("printing") => Printing!TypeOK
    /\ Is("supply") => Supplying!TypeOK
    /\ Is("remote") => Remoting!TypeOK
    /\ Is("sources") => Founding!TypeOK
    /\ Is("guests") => Sitting!TypeOK
    /\ Is("watches") => Watching!TypeOK
    /\ Is("units") => Grouped!TypeOK
    /\ Is("guarded") => UnderGuard!TypeOK
    /\ Is("binding") => Device!DeviceConfined /\ Device!ClosedIsClean

\* What has one owner never has two, and no owner is forgotten: a device and
\* its window in Hub, a device of the enrolment, an interrupt line, a root of a
\* lease, a session of the tree's operator, a subscription; and a grant never
\* exceeds the one it came from.
OneOwner ==
    /\ Is("hub") => HubRun!OneOwner /\ HubRun!ProofFirst
    /\ Is("hub_launch") => HubLaunch!OneOwner /\ HubLaunch!ProofFirst
    /\ Is("enroll") => Enrolling!Published /\ Enrolling!OneHolder
    /\ Is("lines") => Routing!Unowned
    /\ Is("supply") => Supplying!RootsOwned /\ Supplying!LeaseOwned
    /\ Is("remote") => Remoting!RootsOwned /\ Remoting!LeaseOwned
    /\ Is("guests") => Sitting!OneSession
    /\ Is("watches") => Watching!OneWatch
    /\ Is("tree") => Entries!ClosedIsClean /\ Entries!Narrowed /\ Entries!Rooted
    /\ Is("grants") => Granting!ClosedIsClean /\ Granting!Narrowed /\ Granting!Rooted

\* What ends leaves nothing behind and owes nothing: a dead driver's records, a
\* failed or stopped start of the system, a guest that went away, a unit that
\* died or was stopped, an instance that retires, an import that was not bound.
GivenBack ==
    /\ Is("hub") => HubRun!DeadIsClean /\ HubRun!SettledOwesNothing
    /\ Is("hub_launch") => HubLaunch!DeadIsClean /\ HubLaunch!SettledOwesNothing
    /\ Is("instance") => Instances!NoneAbandoned /\ Instances!NoFault
    /\ Is("sources") => Founding!NothingLeft /\ Founding!Founded
    /\ Is("guests") => Sitting!DeskWatched /\ Sitting!HandedOn
    /\ Is("units") => Grouped!Reclaimed /\ Grouped!Tended /\ Grouped!GuardKept /\ Grouped!StopHolds /\ Grouped!AnsweredOnce
    /\ Is("guarded") => UnderGuard!Reclaimed /\ UnderGuard!Tended /\ UnderGuard!GuardKept /\ UnderGuard!StopHolds /\ UnderGuard!AnsweredOnce
    /\ Is("tree") => Entries!ImportsOwed
    /\ Is("grants") => Granting!ImportsOwed

\* What was sent is what arrives: a frame decodes to the value it was made of
\* and nothing else decodes, a ring hands on whole messages in their order,
\* what is typed reaches the reader and what is written the device, an answer
\* belongs to its question, a watcher gets its events in turn.
Delivered ==
    /\ Is("frames") => Coding!Faithful /\ Coding!Strict
    /\ Is("careful") => Patient!Whole
    /\ Is("newest") => Hasty!Whole
    /\ Is("typing") => Typing!InOrder /\ Typing!Delivered /\ Typing!Printed /\ Typing!FrameFits
    /\ Is("printing") => Printing!InOrder /\ Printing!Delivered /\ Printing!Printed /\ Printing!FrameFits
    /\ Is("guests") => Sitting!Matched
    /\ Is("watches") => Watching!AllEvents /\ Watching!InTurn

\* Nobody sleeps on work that is there: a ring's reader and writer, the driver
\* and the terminal of the console, the router with a muted line, a subscriber
\* of the tree.
Awake ==
    /\ Is("careful") => Patient!NoLostWake
    /\ Is("typing") => Typing!LineHeld /\ Typing!DriverSleeps /\ Typing!TerminalSleeps
    /\ Is("printing") => Printing!LineHeld /\ Printing!DriverSleeps /\ Printing!TerminalSleeps
    /\ Is("lines") => Routing!MutedOwed
    /\ Is("watches") => Watching!Subscribed

\* What a step may never do: answer for a domain what the abstract Domain would
\* not, stop a device out of order, carry out a creation twice, evict an
\* instance that was not told, revive a lease or a grant that was settled.
Orderly ==
    [][/\ Is("iommu") => IommuTwo!PromiseStep
       /\ Is("iommu_again") => IommuOne!PromiseStep
       /\ Is("binding") => Device!StopOrderStep
       /\ Is("creates") => Creating!OnceStep
       /\ Is("instance") => Instances!ToldFirstStep
       /\ Is("supply") => Supplying!NoRevivalStep
       /\ Is("remote") => Remoting!NoRevivalStep
       /\ Is("tree") => Entries!NoRevivalStep
       /\ Is("grants") => Granting!NoRevivalStep]_vars

=============================================================================
