------------------------------ MODULE Binding ------------------------------
(***************************************************************************)
(* One device from claim to release: the coordinator of the virtio block   *)
(* driver (driver/virtio/blk/coord.rs) with its recovery executor, the PCI *)
(* service (driver/pci/core.rs) and one IOMMU domain as Domain promises it.*)
(*                                                                         *)
(* A peer serves its requests in order.  A request whose deadline passed is*)
(* abandoned by the coordinator and still served later; its answer is lost.*)
(* Every local effect and every call may fail and is tried again.          *)
(***************************************************************************)
EXTENDS Domain, Sequences

CONSTANT Waiting    \* bound: requests a peer has not served yet

VARIABLES hub,      \* Hub's side: the serial and what it asks for
          running,  \* the execution the device was claimed for is alive
          op,       \* Coordinator.operation
          await,    \* Operation.exchange: which peer, and its answer
          queue,    \* requests on their way to each peer
          fn,       \* PCI: FunctionState of the device
          bus,      \* its MASTER bit
          exe,      \* Executor
          dev       \* the device's own status

devVars == <<hub, running, op, await, queue, fn, bus, exe, dev>>
bindVars == <<devVars, dom, spent, reach>>

Last == CHOOSE s \in Serials : \A t \in Serials : t <= s
Idle == [s |-> 0, stage |-> "Done", closing |-> FALSE,
         bar |-> FALSE, client |-> FALSE, source |-> FALSE, handoff |-> FALSE]
Calm == [peer |-> "none", said |-> "none"]
Levels == <<"none", "addressed", "referenced", "rooted", "local", "granted">>

Init ==
    /\ DomInit
    /\ hub = [s |-> 1, at |-> "preparing"] /\ running = TRUE
    /\ op = Idle /\ await = Calm /\ queue = [p \in {"pci", "iommu"} |-> << >>]
    /\ fn = [known |-> FALSE, s |-> 0, floor |-> 0, master |-> FALSE, disabled |-> FALSE, bar |-> 1]
    /\ bus = FALSE /\ dev = "quiet"
    /\ exe = [s |-> -1, stopped |-> FALSE, pending |-> FALSE, grant |-> FALSE, floor |-> 0]

Cleanup == {"Invalidate", "Disable", "Stop", "Quiesce", "Release", "Detach",
            "CloseHandoff", "Unplace"}
State == IF op.closing \/ op.stage \in Cleanup THEN "Closing"
         ELSE IF op.stage = "Active" THEN "Active"
         ELSE IF op.stage = "Done" THEN "Closed" ELSE "Preparing"

----------------------------------------------------------------------------
(* Hub and the execution.  Hub repeats what it wants until it is done, and asks
   for a release only when Control has proved that the execution has stopped. *)

NewOperation(s) == [Idle EXCEPT !.s = s, !.stage = "Place", !.bar = op.bar]

\* Prepare: a new serial needs the last one Done; the same one again is fine.
Prepare ==
    /\ hub.at = "preparing" /\ op.s < hub.s
    /\ op.stage = "Done" /\ op' = NewOperation(hub.s)
    /\ UNCHANGED <<hub, running, await, queue, fn, bus, exe, dev, dom, spent, reach>>

\* begin_release: an open exchange is left to end first.
BeginRelease ==
    /\ hub.at = "closing" /\ ~running
    /\ IF op.s # hub.s THEN op.stage = "Done" ELSE op.stage # "Done" /\ ~op.closing
    /\ LET o == IF op.s = hub.s THEN op ELSE NewOperation(hub.s)
       IN  op' = [o EXCEPT !.closing = TRUE,
                  !.stage = IF await = Calm /\ @ \notin Cleanup THEN "Invalidate" ELSE @]
    /\ UNCHANGED <<hub, running, await, queue, fn, bus, exe, dev, dom, spent, reach>>

HubCloses ==
    /\ hub.at = "preparing" /\ hub' = [hub EXCEPT !.at = "closing"]
    /\ UNCHANGED <<running, op, await, queue, fn, bus, exe, dev, dom, spent, reach>>
HubClosed ==
    /\ hub.at = "closing" /\ op.s = hub.s /\ State = "Closed"
    /\ hub' = [hub EXCEPT !.at = "closed"]
    /\ UNCHANGED <<running, op, await, queue, fn, bus, exe, dev, dom, spent, reach>>
HubClaims ==
    /\ hub.at = "closed" /\ hub.s < Last
    /\ hub' = [s |-> hub.s + 1, at |-> "preparing"] /\ running' = TRUE
    /\ UNCHANGED <<op, await, queue, fn, bus, exe, dev, dom, spent, reach>>

\* The execution: supply its memory, drive the device once it holds the BAR, end.
Supply ==
    /\ running /\ op.s = hub.s /\ State = "Preparing" /\ op.client /\ ~op.source
    /\ op' = [op EXCEPT !.source = TRUE]
    /\ UNCHANGED <<hub, running, await, queue, fn, bus, exe, dev, dom, spent, reach>>
Drive ==
    /\ running /\ exe.s = hub.s /\ exe.grant /\ dev = "quiet" /\ dev' = "running"
    /\ UNCHANGED <<hub, running, op, await, queue, fn, bus, exe, dom, spent, reach>>
Exit ==
    /\ running /\ running' = FALSE
    /\ UNCHANGED <<hub, op, await, queue, fn, bus, exe, dev, dom, spent, reach>>

----------------------------------------------------------------------------
(* Coordinator::advance *)

\* As if the device were reset before its bus mastering is off.
StopFirst(stage) ==
    [Place |-> "Attach", Attach |-> "Acquire", Acquire |-> "Publish", Publish |-> "Enable",
     Enable |-> "Handoff", Handoff |-> "Active", Invalidate |-> "Stop", Stop |-> "Disable",
     Disable |-> "Quiesce", Quiesce |-> "Release", Release |-> "Detach",
     Detach |-> "CloseHandoff", CloseHandoff |-> "Unplace", Unplace |-> "Done"][stage]
Following(stage) ==
    [Place |-> "Attach", Attach |-> "Acquire", Acquire |-> "Publish", Publish |-> "Enable",
     Enable |-> "Handoff", Handoff |-> "Active", Invalidate |-> "Disable", Disable |-> "Stop",
     Stop |-> "Quiesce", Quiesce |-> "Release", Release |-> "Detach",
     Detach |-> "CloseHandoff", CloseHandoff |-> "Unplace", Unplace |-> "Done"][stage]

PciStages == {"Place", "Enable", "Disable", "Unplace"}
IommuStages == {"Acquire", "Publish", "Invalidate", "Quiesce", "Release"}

\* advance_after_prepare, complete_step and done: where an accepted answer leads.
Completed(o) ==
    [o EXCEPT !.stage = IF o.stage \notin Cleanup /\ o.closing THEN "Invalidate"
                        ELSE Following(o.stage),
              !.closing = @ /\ o.stage # "Unplace",
              !.bar = @ \/ o.stage = "Place"]

\* reconcile_close: a failed preparation step turns to the cleanup once it is asked for.
Reconciled(o) ==
    IF o.closing /\ o.stage \notin Cleanup THEN [o EXCEPT !.stage = "Invalidate"] ELSE o

Busy == op.stage \notin {"Active", "Done"}
Ready == Busy /\ await = Calm

\* The answer of the open exchange: taken, wait and ask again, or failed.
Poll ==
    /\ Busy /\ await.said # "none" /\ await' = Calm
    /\ op' = IF await.said = "ok" THEN Completed(op)
             ELSE IF await.said = "fail" THEN Reconciled(op) ELSE op
    /\ UNCHANGED <<hub, running, queue, fn, bus, exe, dev, dom, spent, reach>>
TimeOut ==
    /\ Busy /\ await # Calm /\ await.said = "none" /\ await' = Calm /\ op' = Reconciled(op)
    /\ UNCHANGED <<hub, running, queue, fn, bus, exe, dev, dom, spent, reach>>

TurnToClose ==
    /\ Ready /\ op.closing /\ op.stage \notin Cleanup /\ op' = [op EXCEPT !.stage = "Invalidate"]
    /\ UNCHANGED <<hub, running, await, queue, fn, bus, exe, dev, dom, spent, reach>>

\* client_entry: lent to the execution before the first step.
ClientEntry ==
    /\ Ready /\ ~op.closing /\ ~op.client /\ op' = [op EXCEPT !.client = TRUE]
    /\ UNCHANGED <<hub, running, await, queue, fn, bus, exe, dev, dom, spent, reach>>

Turn(stage) ==
    /\ Ready /\ op.stage = stage
    /\ IF op.closing \/ stage \in Cleanup THEN stage \in Cleanup ELSE op.client

\* begin_pci and begin_iommu; Acquire waits for the execution's memory.
Send(stage) ==
    /\ Turn(stage) /\ (stage = "Acquire" => op.source)
    /\ LET peer == IF stage \in PciStages THEN "pci" ELSE "iommu"
       IN  /\ Len(queue[peer]) < Waiting
           /\ queue' = [queue EXCEPT ![peer] = Append(@, [op |-> stage, s |-> op.s])]
           /\ await' = [peer |-> peer, said |-> "none"]
    /\ UNCHANGED <<hub, running, op, fn, bus, exe, dev, dom, spent, reach>>

----------------------------------------------------------------------------
(* The executor's steps *)

\* attach keeps the record of the device over bindings; the grant may fail.
Attach ==
    /\ Turn("Attach") /\ op.bar /\ op.s > exe.floor /\ exe.s \in {-1, 0, op.s}
    /\ \/ /\ exe' = [exe EXCEPT !.s = op.s, !.grant = TRUE,
                     !.stopped = IF exe.grant THEN @ ELSE FALSE]
          /\ op' = Completed(op)
       \/ /\ ~exe.grant /\ exe' = [exe EXCEPT !.s = op.s] /\ UNCHANGED op
    /\ UNCHANGED <<hub, running, await, queue, fn, bus, dev, dom, spent, reach>>

\* give the writer, then push the coordinates once the hole takes them.
Handoff ==
    /\ Turn("Handoff")
    /\ \/ ~op.handoff /\ op' = [op EXCEPT !.handoff = TRUE]
       \/ /\ op.handoff /\ exe.s = op.s /\ exe.grant /\ op' = Completed(op)
    /\ UNCHANGED <<hub, running, await, queue, fn, bus, exe, dev, dom, spent, reach>>

\* stop: write the reset, and one turn later read it back.
Nothing == op.s <= exe.floor \/ exe.s = -1 \/ (exe.s = 0 /\ exe.stopped)
Stop ==
    /\ Turn("Stop")
    /\ \/ /\ Nothing /\ op' = Completed(op) /\ UNCHANGED dev
          /\ exe' = IF op.s <= exe.floor THEN exe ELSE [exe EXCEPT !.floor = op.s]
       \/ /\ ~Nothing /\ exe.s = op.s /\ ~exe.stopped /\ ~exe.pending
          /\ exe' = [exe EXCEPT !.pending = TRUE]
          /\ dev' = (IF dev = "running" THEN "resetting" ELSE dev) /\ UNCHANGED op
       \/ /\ ~Nothing /\ exe.s = op.s /\ (exe.stopped \/ exe.pending) /\ dev = "quiet"
          /\ exe' = [exe EXCEPT !.pending = FALSE, !.stopped = TRUE]
          /\ op' = Completed(op) /\ UNCHANGED dev
    /\ UNCHANGED <<hub, running, await, queue, fn, bus, dom, spent, reach>>
Resets ==
    /\ dev = "resetting" /\ dev' = "quiet"
    /\ UNCHANGED <<hub, running, op, await, queue, fn, bus, exe, dom, spent, reach>>

Detach ==
    /\ Turn("Detach") /\ op' = Completed(op)
    /\ \/ op.s <= exe.floor /\ UNCHANGED exe
       \/ op.s > exe.floor /\ exe.s = -1 /\ exe' = [exe EXCEPT !.floor = op.s]
       \/ /\ op.s > exe.floor /\ exe.s = op.s /\ exe.stopped
          /\ exe' = [exe EXCEPT !.s = 0, !.grant = FALSE, !.floor = op.s]
    /\ UNCHANGED <<hub, running, await, queue, fn, bus, dev, dom, spent, reach>>

\* The client's entry goes first; the handoff may stay for another turn.
CloseHandoff ==
    /\ Turn("CloseHandoff")
    /\ \/ op' = [Completed(op) EXCEPT !.client = FALSE, !.handoff = FALSE]
       \/ op.client /\ op.handoff /\ op' = [op EXCEPT !.client = FALSE]
    /\ UNCHANGED <<hub, running, await, queue, fn, bus, exe, dev, dom, spent, reach>>

----------------------------------------------------------------------------
(* The peers.  An answer reaches the coordinator only if it still waits for it. *)

Answer(peer, said) ==
    /\ queue[peer] # << >> /\ queue' = [queue EXCEPT ![peer] = Tail(@)]
    /\ await' = IF await = [peer |-> peer, said |-> "none"] /\ Len(queue[peer]) = 1
                THEN [await EXCEPT !.said = said] ELSE await
    /\ UNCHANGED <<hub, running, op, exe, dev>>

SetMax(a, b) == IF a > b THEN a ELSE b

\* place: the address is kept from the first try on; later parts may fail.
Place(r) ==
    LET new == fn.s = 0
        f == [fn EXCEPT !.known = TRUE, !.s = r.s, !.disabled = @ /\ ~new]
        ok == r.s > fn.floor /\ fn.s \in {0, r.s}
    IN  \/ ~ok /\ fn' = [fn EXCEPT !.known = TRUE] /\ Answer("pci", "fail")
        \/ ok /\ ~new /\ fn.bar = 6 /\ fn' = f /\ Answer("pci", "ok")
        \/ ok /\ (new \/ fn.bar < 6) /\ bus /\ fn' = f /\ Answer("pci", "fail")
        \/ /\ ok /\ (new \/ fn.bar < 6) /\ ~bus
           /\ \E bar \in fn.bar .. 6 :
                 /\ fn' = [f EXCEPT !.bar = bar]
                 /\ Answer("pci", IF Levels[bar] = "granted" THEN "ok" ELSE "fail")

\* enable: refused once disable of this serial was served.
EnableOk(r) == fn.known /\ fn.s = r.s /\ r.s > fn.floor /\ ~fn.disabled /\ Levels[fn.bar] = "granted"
Enable(r) ==
    \/ ~EnableOk(r) /\ Answer("pci", "fail") /\ UNCHANGED <<fn, bus>>
    \/ EnableOk(r) /\ fn.master /\ Answer("pci", IF bus THEN "ok" ELSE "fail") /\ UNCHANGED <<fn, bus>>
    \/ EnableOk(r) /\ ~fn.master /\ Answer("pci", "fail") /\ UNCHANGED <<fn, bus>>
    \/ /\ EnableOk(r) /\ ~fn.master /\ ~bus /\ bus' = TRUE
       /\ fn' = [fn EXCEPT !.master = TRUE] /\ Answer("pci", "ok")

\* disable: also of a serial that never got that far; the bit may fail to clear.
Disable(r) ==
    \/ (~fn.known \/ r.s <= fn.floor) /\ Answer("pci", "ok") /\ UNCHANGED <<fn, bus>>
    \/ fn.known /\ r.s > fn.floor /\ Answer("pci", "fail") /\ UNCHANGED <<fn, bus>>
    \/ /\ fn.known /\ r.s > fn.floor /\ fn.s \in {0, r.s} /\ Answer("pci", "ok")
       /\ bus' = FALSE
       /\ fn' = [fn EXCEPT !.master = FALSE, !.disabled = TRUE, !.floor = SetMax(@, r.s)]

\* release: a BAR that was not delivered gives its parts back, not its address.
Unplace(r) ==
    \/ ~fn.known /\ Answer("pci", "ok") /\ UNCHANGED fn
    \/ /\ fn.known /\ fn.s # r.s /\ UNCHANGED fn
       /\ Answer("pci", IF r.s <= fn.floor THEN "ok" ELSE "fail")
    \/ /\ fn.known /\ fn.s = r.s /\ Answer("pci", "fail")
       /\ \/ UNCHANGED fn
          \/ fn.disabled /\ ~fn.master /\ Levels[fn.bar] = "rooted" /\ fn' = [fn EXCEPT !.bar = 5]
    \/ /\ fn.known /\ fn.s = r.s /\ fn.disabled /\ ~fn.master /\ Answer("pci", "ok")
       /\ fn' = [fn EXCEPT !.s = 0, !.floor = SetMax(@, r.s),
                 !.bar = IF @ \in 2 .. 5 THEN 2 ELSE @]

Pci ==
    /\ queue["pci"] # << >>
    /\ LET r == Head(queue["pci"])
       IN  \/ r.op = "Place" /\ Place(r) /\ UNCHANGED bus
           \/ r.op = "Enable" /\ Enable(r)
           \/ r.op = "Disable" /\ Disable(r)
           \/ r.op = "Unplace" /\ Unplace(r) /\ UNCHANGED bus
    /\ UNCHANGED <<dom, spent, reach>>

\* The domain's calls: a step that takes time answers pending.
Hold == UNCHANGED <<dom, spent, reach>>
Iommu ==
    /\ queue["iommu"] # << >>
    /\ LET r == Head(queue["iommu"])
           mine == dom.s = r.s
       IN  \/ /\ r.op = "Acquire"
              /\ \/ Take(r.s) /\ (Answer("iommu", "ok") \/ Answer("iommu", "fail"))
                 \/ Hold /\ (Answer("iommu", "pending") \/ Answer("iommu", "fail"))
                 \/ mine /\ dom.at = "acquired" /\ Hold /\ Answer("iommu", "ok")
           \/ /\ r.op = "Publish"
              /\ \/ mine /\ Open /\ \E said \in {"ok", "pending", "fail"} : Answer("iommu", said)
                 \/ mine /\ dom.at = "open" /\ Hold /\ (Answer("iommu", "pending") \/ Answer("iommu", "ok"))
                 \/ Hold /\ Answer("iommu", "fail")
           \/ /\ r.op = "Invalidate"
              /\ \/ dom = Nobody /\ (Spend(r.s) \/ (r.s <= spent /\ Hold)) /\ Answer("iommu", "ok")
                 \/ mine /\ Shut /\ Answer("iommu", "ok")
                 \/ mine /\ dom.at \in {"shut", "quiet"} /\ Hold /\ Answer("iommu", "ok")
                 \/ dom # Nobody /\ Hold /\ (Answer("iommu", "pending") \/ Answer("iommu", "fail"))
           \/ /\ r.op = "Quiesce"
              /\ \/ dom = Nobody /\ Hold /\ Answer("iommu", IF r.s <= spent THEN "ok" ELSE "fail")
                 \/ mine /\ Quiet /\ Answer("iommu", "ok")
                 \/ mine /\ dom.at = "quiet" /\ Hold /\ Answer("iommu", "ok")
                 \/ dom # Nobody /\ Hold /\ (Answer("iommu", "pending") \/ Answer("iommu", "fail"))
           \/ /\ r.op = "Release"
              /\ \/ dom = Nobody /\ (Spend(r.s) \/ (r.s <= spent /\ Hold)) /\ Answer("iommu", "ok")
                 \/ mine /\ GiveBack /\ Answer("iommu", "ok")
                 \/ dom # Nobody /\ Hold /\ (Answer("iommu", "pending") \/ Answer("iommu", "fail"))
    /\ UNCHANGED <<fn, bus>>

\* The device reaches memory while it runs, may master the bus and is translated.
Dma == dev = "running" /\ bus /\ Access /\ UNCHANGED devVars

Next ==
    \/ Prepare \/ BeginRelease \/ HubCloses \/ HubClosed \/ HubClaims
    \/ Supply \/ Drive \/ Exit \/ Poll \/ TimeOut \/ TurnToClose \/ ClientEntry
    \/ \E stage \in PciStages \cup IommuStages : Send(stage)
    \/ Attach \/ Handoff \/ Stop \/ Resets \/ Detach \/ CloseHandoff
    \/ Pci \/ Iommu \/ Dma

Spec == Init /\ [][Next]_bindVars

----------------------------------------------------------------------------
(* Properties *)

\* The reset is written only when the execution is gone, its translation withdrawn
\* and the bus mastering off; the frames go back only when the device has stopped.
StopOrderStep ==
    /\ ~exe.pending /\ exe'.pending => ~running /\ ~bus /\ dom.at # "open"
    /\ dom # Nobody /\ dom' = Nobody => dev = "quiet" /\ ~bus /\ ~running

\* A binding that is reported Closed has given everything back, and no request
\* of it is still on its way.
ClosedIsClean ==
    op.stage = "Done" =>
        /\ dom = Nobody /\ fn.s = 0 /\ ~bus /\ ~fn.master /\ exe.s \in {-1, 0} /\ ~exe.grant
        /\ ~op.client /\ ~op.handoff /\ dev = "quiet"
        /\ \A p \in DOMAIN queue : queue[p] = << >>

\* A device that can reach memory does so for the binding its frames were taken for.
DeviceConfined == reach \subseteq (IF op.s = dom.s /\ op.stage # "Done" THEN {op.s} ELSE {})

=============================================================================
