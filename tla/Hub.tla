-------------------------------- MODULE Hub --------------------------------
(***************************************************************************)
(* Hub's DMA half (service/hub/core, service/hub/serve): which execution   *)
(* may claim the device, one binding from claim to release, and the owner  *)
(* receipts Hub hands back to Control.  Hub is one thread; Control, the    *)
(* coordinator of the device (Binding) and the executions run beside it.   *)
(* A request may time out at Hub and still be served later, its answer     *)
(* lost.  One device; a binding is known by its serial.                    *)
(***************************************************************************)
EXTENDS Naturals, Sequences, FiniteSets

CONSTANTS Tasks,       \* execution instances made for Hub
          Started,     \* the ones that are admitted and run at the start
          Serials,     \* bound: the bindings made, 1..n
          ReturnCap,   \* RETURN_CAP
          History,     \* CLOSED_ADMISSIONS
          Losses       \* bound: the requests that time out

VARIABLES adm,         \* Ledger.admissions: none, open or closed, and claim_high
          past,        \* Ledger.closed_admissions, the oldest first
          bnd,         \* Ledger.bindings
          settling,    \* Ledger.settling
          launch,      \* Executions.launches
          ret,         \* Executions.returns
          rpc,         \* the request of each binding to the coordinator
          frames,      \* requests on their way to the coordinator
          wire,        \* requests on their way to Control
          ctl,         \* Control: the state of each instance, and whether it ever ran
          quit,        \* Control: the targets Hub has answered Done, or "all"
          crd,         \* the coordinator's operation
          lost         \* the requests that timed out

hubVars == <<adm, past, bnd, settling, launch, ret>>
hubOut == <<rpc, frames, wire, ctl, quit, crd, lost>>
hubAll == <<hubVars, hubOut>>

NoReturn == [on |-> FALSE, trusted |-> FALSE, target |-> FALSE, said |-> "idle"]
NoLaunch == [at |-> "none", said |-> "idle"]
Quiet == [op |-> "none", said |-> "none"]

Init ==
    /\ adm = [t \in Tasks |-> [at |-> IF t \in Started THEN "open" ELSE "none", high |-> 0]]
    /\ past = << >>
    /\ bnd = [s \in Serials |-> [at |-> "free", t |-> CHOOSE t \in Tasks : TRUE, id |-> 0]]
    /\ settling = FALSE
    /\ launch = [t \in Tasks |-> NoLaunch] /\ ret = [t \in Tasks |-> NoReturn]
    /\ rpc = [s \in Serials |-> Quiet] /\ frames = {} /\ wire = {}
    /\ ctl = [t \in Tasks |-> [at |-> IF t \in Started THEN "up" ELSE "made", ran |-> t \in Started]]
    /\ quit = {}
    /\ crd = [s |-> 0, at |-> "done"] /\ lost = 0

TypeOK ==
    /\ adm \in [Tasks -> [at : {"none", "open", "closed"}, high : Nat]]
    /\ past \in Seq(Tasks) /\ Len(past) <= History
    /\ bnd \in [Serials -> [at : {"free", "Preparing", "Active", "Closing", "Closed"},
                            t : Tasks, id : Nat]]
    /\ Cardinality({t \in Tasks : ret[t].on}) <= ReturnCap
    /\ crd \in [s : {0} \cup Serials, at : {"done", "open", "active", "closing"}]

----------------------------------------------------------------------------
(* The ledger *)

Open(s) == bnd[s].at \in {"Preparing", "Active", "Closing"}
OpenFor(t) == {s \in Serials : Open(s) /\ bnd[s].t = t}
Past == {past[i] : i \in DOMAIN past}
Shut(a, t) == IF a[t].at = "open" THEN [a EXCEPT ![t].at = "closed"] ELSE a
CloseAll(b, S) == [s \in Serials |-> IF s \in S THEN [b[s] EXCEPT !.at = "Closing"] ELSE b[s]]

Admits(t) ==
    /\ t \notin Past
    /\ adm[t].at = "open" \/ (adm[t].at = "none" /\ ~settling)
Admit(t) == IF adm[t].at = "none" THEN [adm EXCEPT ![t].at = "open"] ELSE adm

Released(t) ==
    /\ adm' = [adm EXCEPT ![t] = [at |-> "none", high |-> 0]]
    /\ past' = IF t \in Past THEN past
               ELSE Append(IF Len(past) >= History THEN Tail(past) ELSE past, t)

NewClaim(t, id) == adm[t].at = "open" /\ id > adm[t].high
\* A claim may be taken from the device's door after its sender has stopped.
Claim(t, id) ==
    /\ ctl[t].ran /\ ~settling
    /\ ~\E s \in Serials : bnd[s].at # "free" /\ bnd[s].t = t /\ bnd[s].id = id
    /\ NewClaim(t, id) /\ ~\E s \in Serials : Open(s)
    /\ \E s \in Serials :
         /\ bnd[s].at = "free" /\ \A r \in Serials : r < s => bnd[r].at # "free"
         /\ bnd' = [bnd EXCEPT ![s] = [at |-> "Preparing", t |-> t, id |-> id]]
    /\ adm' = [adm EXCEPT ![t].high = id]
    /\ UNCHANGED <<past, settling, launch, ret, hubOut>>

\* DmaWire::Close by the owner, or owner_gone when its sensor has died.
Close(s) ==
    /\ bnd[s].at \in {"Preparing", "Active"} /\ bnd' = CloseAll(bnd, {s})
    /\ UNCHANGED <<adm, past, settling, launch, ret, hubOut>>

----------------------------------------------------------------------------
(* Executions: launches and returns *)

Kept(r, t) == r[t].on \/ Cardinality({u \in Tasks : r[u].on}) < ReturnCap
Enqueue(r, t, trusted, target) ==
    IF ~Kept(r, t) THEN r
    ELSE [r EXCEPT ![t] =
            [on |-> TRUE, trusted |-> @.trusted \/ trusted, target |-> @.target \/ target,
             said |-> IF trusted /\ ~@.trusted THEN "idle" ELSE @.said]]

Receive(t) ==
    /\ adm[t].at = "none" /\ t \notin Past /\ ~settling /\ launch[t] = NoLaunch
    /\ launch' = [launch EXCEPT ![t].at = "inspect"]
    /\ UNCHANGED <<adm, past, bnd, settling, ret, hubOut>>

\* LaunchReply::Abort: the launch stays, to return, until the return is accepted.
Abort(t, trusted) ==
    /\ adm' = IF trusted THEN Shut(adm, t) ELSE adm
    /\ ret' = Enqueue(ret, t, trusted, FALSE)
    /\ launch' = [launch EXCEPT ![t] =
                   IF Kept(ret, t) THEN NoLaunch
                   ELSE [at |-> IF trusted THEN "trusted" ELSE "return", said |-> "idle"]]
    /\ UNCHANGED <<past, bnd, settling>>

LaunchBegin(t) ==
    /\ launch[t].at \in {"inspect", "embark"} /\ launch[t].said = "idle"
    /\ launch' = [launch EXCEPT ![t].said = "sent"]
    /\ wire' = wire \cup {<<launch[t].at, t>>}
    /\ UNCHANGED <<adm, past, bnd, settling, ret, rpc, frames, ctl, quit, crd, lost>>
TimesOut == lost < Losses /\ lost' = lost + 1
\* The deadline of the start.
LaunchLate(t) ==
    /\ launch[t].at \in {"inspect", "embark"} /\ launch[t].said \in {"idle", "sent"}
    /\ TimesOut /\ Abort(t, adm[t].at # "none")
    /\ UNCHANGED <<rpc, frames, wire, ctl, quit, crd>>
LaunchRetry(t) ==
    /\ launch[t].said = "sent" /\ launch' = [launch EXCEPT ![t].said = "idle"]
    /\ TimesOut /\ UNCHANGED <<adm, past, bnd, settling, ret, rpc, frames, wire, ctl, quit, crd>>
LaunchReturn(t) ==
    /\ launch[t].at \in {"return", "trusted"} /\ Kept(ret, t)
    /\ Abort(t, launch[t].at = "trusted") /\ UNCHANGED hubOut
Inspected(t) ==
    /\ launch[t].at = "inspect" /\ launch[t].said \in {"suitable", "unsuitable", "unknown"}
    /\ IF launch[t].said = "suitable" /\ Admits(t)
       THEN /\ adm' = Admit(t) /\ launch' = [launch EXCEPT ![t] = [at |-> "embark", said |-> "sent"]]
            /\ wire' = wire \cup {<<"embark", t>>} /\ UNCHANGED <<past, bnd, settling, ret>>
       ELSE Abort(t, launch[t].said # "unknown") /\ UNCHANGED wire
    /\ UNCHANGED <<rpc, frames, ctl, quit, crd, lost>>
Embarked(t) ==
    /\ launch[t].at = "embark" /\ launch[t].said \in {"up", "unready", "unknown"}
    /\ IF launch[t].said = "up"
       THEN launch' = [launch EXCEPT ![t] = NoLaunch] /\ UNCHANGED <<adm, past, bnd, settling, ret>>
       ELSE Abort(t, TRUE)
    /\ UNCHANGED hubOut

\* expire_admissions: an unclaimed admission closes once its return is accepted.
Expire(t) ==
    /\ adm[t].at = "open" /\ adm[t].high = 0 /\ Kept(ret, t)
    /\ ret' = Enqueue(ret, t, TRUE, FALSE) /\ adm' = Shut(adm, t)
    /\ UNCHANGED <<past, bnd, settling, launch, hubOut>>
ReturnClosed(t) ==
    /\ adm[t].at = "closed" /\ Kept(ret, t) /\ ~ret[t].trusted
    /\ ret' = Enqueue(ret, t, TRUE, FALSE)
    /\ UNCHANGED <<adm, past, bnd, settling, launch, hubOut>>

ReturnBegin(t) ==
    /\ ret[t].on /\ ret[t].said = "idle"
    /\ ret' = [ret EXCEPT ![t].said = "sent"]
    /\ wire' = wire \cup {<<IF ret[t].trusted THEN "release" ELSE "ask", t>>}
    /\ UNCHANGED <<adm, past, bnd, settling, launch, rpc, frames, ctl, quit, crd, lost>>
ReturnRetry(t) ==
    /\ ret[t].said = "sent" /\ ret' = [ret EXCEPT ![t].said = "idle"]
    /\ TimesOut /\ UNCHANGED <<adm, past, bnd, settling, launch, rpc, frames, wire, ctl, quit, crd>>
\* The inspection of an untrusted return: it becomes a release, or there is none.
ReturnAsked(t) ==
    /\ ret[t].said \in {"known", "unknown"}
    /\ ret' = IF ret[t].said = "known" THEN [ret EXCEPT ![t].trusted = TRUE, ![t].said = "sent"]
              ELSE IF OpenFor(t) = {} THEN [ret EXCEPT ![t] = NoReturn]
              ELSE [ret EXCEPT ![t].said = "idle"]
    /\ wire' = IF ret[t].said = "known" THEN wire \cup {<<"release", t>>} ELSE wire
    /\ UNCHANGED <<adm, past, bnd, settling, launch, rpc, frames, ctl, quit, crd, lost>>
ReturnReleased(t) ==
    /\ ret[t].said = "released"
    /\ ret' = [ret EXCEPT ![t] = NoReturn] /\ launch' = [launch EXCEPT ![t] = NoLaunch]
    /\ Released(t) /\ UNCHANGED <<bnd, settling, hubOut>>

\* Executions::settle, after every round once the ledger is settling.
SettleLaunch(t) ==
    /\ settling /\ launch[t] # NoLaunch /\ Kept(ret, t)
    /\ ret' = Enqueue(ret, t, FALSE, FALSE) /\ launch' = [launch EXCEPT ![t] = NoLaunch]
    /\ UNCHANGED <<adm, past, bnd, settling, hubOut>>

----------------------------------------------------------------------------
(* coordination::advance *)

\* A closing binding asks for the owner handoff at once.
CloseExecution(s) ==
    /\ bnd[s].at = "Closing"
    /\ adm' = Shut(adm, bnd[s].t)
    /\ ret' = Enqueue(ret, bnd[s].t, adm[bnd[s].t].at # "none", FALSE)
    /\ <<adm, ret>>' # <<adm, ret>>
    /\ UNCHANGED <<past, bnd, settling, launch, hubOut>>

ReleaseReady(s) == bnd[s].at = "Closing" /\ ret[bnd[s].t].target
Ask(s) ==
    /\ rpc[s] = Quiet
    /\ bnd[s].at = "Preparing" \/ ReleaseReady(s)
    /\ LET o == IF bnd[s].at = "Preparing" THEN "prepare" ELSE "release"
       IN  rpc' = [rpc EXCEPT ![s] = [op |-> o, said |-> "sent"]] /\ frames' = frames \cup {<<o, s>>}
    /\ UNCHANGED <<hubVars, wire, ctl, quit, crd, lost>>
AskLost(s) ==
    /\ rpc[s].said = "sent" /\ rpc' = [rpc EXCEPT ![s] = Quiet]
    /\ TimesOut /\ UNCHANGED <<hubVars, frames, wire, ctl, quit, crd>>

\* As if the first answer to a release ended the binding.
FinishedEarly(s) == rpc[s].op = "release" /\ bnd[s].at = "Closing"
Finished(s) == rpc[s].op = "release" /\ rpc[s].said = "Closed" /\ bnd[s].at = "Closing"
\* receive: an answer to a request of an earlier state changes nothing.
Answered(s) ==
    /\ rpc[s].said \notin {"none", "sent"} /\ rpc' = [rpc EXCEPT ![s] = Quiet]
    /\ bnd' = IF Finished(s) THEN [bnd EXCEPT ![s].at = "Closed"]
              ELSE IF rpc[s] = [op |-> "prepare", said |-> "Active"] /\ bnd[s].at = "Preparing"
              THEN [bnd EXCEPT ![s].at = "Active"] ELSE bnd
    /\ IF Finished(s)
       THEN adm' = Shut(adm, bnd[s].t)
            /\ ret' = Enqueue(ret, bnd[s].t, adm[bnd[s].t].at # "none", FALSE)
       ELSE UNCHANGED <<adm, ret>>
    /\ UNCHANGED <<past, settling, launch, frames, wire, ctl, quit, crd, lost>>

----------------------------------------------------------------------------
(* drain_retirement *)

\* Control's proof that t has stopped: Done once no binding of t is open.
Target(t) ==
    /\ ctl[t].at = "stopping" /\ Kept(ret, t)
    /\ ret' = Enqueue(ret, t, adm[t].at # "none", TRUE)
    /\ adm' = Shut(adm, t) /\ bnd' = CloseAll(bnd, OpenFor(t))
    /\ quit' = IF OpenFor(t) = {} THEN quit \cup {t} ELSE quit
    /\ UNCHANGED <<past, settling, launch, rpc, frames, wire, ctl, crd, lost>>

Idle == /\ \A t \in Tasks : launch[t] = NoLaunch /\ ~ret[t].on /\ adm[t].at = "none"
        /\ \A s \in Serials : ~Open(s)
Settle ==
    /\ settling' = TRUE /\ bnd' = CloseAll(bnd, {s \in Serials : Open(s)})
    /\ adm' = [t \in Tasks |-> Shut(adm, t)[t]]
    /\ quit' = IF Idle THEN quit \cup {"all"} ELSE quit
    /\ <<settling, bnd, adm, quit>>' # <<settling, bnd, adm, quit>>
    /\ UNCHANGED <<past, launch, ret, rpc, frames, wire, ctl, crd, lost>>

----------------------------------------------------------------------------
(* Control: what it does with an instance that Hub owns *)

Stop(t) ==
    /\ ctl[t].at \in {"made", "up"} /\ ctl' = [ctl EXCEPT ![t].at = "stopping"]
    /\ UNCHANGED <<hubVars, rpc, frames, wire, quit, crd, lost>>
Die(t) ==
    /\ ctl[t].at = "stopping" /\ t \in quit /\ ctl' = [ctl EXCEPT ![t].at = "dead"]
    /\ UNCHANGED <<hubVars, rpc, frames, wire, quit, crd, lost>>

ServeInspect(t) ==
    /\ <<"inspect", t>> \in wire /\ wire' = wire \ {<<"inspect", t>>}
    /\ launch' = IF launch[t] # [at |-> "inspect", said |-> "sent"] THEN launch
                 ELSE [launch EXCEPT ![t].said =
                        CASE ctl[t].at \in {"made", "up"} -> "suitable"
                          [] ctl[t].at = "gone" -> "unknown" [] OTHER -> "unsuitable"]
    /\ UNCHANGED <<adm, past, bnd, settling, ret, rpc, frames, ctl, quit, crd, lost>>
ServeEmbark(t) ==
    /\ <<"embark", t>> \in wire /\ wire' = wire \ {<<"embark", t>>}
    /\ ctl' = IF ctl[t].at = "made" THEN [ctl EXCEPT ![t] = [at |-> "up", ran |-> TRUE]] ELSE ctl
    /\ launch' = IF launch[t] # [at |-> "embark", said |-> "sent"] THEN launch
                 ELSE [launch EXCEPT ![t].said =
                        CASE ctl[t].at \in {"made", "up"} -> "up"
                          [] ctl[t].at = "gone" -> "unknown" [] OTHER -> "unready"]
    /\ UNCHANGED <<adm, past, bnd, settling, ret, rpc, frames, quit, crd, lost>>
ServeAsk(t) ==
    /\ <<"ask", t>> \in wire /\ wire' = wire \ {<<"ask", t>>}
    /\ ret' = IF ret[t].said # "sent" \/ ret[t].trusted THEN ret
              ELSE [ret EXCEPT ![t].said = IF ctl[t].at = "gone" THEN "unknown" ELSE "known"]
    /\ UNCHANGED <<adm, past, bnd, settling, launch, rpc, frames, ctl, quit, crd, lost>>
\* release_instance stops the instance and is kept until it is dead.
ServeRelease(t) ==
    /\ <<"release", t>> \in wire
    /\ CASE ctl[t].at \in {"made", "up"} ->
             ctl' = [ctl EXCEPT ![t].at = "stopping"] /\ UNCHANGED <<wire, ret>>
         [] ctl[t].at \in {"dead", "gone"} ->
             /\ ctl' = [ctl EXCEPT ![t].at = "gone"] /\ wire' = wire \ {<<"release", t>>}
             /\ ret' = IF ret[t].said = "sent" /\ ret[t].trusted
                       THEN [ret EXCEPT ![t].said = "released"] ELSE ret
         [] OTHER -> FALSE
    /\ UNCHANGED <<adm, past, bnd, settling, launch, rpc, frames, quit, crd, lost>>

----------------------------------------------------------------------------
(* The coordinator of the device: begin, begin_release and its own progress *)

Fresh(s) == crd.at = "done" /\ s > crd.s
Reply(s, o, a) == rpc' = IF rpc[s] = [op |-> o, said |-> "sent"] THEN [rpc EXCEPT ![s].said = a] ELSE rpc
Now == [done |-> "Closed", open |-> "Preparing", active |-> "Active", closing |-> "Closing"][crd.at]
TakePrepare(s) ==
    /\ <<"prepare", s>> \in frames /\ frames' = frames \ {<<"prepare", s>>}
    /\ crd' = IF Fresh(s) THEN [s |-> s, at |-> "open"] ELSE crd
    /\ Reply(s, "prepare", IF Fresh(s) THEN "Preparing"
                           ELSE IF crd.s = s /\ crd.at # "done" THEN Now ELSE "fail")
    /\ UNCHANGED <<hubVars, wire, ctl, quit, lost>>
TakeRelease(s) ==
    /\ <<"release", s>> \in frames /\ frames' = frames \ {<<"release", s>>}
    /\ crd' = IF Fresh(s) \/ (crd.s = s /\ crd.at # "done") THEN [s |-> s, at |-> "closing"] ELSE crd
    /\ Reply(s, "release", IF Fresh(s) \/ (crd.s = s /\ crd.at # "done") THEN "Closing"
                           ELSE IF crd.s = s THEN "Closed" ELSE "fail")
    /\ UNCHANGED <<hubVars, wire, ctl, quit, lost>>
Progress ==
    /\ crd.at \in {"open", "closing"}
    /\ crd' = [crd EXCEPT !.at = IF @ = "open" THEN "active" ELSE "done"]
    /\ UNCHANGED <<hubVars, rpc, frames, wire, ctl, quit, lost>>

----------------------------------------------------------------------------
TaskStep(t) ==
    \/ Receive(t) \/ LaunchBegin(t) \/ LaunchLate(t) \/ LaunchRetry(t) \/ LaunchReturn(t)
    \/ Inspected(t) \/ Embarked(t) \/ Expire(t) \/ ReturnClosed(t)
    \/ ReturnBegin(t) \/ ReturnRetry(t) \/ ReturnAsked(t) \/ ReturnReleased(t)
    \/ SettleLaunch(t) \/ Target(t) \/ Stop(t) \/ Die(t)
    \/ ServeInspect(t) \/ ServeEmbark(t) \/ ServeAsk(t) \/ ServeRelease(t)
    \/ \E id \in Serials : Claim(t, id)
SerialStep(s) ==
    \/ Close(s) \/ CloseExecution(s) \/ Ask(s) \/ AskLost(s) \/ Answered(s)
    \/ TakePrepare(s) \/ TakeRelease(s)
Next == \/ \E t \in Tasks : TaskStep(t)
        \/ \E s \in Serials : SerialStep(s)
        \/ Settle \/ Progress

Spec == Init /\ [][Next]_hubAll

----------------------------------------------------------------------------
(* Properties *)

\* The device has one owner: at most one binding is open, and the coordinator
\* works only for a binding that Hub still holds open (Ledger::claim, finish).
OneOwner ==
    /\ Cardinality({s \in Serials : Open(s)}) <= 1
    /\ crd.at # "done" => Open(crd.s)

\* The hardware is torn down only after Control proved that the execution has
\* stopped ("Hardware teardown still waits for Control's real per-instance
\* target", execution.rs).
ProofFirst == crd.at = "closing" => ctl[bnd[crd.s].t].at \in {"stopping", "dead", "gone"}

\* Control calls an instance dead only when no binding of it is open, and none
\* comes after: its claims are refused from the target on.
DeadIsClean == \A t \in Tasks : ctl[t].at \in {"dead", "gone"} => OpenFor(t) = {}

\* When Hub answers Done to the settlement it owes nothing: no open binding, no
\* admission, and every receipt it took has been handed back.
SettledOwesNothing ==
    "all" \in quit => /\ crd.at = "done" /\ \A s \in Serials : ~Open(s)
                      /\ \A t \in Tasks : /\ adm[t].at = "none"
                                           /\ ctl[t].ran => ctl[t].at = "gone"
============================================================================
