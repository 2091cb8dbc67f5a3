------------------------------- MODULE Lines --------------------------------
(***************************************************************************)
(* The router of interrupt lines: the PLIC, the kernel's gate on external  *)
(* interrupts, the router's account of lines with its resident loop, and   *)
(* the drivers that occupy a line, are rung, drain their device and say so.*)
(*                                                                         *)
(* A client is one driver with one lane; Line says which line it asks for, *)
(* so two clients of one line are a driver and its successor.  The steps   *)
(* of the router are its calls; sweeping and draining, which look at each  *)
(* line once, are one step each.                                           *)
(***************************************************************************)
EXTENDS Naturals, FiniteSets

CONSTANTS Clients,    \* drivers
          Line,       \* the line each of them asks for
          Raises      \* bound on the times a device has something new

VARIABLES level,      \* the device of a line has something to be drained
          prio, wired, claimed,         \* PLIC: priority, enable bit, claimed
          irq, gate,                    \* the bell of the interrupt, SEIE open
          cells,                        \* router: owner of a line or "idle"
          busy,                         \* router: told, not yet drained
          door,                         \* requests at the router's entry
          pc, cur,                      \* the router's place, the line at hand
          life, rung, back, work, count

routerVars == <<cells, busy, door, pc, cur>>
plicVars == <<prio, wired, claimed>>
clientVars == <<life, rung, back, work>>
linesVars == <<level, prio, wired, claimed, irq, gate, cells, busy, door, pc, cur,
               life, rung, back, work, count>>

LineSet == {Line[c] : c \in Clients}
Assumptions == /\ Clients # {} /\ DOMAIN Line = Clients /\ Raises \in Nat

Init ==
    /\ level = [l \in LineSet |-> FALSE]
    /\ prio = [l \in LineSet |-> 0] /\ wired = [l \in LineSet |-> FALSE]
    /\ claimed = [l \in LineSet |-> FALSE]
    /\ irq = FALSE /\ gate = TRUE
    /\ cells = [l \in LineSet |-> "idle"] /\ busy = [l \in LineSet |-> FALSE]
    /\ door = {} /\ pc = "await" /\ cur = 0
    /\ life = [c \in Clients |-> "off"]
    /\ rung = [c \in Clients |-> FALSE] /\ back = [c \in Clients |-> FALSE]
    /\ work = [c \in Clients |-> "idle"] /\ count = 0

-----------------------------------------------------------------------------
(* Devices, the controller and the kernel.                                  *)

\* A device has something; its line is a level and stays up until drained.
Raise(l) ==
    /\ count < Raises /\ ~level[l]
    /\ count' = count + 1 /\ level' = [level EXCEPT ![l] = TRUE]
    /\ UNCHANGED <<irq, gate>> /\ UNCHANGED plicVars /\ UNCHANGED routerVars /\ UNCHANGED clientVars

\* What the controller would hand out.
Offered(l) == level[l] /\ wired[l] /\ prio[l] > 0 /\ ~claimed[l]

\* The trap rings the router's bell and shuts the gate of the hart.
Trap ==
    /\ gate /\ \E l \in LineSet : Offered(l)
    /\ irq' = TRUE /\ gate' = FALSE
    /\ UNCHANGED <<level, count>> /\ UNCHANGED plicVars /\ UNCHANGED routerVars /\ UNCHANGED clientVars

-----------------------------------------------------------------------------
(* Clients.                                                                 *)

Alive(c) == life[c] \in {"asking", "held"}

Ask(c) ==
    /\ life[c] = "off"
    /\ life' = [life EXCEPT ![c] = "asking"] /\ door' = door \cup {c}
    /\ UNCHANGED <<level, irq, gate, cells, busy, pc, cur, rung, back, work, count>>
    /\ UNCHANGED plicVars

\* The client dies, or its answer did not come in time and it drops its lane.
Die(c) ==
    /\ Alive(c)
    /\ life' = [life EXCEPT ![c] = "gone"] /\ work' = [work EXCEPT ![c] = "idle"]
    /\ UNCHANGED <<level, irq, gate, rung, back, count>>
    /\ UNCHANGED plicVars /\ UNCHANGED routerVars

Receive(c) ==
    /\ life[c] = "held" /\ work[c] = "idle" /\ rung[c]
    /\ rung' = [rung EXCEPT ![c] = FALSE] /\ work' = [work EXCEPT ![c] = "drain"]
    /\ UNCHANGED <<level, irq, gate, life, back, count>>
    /\ UNCHANGED plicVars /\ UNCHANGED routerVars

DrainDevice(c) ==
    /\ work[c] = "drain"
    /\ level' = [level EXCEPT ![Line[c]] = FALSE] /\ work' = [work EXCEPT ![c] = "tell"]
    /\ UNCHANGED <<irq, gate, life, rung, back, count>>
    /\ UNCHANGED plicVars /\ UNCHANGED routerVars

\* The lane's bit towards the router: a state, set however often it is said.
Exhausted(c) ==
    /\ work[c] = "tell"
    /\ back' = [back EXCEPT ![c] = TRUE] /\ work' = [work EXCEPT ![c] = "idle"]
    /\ UNCHANGED <<level, irq, gate, life, rung, count>>
    /\ UNCHANGED plicVars /\ UNCHANGED routerVars

-----------------------------------------------------------------------------
(* The router's loop.                                                       *)

Owned(l) == cells[l] # "idle"
Woken == irq \/ door # {} \/ \E l \in LineSet : Owned(l) /\ back[cells[l]]

Await ==
    /\ pc = "await" /\ Woken /\ pc' = "sweep"
    /\ UNCHANGED <<level, irq, gate, cells, busy, door, cur, count>>
    /\ UNCHANGED plicVars /\ UNCHANGED clientVars

Lost == {l \in LineSet : Owned(l) /\ ~Alive(cells[l])}
Unwire ==
    /\ prio' = [l \in LineSet |-> IF l \in Lost THEN 0 ELSE prio[l]]
    /\ wired' = [l \in LineSet |-> wired[l] /\ l \notin Lost]
Vacate ==
    /\ cells' = [l \in LineSet |-> IF l \in Lost THEN "idle" ELSE cells[l]]
    /\ busy' = [l \in LineSet |-> busy[l] /\ l \notin Lost]
Sweep ==
    /\ pc = "sweep" /\ Unwire /\ Vacate /\ pc' = "drain"
    /\ UNCHANGED <<level, claimed, irq, gate, door, cur, count>> /\ UNCHANGED clientVars

\* Lines told and drained: idle again, and let through again.
Enable(L) ==
    /\ prio' = [l \in LineSet |-> IF l \in L THEN 1 ELSE prio[l]]
    /\ wired' = [l \in LineSet |-> wired[l] \/ l \in L]
Drain ==
    LET done == {l \in LineSet : Owned(l) /\ busy[l] /\ back[cells[l]]}
    IN  /\ pc = "drain" /\ pc' = "desk"
        /\ busy' = [l \in LineSet |-> busy[l] /\ l \notin done]
        /\ back' = [c \in Clients |-> back[c] /\ ~(Line[c] \in done /\ cells[Line[c]] = c)]
        /\ Enable(done)
        /\ UNCHANGED <<level, claimed, irq, gate, cells, door, cur, life, rung, work, count>>

\* A request whose lane is no longer alive is refused, and so is a taken line.
Occupy(c) ==
    /\ ~Owned(Line[c])
    /\ cells' = [cells EXCEPT ![Line[c]] = c] /\ busy' = [busy EXCEPT ![Line[c]] = FALSE]
\* serve: one request, its answer, and the line enabled for its new owner.
Serve(c) ==
    /\ pc = "desk" /\ c \in door /\ door' = door \ {c}
    /\ \/ /\ Alive(c) /\ Occupy(c) /\ Enable({Line[c]})
          /\ life' = [life EXCEPT ![c] = "held"]
       \/ /\ Alive(c) /\ Owned(Line[c]) /\ life' = [life EXCEPT ![c] = "gone"]
          /\ UNCHANGED <<cells, busy, prio, wired>>
       \/ /\ ~Alive(c) /\ UNCHANGED <<cells, busy, prio, wired, life>>
    /\ UNCHANGED <<level, claimed, irq, gate, pc, cur, rung, back, work, count>>
Served ==
    /\ pc = "desk" /\ door = {} /\ pc' = "claim"
    /\ UNCHANGED <<level, irq, gate, cells, busy, door, cur, count>>
    /\ UNCHANGED plicVars /\ UNCHANGED clientVars

Claim ==
    /\ pc = "claim"
    /\ \/ \E l \in LineSet :
            /\ Offered(l) /\ cur' = l /\ pc' = "deliver"
            /\ claimed' = [claimed EXCEPT ![l] = TRUE]
       \/ /\ \A l \in LineSet : ~Offered(l)
          /\ pc' = "hush" /\ UNCHANGED <<cur, claimed>>
    /\ UNCHANGED <<level, prio, wired, irq, gate, cells, busy, door, count>> /\ UNCHANGED clientVars

\* deliver rings the owner's lane; the line is muted only when that worked.
Reached(l) == Owned(l) /\ Alive(cells[l])
Muted(l) == IF Reached(l) THEN "mute" ELSE "complete"
Deliver ==
    /\ pc = "deliver" /\ pc' = Muted(cur)
    /\ \/ /\ Reached(cur) /\ rung' = [rung EXCEPT ![cells[cur]] = TRUE]
          /\ busy' = [busy EXCEPT ![cur] = TRUE]
       \/ ~Reached(cur) /\ UNCHANGED <<rung, busy>>
    /\ UNCHANGED <<level, irq, gate, cells, door, cur, life, back, work, count>> /\ UNCHANGED plicVars
Mute ==
    /\ pc = "mute" /\ pc' = "complete" /\ prio' = [prio EXCEPT ![cur] = 0]
    /\ UNCHANGED <<level, wired, claimed, irq, gate, cells, busy, door, cur, count>>
    /\ UNCHANGED clientVars
Complete ==
    /\ pc = "complete" /\ pc' = "claim" /\ cur' = 0
    /\ claimed' = [claimed EXCEPT ![cur] = FALSE]
    /\ UNCHANGED <<level, prio, wired, irq, gate, cells, busy, door, count>> /\ UNCHANGED clientVars

\* The bell is answered whether or not it rang, which opens the gate.
Hush == irq' = FALSE /\ gate' = TRUE
Rearm ==
    /\ pc = "hush" /\ pc' = "await" /\ Hush
    /\ UNCHANGED <<level, cells, busy, door, cur, count>> /\ UNCHANGED plicVars /\ UNCHANGED clientVars

RouterStep ==
    \/ Await \/ Sweep \/ Drain \/ Served \/ Claim \/ Deliver \/ Mute \/ Complete \/ Rearm
    \/ \E c \in Clients : Serve(c)
ClientStep(c) == Receive(c) \/ DrainDevice(c) \/ Exhausted(c)
Next ==
    \/ \E l \in LineSet : Raise(l)
    \/ Trap \/ RouterStep
    \/ \E c \in Clients : Ask(c) \/ Die(c) \/ ClientStep(c)

-----------------------------------------------------------------------------
TypeOK ==
    /\ level \in [LineSet -> BOOLEAN] /\ prio \in [LineSet -> 0..1]
    /\ cells \in [LineSet -> Clients \cup {"idle"}]
    /\ life \in [Clients -> {"off", "asking", "held", "gone"}]
    /\ door \subseteq Clients

(***************************************************************************)
(* A muted line is owed to somebody who will let it through: it is busy,   *)
(* and its owner is rung, at work, has said it is done, or is gone and the *)
(* next sweep takes the line down.  A line that is not busy is let through.*)
(***************************************************************************)
MutedOwed ==
    \A l \in LineSet : Owned(l) /\ cur # l =>
        LET c == cells[l]
        IN  /\ wired[l]
            /\ prio[l] = 0 <=> busy[l]
            /\ busy[l] => rung[c] \/ work[c] # "idle" \/ back[c] \/ ~Alive(c)

\* Nothing is wired for a line with no owner, and no line is left claimed.
Unowned ==
    /\ \A l \in LineSet : ~Owned(l) => ~wired[l] /\ ~busy[l]
    /\ \A l \in LineSet : claimed[l] => cur = l

\* What a device has is drained while its line has an owner that lives (liveness).
Wanted(c) == life[c] = "held" /\ level[Line[c]]
Drained(c) == ~level[Line[c]] \/ ~Alive(c)
Attended == \A c \in Clients : Wanted(c) ~> Drained(c)
=============================================================================
