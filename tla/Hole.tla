------------------------------- MODULE Hole -------------------------------
(* A hole: the kernel's message queue, used by writers, readers, ringers,  *)
(* hushers and tasks that wait for it to drain, with the wait sites of its *)
(* four conditions.  One step is one section under the hole's lock or one  *)
(* call of the messenger; whatever lies between two of them is two steps.  *)
(* The tasks run the loops of the resource library: try, and if the hole   *)
(* is busy wait for the condition and try again.                           *)
EXTENDS Naturals, Sequences, FiniteSets, SequencesExt, FiniteSetsExt

CONSTANTS Writer, Reader, Husher, Drainer,  \* users, by what they do
          Ringer,                           \* writers that may also ring
          Bounded,                          \* users that wait with a deadline
          Sealer,                           \* who seals the hole
          MaxMessages, MaxBytes,            \* limits of this hole
          Lengths,                          \* lengths of messages
          RingCap,                          \* RING_CAP
          MaxSend,                          \* bound: pushes per writer
          None

User == Writer \cup Reader \cup Husher \cup Drainer

Task == User \cup {Sealer}

Dirs == {"Pull", "Push", "Empty", "Signal"}

Msg == Writer \X (1..MaxSend)

(* What the constants of an instance satisfy. *)
Assumptions ==
  /\ IsFiniteSet(User)
  /\ Ringer \subseteq Writer
  /\ Bounded \subseteq User
  /\ Sealer \notin User
  /\ MaxMessages \in Nat \ {0}
  /\ MaxBytes \in Nat \ {0}
  /\ RingCap \in Nat \ {0}
  /\ MaxSend \in Nat
  /\ Lengths \subseteq 1..MaxBytes
  /\ None \notin Msg

VARIABLES kind,     \* Pending: "Queue", "Rung" or "Dead"
          hands,    \* Queue.hands: slots, reserved or ready
          taking,   \* Queue.taking
          bytes,    \* Queue.bytes
          count,    \* Rung.count
          chain,    \* per condition, the tasks asleep on its site
          pend,     \* per condition, the beacon of its site
          pc,       \* per task, its place in the code
          len,      \* per writer, the length of the message it pushes
          sent,     \* per writer, how many pushes it has begun
          hold,     \* per reader, the message it has read and not finished
          todo,     \* per task, the wakes it still has to call, in order
          out       \* messages consumed, in order

hole == <<kind, hands, taking, bytes, count>>

site == <<chain, pend>>

vars == <<hole, site, pc, len, sent, hold, todo, out>>

(* The condition a user waits for, and the step it retries after that. *)
Cond(t) ==
  CASE t \in Writer  -> "Push"
    [] t \in Reader  -> "Pull"
    [] t \in Husher  -> "Signal"
    [] t \in Drainer -> "Empty"

Retry(t) ==
  CASE t \in Writer  -> "put"
    [] t \in Reader  -> "pull"
    [] t \in Husher  -> "hush"
    [] t \in Drainer -> "idle"

(* Where a wait that ended with its deadline leaves the user: push tries a *)
(* last time, the others return.                                           *)
Late(t) == IF t \in Writer THEN "last" ELSE "idle"

Slot == [msg : Msg, len : Lengths, ready : BOOLEAN]

Places == {"idle", "put", "last", "copy", "pull", "reading", "hush",
           "alive", "ready", "block", "beacon", "asleep", "woken", "wakes",
           "sealing"}

TypeOK ==
  /\ kind \in {"Queue", "Rung", "Dead"}
  /\ hands \in Seq(Slot)
  /\ Len(hands) <= MaxMessages
  /\ taking \in BOOLEAN
  /\ bytes \in 0..MaxBytes
  /\ count \in 0..RingCap
  /\ chain \in [Dirs -> Seq(User)]
  /\ pend \in [Dirs -> BOOLEAN]
  /\ pc \in [Task -> Places]
  /\ len \in [Writer -> Lengths]
  /\ sent \in [Writer -> 0..MaxSend]
  /\ hold \in [Reader -> Msg \cup {None}]
  /\ todo \in [Task -> Seq(Dirs)]
  /\ out \in Seq(Msg)

Init ==
  /\ kind = "Queue"
  /\ hands = <<>>
  /\ taking = FALSE
  /\ bytes = 0
  /\ count = 0
  /\ chain = [d \in Dirs |-> <<>>]
  /\ pend = [d \in Dirs |-> FALSE]
  /\ pc = [t \in Task |-> "idle"]
  /\ len \in [Writer -> {Min(Lengths)}]
  /\ sent = [w \in Writer |-> 0]
  /\ hold = [r \in Reader |-> None]
  /\ todo = [t \in Task |-> <<>>]
  /\ out = <<>>

-----------------------------------------------------------------------------
(* Conditions of the hole. *)

HeadReady == hands # <<>> /\ Head(hands).ready

Ready(d) ==
  \/ /\ kind = "Queue"
     /\ CASE d = "Pull"   -> HeadReady /\ ~taking
          [] d = "Push"   -> Len(hands) < MaxMessages /\ bytes < MaxBytes
          [] d = "Empty"  -> hands = <<>> /\ ~taking
          [] d = "Signal" -> FALSE
  \/ kind = "Rung" /\ d \in {"Pull", "Signal"} /\ count > 0

Goto(t, place) == pc' = [pc EXCEPT ![t] = place]

(* Leave a section of the hole with wakes to call, one after the other. *)
Then(t, dirs) ==
  /\ todo' = [todo EXCEPT ![t] = dirs]
  /\ Goto(t, IF dirs = <<>> THEN "idle" ELSE "wakes")

(* Leave it with Busy: the library waits and retries, or gives up once the *)
(* deadline has passed.                                                    *)
Busy(t) ==
  \/ Goto(t, "alive")
  \/ t \in Bounded /\ Goto(t, Late(t))

-----------------------------------------------------------------------------
(* Push: reserve a slot, copy the message in, commit or drop the slot. *)

Reserved(t) == [msg |-> <<t, sent[t]>>, len |-> len[t], ready |-> FALSE]

(* Position of the slot a writer has reserved, 0 if it is gone. *)
SlotOf(t) == SelectInSeq(hands, LAMBDA s : s.msg[1] = t /\ ~s.ready)

StartPush(t) ==
  /\ t \in Writer
  /\ pc[t] = "idle"
  /\ sent[t] < MaxSend
  /\ sent' = [sent EXCEPT ![t] = @ + 1]
  /\ \E n \in Lengths : len' = [len EXCEPT ![t] = n]
  /\ Goto(t, "put")
  /\ UNCHANGED <<hole, site, hold, todo, out>>

Full(n) == Len(hands) >= MaxMessages \/ n > MaxBytes - bytes

Reserve(t) ==
  /\ t \in Writer
  /\ pc[t] \in {"put", "last"}
  /\ \/ /\ kind = "Dead"
        /\ Goto(t, "idle")
        /\ UNCHANGED hole
     \/ /\ kind = "Rung" \/ (kind = "Queue" /\ Full(len[t]))
        /\ IF pc[t] = "last" THEN Goto(t, "idle") ELSE Busy(t)
        /\ UNCHANGED hole
     \/ /\ kind = "Queue"
        /\ ~Full(len[t])
        /\ hands' = Append(hands, Reserved(t))
        /\ bytes' = bytes + len[t]
        /\ Goto(t, "copy")
        /\ UNCHANGED <<kind, taking, count>>
  /\ UNCHANGED <<site, len, sent, hold, todo, out>>

CommitWaking(t, dirs) ==
  /\ t \in Writer
  /\ pc[t] = "copy"
  /\ \/ /\ kind = "Queue" /\ SlotOf(t) # 0
        /\ hands' = [hands EXCEPT ![SlotOf(t)].ready = TRUE]
        /\ Then(t, dirs)
     \/ /\ kind # "Queue" \/ SlotOf(t) = 0
        /\ Goto(t, "idle")
        /\ UNCHANGED <<hands, todo>>
  /\ UNCHANGED <<kind, taking, bytes, count, site, len, sent, hold, out>>

Commit(t) == CommitWaking(t, <<"Pull">>)

(* The copy from user memory fails: the reservation is dropped. *)
DropReservationGiving(t, n) ==
  /\ t \in Writer
  /\ pc[t] = "copy"
  /\ \/ /\ kind = "Queue" /\ SlotOf(t) # 0
        /\ hands' = RemoveAt(hands, SlotOf(t))
        /\ bytes' = bytes - n
        /\ Then(t, <<"Pull", "Empty", "Push">>)
     \/ /\ kind # "Queue" \/ SlotOf(t) = 0
        /\ Goto(t, "idle")
        /\ UNCHANGED <<hands, bytes, todo>>
  /\ UNCHANGED <<kind, taking, count, site, len, sent, hold, out>>

DropReservation(t) == DropReservationGiving(t, len[t])

-----------------------------------------------------------------------------
(* Pull: take the head in hand, copy it out, finish or give it back. *)

StartPull(t) ==
  /\ t \in Reader
  /\ pc[t] = "idle"
  /\ Goto(t, "pull")
  /\ UNCHANGED <<hole, site, len, sent, hold, todo, out>>

ReadIf(t, free) ==
  /\ t \in Reader
  /\ pc[t] = "pull"
  /\ \/ /\ kind = "Dead"
        /\ Goto(t, "idle")
        /\ UNCHANGED <<taking, hold>>
     \/ /\ kind = "Rung" \/ (kind = "Queue" /\ ~(free /\ HeadReady))
        /\ Busy(t)
        /\ UNCHANGED <<taking, hold>>
     \/ /\ kind = "Queue" /\ free /\ HeadReady
        /\ taking' = TRUE
        /\ hold' = [hold EXCEPT ![t] = Head(hands).msg]
        /\ Goto(t, "reading")
  /\ UNCHANGED <<kind, hands, bytes, count, site, len, sent, todo, out>>

(* As if a second reader could take the head in hand. *)
ReadTaken(t) == ReadIf(t, TRUE)

Read(t) == ReadIf(t, ~taking)

(* finish: the message has been copied out, or discarded as too long. *)
TakenWaking(t, dirs) ==
  /\ t \in Reader
  /\ pc[t] = "reading"
  /\ IF kind = "Queue" /\ taking
     THEN /\ taking' = FALSE
          /\ hands' = Tail(hands)
          /\ bytes' = bytes - Head(hands).len
     ELSE UNCHANGED <<taking, hands, bytes>>
  /\ out' = Append(out, hold[t])
  /\ hold' = [hold EXCEPT ![t] = None]
  /\ Then(t, dirs)
  /\ UNCHANGED <<kind, count, site, len, sent>>

(* As if one of the three wakes were forgotten. *)
TakenNoPull(t) == TakenWaking(t, <<"Empty", "Push">>)

TakenNoPush(t) == TakenWaking(t, <<"Empty", "Pull">>)

Taken(t) == TakenWaking(t, <<"Empty", "Push", "Pull">>)

(* The copy to user memory fails: the message stays in the queue. *)
(* As if it were dropped. *)
BackDropping(t) ==
  /\ t \in Reader
  /\ pc[t] = "reading"
  /\ IF kind = "Queue"
     THEN /\ taking' = FALSE
          /\ hands' = Tail(hands)
          /\ bytes' = bytes - Head(hands).len
     ELSE UNCHANGED <<taking, hands, bytes>>
  /\ hold' = [hold EXCEPT ![t] = None]
  /\ Then(t, <<"Pull">>)
  /\ UNCHANGED <<kind, count, site, len, sent, out>>

Back(t) ==
  /\ t \in Reader
  /\ pc[t] = "reading"
  /\ taking' = IF kind = "Queue" THEN FALSE ELSE taking
  /\ hold' = [hold EXCEPT ![t] = None]
  /\ Then(t, <<"Pull">>)
  /\ UNCHANGED <<kind, hands, bytes, count, site, len, sent, out>>

-----------------------------------------------------------------------------
(* Signals: ring counts up on an empty queue, hush counts down. *)

RingUpTo(t, most, dirs) ==
  /\ t \in Ringer
  /\ pc[t] = "idle"
  /\ \/ /\ kind = "Queue" /\ hands = <<>> /\ ~taking
        /\ kind' = "Rung"
        /\ count' = 1
     \/ /\ kind = "Rung" /\ count <= most
        /\ count' = count + 1
        /\ UNCHANGED kind
  /\ Then(t, dirs)
  /\ UNCHANGED <<hands, taking, bytes, site, len, sent, hold, out>>

Ring(t) == RingUpTo(t, RingCap - 1, <<"Pull", "Signal">>)

HushWaking(t, dirs) ==
  /\ t \in Husher
  /\ pc[t] = "hush"
  /\ \/ /\ kind = "Rung"
        /\ count' = count - 1
        /\ kind' = IF count > 1 THEN "Rung" ELSE "Queue"
        /\ Then(t, dirs)
     \/ /\ kind # "Rung"
        /\ Goto(t, "idle")
        /\ UNCHANGED <<kind, count, todo>>
  /\ UNCHANGED <<hands, taking, bytes, site, len, sent, hold, out>>

Hush(t) == HushWaking(t, <<"Push", "Empty">>)

-----------------------------------------------------------------------------
(* Waiting: look if the hole is alive, look if it is ready, then block.    *)
(* These are three sections; anything may happen between them.             *)

StartWait(t) ==
  /\ t \in Drainer \cup Husher
  /\ pc[t] = "idle"
  /\ Goto(t, "alive")
  /\ UNCHANGED <<hole, site, len, sent, hold, todo, out>>

WaitAlive(t) ==
  /\ t \in User
  /\ pc[t] = "alive"
  /\ Goto(t, IF kind = "Dead" THEN "idle" ELSE "ready")
  /\ UNCHANGED <<hole, site, len, sent, hold, todo, out>>

WaitReady(t) ==
  /\ t \in User
  /\ pc[t] = "ready"
  /\ Goto(t, IF Ready(Cond(t)) THEN Retry(t) ELSE "block")
  /\ UNCHANGED <<hole, site, len, sent, hold, todo, out>>

Block(t) ==
  /\ t \in User
  /\ pc[t] = "block"
  /\ LET d == Cond(t)
     IN IF pend[d]
        THEN /\ pend' = [pend EXCEPT ![d] = FALSE]
             /\ Goto(t, "beacon")
             /\ UNCHANGED chain
        ELSE /\ chain' = [chain EXCEPT ![d] = Append(@, t)]
             /\ Goto(t, "asleep")
             /\ UNCHANGED pend
  /\ UNCHANGED <<hole, len, sent, hold, todo, out>>

(* A beacon ended the wait at once: it answers what it sees now. *)
WaitBeacon(t) ==
  /\ t \in User
  /\ pc[t] = "beacon"
  /\ Goto(t, IF Ready(Cond(t)) THEN Retry(t) ELSE "woken")
  /\ UNCHANGED <<hole, site, len, sent, hold, todo, out>>

(* A wait that slept answers false, and the library asks again if there is *)
(* time left.                                                              *)
WaitAgain(t) ==
  /\ t \in User
  /\ pc[t] = "woken"
  /\ \/ Goto(t, "alive")
     \/ t \in Bounded /\ Goto(t, Late(t))
  /\ UNCHANGED <<hole, site, len, sent, hold, todo, out>>

(* redeem: the deadline of a sleeper has come. *)
Redeem(t) ==
  /\ t \in Bounded
  /\ pc[t] = "asleep"
  /\ chain' = [chain EXCEPT ![Cond(t)] = Remove(@, t)]
  /\ Goto(t, "woken")
  /\ UNCHANGED <<hole, pend, len, sent, hold, todo, out>>

-----------------------------------------------------------------------------
(* wake: hand the event to the first sleeper, or leave a beacon. *)
Wake(t) ==
  /\ pc[t] = "wakes"
  /\ LET d    == Head(todo[t])
         next == IF Len(todo[t]) = 1 THEN "idle" ELSE "wakes"
     IN IF chain[d] = <<>>
        THEN /\ pend' = [pend EXCEPT ![d] = TRUE]
             /\ Goto(t, next)
             /\ UNCHANGED chain
        ELSE /\ chain' = [chain EXCEPT ![d] = Tail(@)]
             /\ pc' = [pc EXCEPT ![t] = next, ![Head(chain[d])] = "woken"]
             /\ UNCHANGED pend
  /\ todo' = [todo EXCEPT ![t] = Tail(@)]
  /\ UNCHANGED <<hole, len, sent, hold, out>>

(* seal: the queue is gone, then the sites are wiped one after the other. *)
Seal(t) ==
  /\ t = Sealer
  /\ pc[t] = "idle"
  /\ kind # "Dead"
  /\ kind' = "Dead"
  /\ hands' = <<>>
  /\ taking' = FALSE
  /\ bytes' = 0
  /\ count' = 0
  /\ todo' = [todo EXCEPT ![t] = <<"Pull", "Empty", "Push", "Signal">>]
  /\ Goto(t, "sealing")
  /\ UNCHANGED <<site, len, sent, hold, out>>

Wipe(t) ==
  /\ t = Sealer
  /\ pc[t] = "sealing"
  /\ LET d == Head(todo[t])
     IN /\ chain' = [chain EXCEPT ![d] = <<>>]
        /\ pend' = [pend EXCEPT ![d] = FALSE]
        /\ pc' = [u \in Task |->
                    IF u \in Range(chain[d]) THEN "woken"
                    ELSE IF u = t /\ Len(todo[t]) = 1 THEN "idle" ELSE pc[u]]
  /\ todo' = [todo EXCEPT ![t] = Tail(@)]
  /\ UNCHANGED <<hole, len, sent, hold, out>>

-----------------------------------------------------------------------------
(* Steps a task takes once it is in a call. *)
Proceed(t) ==
  \/ Reserve(t) \/ Commit(t) \/ DropReservation(t)
  \/ Read(t) \/ Taken(t) \/ Back(t) \/ Hush(t)
  \/ WaitAlive(t) \/ WaitReady(t) \/ Block(t) \/ WaitBeacon(t) \/ WaitAgain(t)
  \/ Wake(t) \/ Wipe(t)

Next ==
  \E t \in Task :
    \/ StartPush(t) \/ StartPull(t) \/ StartWait(t) \/ Ring(t) \/ Seal(t)
    \/ Redeem(t)
    \/ Proceed(t)

Spec == Init /\ [][Next]_vars

(* Fairness.  A task in a call goes on with it: its hart executes.  Readers *)
(* are servers: they start the next pull, and their buffer is in the end    *)
(* good.  Writers push and ring as they like, nobody has to seal.           *)
FairSpec ==
  /\ Spec
  /\ \A t \in Task : WF_vars(Proceed(t))
  /\ \A t \in Reader : WF_vars(StartPull(t)) /\ SF_vars(Taken(t))

-----------------------------------------------------------------------------
(* Properties. *)

ReadyPrefix == SelectInSeq(hands, LAMBDA s : ~s.ready)

(* Messages a reader may have next: the ready slots in front of the first  *)
(* reservation, or what was in hand when the hole was sealed.              *)
Available ==
  IF kind = "Dead"
  THEN SetToSeq({hold[r] : r \in Reader} \ {None})
  ELSE LET n == IF ReadyPrefix = 0 THEN Len(hands) ELSE ReadyPrefix - 1
       IN [i \in 1..n |-> hands[i].msg]

Queue ==
  INSTANCE Fifo WITH Cap <- MaxMessages, in <- out \o Available,
                     open <- (kind # "Dead")

(* The hole implements a bounded FIFO: slots are reserved, committed and   *)
(* dropped out of order, read and given back, and still each message comes *)
(* out once and in order, with seal at any point.                          *)
FifoStep == [Queue!Next]_(Queue!vars)

Fifo == Queue!Init /\ [][FifoStep]_vars

(* The account of bytes is exact after any order of reserve, commit, drop  *)
(* and take, so a hole that drains has its whole budget back.              *)
BytesExact ==
  bytes = FoldSeq(LAMBDA s, n : s.len + n, 0, hands)

(* In a live hole the head is in the hands of exactly the reader that set  *)
(* taking: no other reader reads, finishes or gives back that message.     *)
OneReader ==
  kind # "Dead" =>
    LET reading == {r \in Reader : pc[r] = "reading"}
    IN /\ Cardinality(reading) = (IF taking THEN 1 ELSE 0)
       /\ \A r \in reading : HeadReady /\ hold[r] = Head(hands).msg

(* Some task will look at the condition before it sleeps on it, or will    *)
(* call the wake that reaches a sleeper.                                   *)
Owed(d) ==
  \E t \in Task :
    \/ d \in Range(todo[t])
    \/ /\ t \in User /\ Cond(t) = d
       /\ \/ pc[t] \in {Retry(t), "alive", "ready", "beacon", "woken"} \ {"idle"}
          \/ pc[t] = "block" /\ pend[d]

Heard(d) == Ready(d) /\ chain[d] # <<>> => Owed(d)

(* No reader sleeps on a hole that has a message ready for it, unless      *)
(* another reader is about to look or a wake is on its way.                *)
PullHeard == Heard("Pull")

(* A ringing hole does not let the task that waits for its signal sleep. *)
SignalHeard == Heard("Signal")

(* A task that waits for the hole to drain does not sleep on once it has. *)
EmptyHeard == Heard("Empty")

(* No writer sleeps on a drained hole: each way to drain it (taken, a      *)
(* dropped reservation, hush) wakes a writer.                              *)
DrainedHeard == Ready("Empty") /\ chain["Push"] # <<>> => Owed("Push")

(* A committed message is consumed, unless the hole is sealed. *)
Committed(m) == \E i \in DOMAIN hands : hands[i].msg = m /\ hands[i].ready
Consumed(m) == m \in Range(out) \/ kind = "Dead"
Served == \A m \in Msg : Committed(m) ~> Consumed(m)

(* With readers at work a writer does not sleep for ever. *)
Asleep(w) == pc[w] = "asleep"
Woken(w) == pc[w] # "asleep" \/ kind = "Dead"
WriterWoken == \A w \in Writer : Asleep(w) ~> Woken(w)

=============================================================================
