------------------------------- MODULE Watches -------------------------------
(***************************************************************************)
(* Subscriptions to the operator's tree.  A client makes an event hole,    *)
(* ships it to the operator and asks for a subtree; the operator keeps a   *)
(* list of subscribers and pushes every change into the holes whose        *)
(* filter covers its path, skipping a full one and dropping a dead one.    *)
(* The client takes events in order of their number.  A path is a sequence *)
(* of names.                                                               *)
(***************************************************************************)
EXTENDS Naturals, Sequences, SequencesExt, FiniteSets

CONSTANTS
    Watchers,   \* the subscriptions asked for
    Who,        \* the task that asks for each
    Filter,     \* the path each covers
    Roads,      \* the paths that change
    MaxSeq,     \* the most changes
    QueueCap    \* the most events a hole queues

VARIABLES
    watch,      \* the client's side: "none", "asking", "said", "open" or "dropped"
    said,       \* the operator's answer to each request
    list,       \* the operator's subscribers, in order
    queue,      \* the event holes
    changes,    \* the path of each change published; its number is its place
    seq,        \* the number of the last event each client took
    taken,      \* the events each client took
    since,      \* the number of the last change when each joined
    skipped     \* the events each full hole missed

watchesVars == <<watch, said, list, queue, changes, seq, taken, since, skipped>>

Assumptions ==
    /\ MaxSeq \in Nat /\ QueueCap \in Nat \ {0}
    /\ \A w \in Watchers : Filter[w] \in Seq(STRING)

watchesInit ==
    /\ watch = [w \in Watchers |-> "none"]
    /\ said = [w \in Watchers |-> "none"]
    /\ list = <<>>
    /\ queue = [w \in Watchers |-> <<>>]
    /\ changes = <<>>
    /\ seq = [w \in Watchers |-> 0]
    /\ taken = [w \in Watchers |-> <<>>]
    /\ since = [w \in Watchers |-> 0]
    /\ skipped = [w \in Watchers |-> {}]

Alive(w) == watch[w] \in {"asking", "open"}

(* A filter covers a path at or below it.                                                   *)
Covers(filter, road) == IsPrefix(filter, road)

(***************************************************************************)
(* The client.                                                             *)
(***************************************************************************)
Ask(w) ==
    /\ watch[w] = "none"
    /\ watch' = [watch EXCEPT ![w] = "asking"]
    /\ UNCHANGED <<said, list, queue, changes, seq, taken, since, skipped>>

(* The answer decides: the hole of a refused watch is sealed with it.                       *)
Answered(w) ==
    /\ watch[w] = "asking" /\ said[w] # "none"
    /\ watch' = [watch EXCEPT ![w] = IF said[w] = "OK" THEN "open" ELSE "dropped"]
    /\ queue' = IF said[w] = "OK" THEN queue ELSE [queue EXCEPT ![w] = <<>>]
    /\ UNCHANGED <<said, list, changes, seq, taken, since, skipped>>

(* The watch is dropped, or its request ran out of time: the hole is sealed.                *)
Drop(w) ==
    /\ Alive(w)
    /\ watch' = [watch EXCEPT ![w] = "dropped"]
    /\ queue' = [queue EXCEPT ![w] = <<>>]
    /\ UNCHANGED <<said, list, changes, seq, taken, since, skipped>>

(* An event is taken when its number advances and its path is covered, and skipped          *)
(* otherwise.                                                                               *)
Accepts(w, ev) == ev.seq > seq[w] /\ Covers(Filter[w], ev.road)
Next(w) ==
    /\ watch[w] = "open" /\ queue[w] # <<>>
    /\ LET ev == Head(queue[w])
       IN  IF Accepts(w, ev)
           THEN /\ seq' = [seq EXCEPT ![w] = ev.seq]
                /\ taken' = [taken EXCEPT ![w] = Append(@, ev)]
           ELSE UNCHANGED <<seq, taken>>
    /\ queue' = [queue EXCEPT ![w] = Tail(@)]
    /\ UNCHANGED <<watch, said, list, changes, since, skipped>>

(***************************************************************************)
(* The operator.                                                           *)
(***************************************************************************)
Alike(live, w) == \E i \in DOMAIN live : Who[live[i]] = Who[w] /\ Filter[live[i]] = Filter[w]

(* subscribe: an event hole that is gone, or a task's second watch of one path, is refused; *)
(* a join first forgets the subscribers whose holes are gone.                               *)
Join(w) ==
    LET live == SelectSeq(list, Alive)
    IN  /\ watch[w] \in {"asking", "dropped"} /\ said[w] = "none"
        /\ IF ~Alive(w)
           THEN said' = [said EXCEPT ![w] = "DENIED"] /\ UNCHANGED <<list, since>>
           ELSE IF Alike(live, w)
           THEN said' = [said EXCEPT ![w] = "DENIED"] /\ list' = live /\ UNCHANGED since
           ELSE /\ said' = [said EXCEPT ![w] = "OK"]
                /\ list' = Append(live, w)
                /\ since' = [since EXCEPT ![w] = Len(changes)]
        /\ UNCHANGED <<watch, queue, changes, seq, taken, skipped>>

Stays(w, road) == ~Covers(Filter[w], road) \/ Alive(w)

(* publish: the change takes the next number; a covered hole that is full misses it, one    *)
(* that is gone is taken off the list.                                                      *)
Publish(road) ==
    LET n == Len(changes) + 1
        ev == [seq |-> n, road |-> road]
        hit == {w \in ToSet(list) : Covers(Filter[w], road) /\ Alive(w)}
        room == {w \in hit : Len(queue[w]) < QueueCap}
        stays(w) == Stays(w, road)
    IN  /\ n <= MaxSeq
        /\ changes' = Append(changes, road)
        /\ queue' = [w \in Watchers |-> IF w \in room THEN Append(queue[w], ev) ELSE queue[w]]
        /\ skipped' = [w \in Watchers |->
                          IF w \in hit \ room THEN skipped[w] \cup {n} ELSE skipped[w]]
        /\ list' = SelectSeq(list, stays)
        /\ UNCHANGED <<watch, said, seq, taken, since>>

watchesNext ==
    \/ \E w \in Watchers : Ask(w) \/ Answered(w) \/ Drop(w) \/ Next(w) \/ Join(w)
    \/ \E road \in Roads : Publish(road)

-----------------------------------------------------------------------------
TypeOK ==
    /\ ToSet(list) \subseteq Watchers
    /\ \A w \in Watchers : Len(queue[w]) <= QueueCap /\ seq[w] <= Len(changes)

(* A client whose watch is open is on the operator's list: an answer of OK is kept until    *)
(* the watch is dropped (watch.rs join, publish).                                           *)
Subscribed == \A w \in Watchers : watch[w] = "open" => w \in ToSet(list)

(* Every change under an open watch's path since it joined was taken, is queued, or was     *)
(* missed by a full hole; and no other is (watch.rs publish, client watch.rs accept).       *)
AllEvents ==
    \A w \in Watchers : watch[w] = "open" =>
        {n \in since[w] + 1 .. Len(changes) : Covers(Filter[w], changes[n])}
            = {e.seq : e \in ToSet(taken[w] \o queue[w])} \cup skipped[w]

(* Events are taken in the order of the changes, each once and as it was published.         *)
InTurn ==
    \A w \in Watchers : \A i \in DOMAIN taken[w] :
        /\ taken[w][i].road = changes[taken[w][i].seq]
        /\ i > 1 => taken[w][i - 1].seq < taken[w][i].seq

(* A task watches a path at most once (watch.rs join).                                      *)
OneWatch ==
    \A i, j \in DOMAIN list :
        Who[list[i]] = Who[list[j]] /\ Filter[list[i]] = Filter[list[j]] => i = j
=============================================================================
