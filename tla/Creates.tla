------------------------------ MODULE Creates ------------------------------
(***************************************************************************)
(* Creation requests of the system's Assembly (system/assembly.rs,         *)
(* system/launch, control/endpoint/construction.rs): a caller names each   *)
(* request by an id of its own, so that a request whose answer was lost    *)
(* can be sent again, looked up or cancelled.  The system is one thread    *)
(* that runs its frame over and over: dispatch the requests, construct,    *)
(* reap, run the hooks of the instances, report.  Instances (Instance)     *)
(* appear here by the state that reporting looks at.                       *)
(***************************************************************************)
EXTENDS Naturals, Sequences, SequencesExt

CONSTANTS Scopes,      \* (entry, caller) pairs
          MaxId,       \* bound: ids a caller uses, 1..MaxId
          Inputs,      \* what a request asks for, the image's bytes aside
          Prints,      \* the fingerprints of image bytes
          Window,      \* how far back settled records are kept (64)
          RecordCap,   \* records kept (256)
          WorkCap,     \* jobs queued (272)
          MaxJob,      \* bound: construct jobs made
          Pipelined    \* whether a caller sends on while a create of its own is queued

VARIABLES creates,     \* Jobs.creates, in order
          marks,       \* Jobs.create_watermarks: the highest id of each scope
          closed,      \* Jobs.closed_create_scopes
          work,        \* Jobs.work: constructs, and jobs of other kinds
          launches,    \* Jobs.launches, with the state of the instance
          next,        \* the next job's id
          stage,       \* where the frame is
          gate,        \* the constructor grant of each scope
          told,        \* the last answer to a cancel
          built,       \* history: the keys an instance was made for
          voided       \* history: the keys that were cancelled

creVars == <<creates, marks, closed, work, launches, next, stage, gate, told, built, voided>>

Keys == [scope : Scopes, id : 1..MaxId]
Said(state, of) == [state |-> state, of |-> of]
Pending == Said("pending", 0)
Cancelled == Said("cancelled", 0)
Failed == Said("failed", 0)
Other == [kind |-> "other"]

Init ==
    /\ creates = << >> /\ marks = [s \in Scopes |-> 0] /\ closed = {}
    /\ work = << >> /\ launches = {} /\ next = 1 /\ stage = "dispatch"
    /\ gate = [s \in Scopes |-> "open"] /\ told = << >>
    /\ built = {} /\ voided = {}

TypeOK ==
    /\ \A i, j \in DOMAIN creates : creates[i].key = creates[j].key => i = j
    /\ Len(creates) <= RecordCap /\ Len(work) <= WorkCap
    /\ marks \in [Scopes -> 0..MaxId] /\ closed \subseteq Scopes
    /\ \A l, m \in launches : l.key = m.key => l = m
    /\ stage \in {"dispatch", "construct", "reap", "hooks"}
    /\ gate \in [Scopes -> {"open", "revoked", "gone"}]

----------------------------------------------------------------------------
(* The records *)

Position(c, k) == {i \in DOMAIN c : c[i].key = k}
Known(k) == Position(creates, k) # {}
RecordOf(c, k) == c[CHOOSE i \in Position(c, k) : TRUE]
Answer(c, k, said) == [i \in DOMAIN c |-> IF c[i].key = k THEN [c[i] EXCEPT !.said = said] ELSE c[i]]

PruneCreates(k) ==
    SelectSeq(creates, LAMBDA r : \/ r.key.scope # k.scope
                                  \/ r.key.id + Window > k.id
                                  \/ r.said.state = "pending")

Settled(c) ==
    {s \in closed : \A i \in DOMAIN c : c[i].key.scope = s => c[i].said.state # "pending"}
\* sweep_closed_create_scopes, on the records as c leaves them.
Sweep(c) ==
    /\ creates' = SelectSeq(c, LAMBDA r : r.key.scope \notin Settled(c))
    /\ marks' = [s \in Scopes |-> IF s \in Settled(c) THEN 0 ELSE marks[s]]
    /\ closed' = closed \ Settled(c)

Record(k, i, said, cancelled) ==
    [key |-> k, construct |-> 0, prepare |-> "none", input |-> i, print |-> 0,
     said |-> said, cancelled |-> cancelled]

Fresh(k) == k.id > marks[k.scope] /\ Len(PruneCreates(k)) < RecordCap

----------------------------------------------------------------------------
(* dispatch *)

Constructs == {i \in DOMAIN work : work[i].kind = "construct"}
Waits(k) == \A i \in Constructs : work[i].key.scope = k.scope => work[i].key = k

Enqueue(c, k, p) ==
    IF Len(work) >= WorkCap
    THEN creates' = Answer(c, k, Failed) /\ UNCHANGED <<work, next>>
    ELSE /\ next <= MaxJob /\ next' = next + 1
         /\ work' = Append(work, [kind |-> "construct", job |-> next, key |-> k, print |-> p])
         /\ creates' = [i \in DOMAIN c |-> IF c[i].key = k THEN [c[i] EXCEPT !.construct = next]
                                           ELSE c[i]]

Build(k, input, p) ==
    /\ stage = "dispatch" /\ gate[k.scope] = "open" /\ k.scope \notin closed
    /\ Pipelined \/ (Waits(k) /\ \A i \in Constructs : work[i].key # k)
    /\ \/ /\ Known(k)
          /\ LET r == RecordOf(creates, k) IN ~r.cancelled /\ r.input = input
          /\ Enqueue(creates, k, p) /\ UNCHANGED marks
       \/ /\ ~Known(k) /\ ~Fresh(k)
          /\ creates' = PruneCreates(k) /\ UNCHANGED <<marks, work, next>>
       \/ /\ ~Known(k) /\ Fresh(k)
          /\ marks' = [marks EXCEPT ![k.scope] = k.id]
          /\ Enqueue(Append(PruneCreates(k), Record(k, input, Pending, FALSE)), k, p)
    /\ UNCHANGED <<closed, launches, stage, gate, told, built, voided>>

Void(c, k) == [i \in DOMAIN c |-> IF c[i].key = k THEN [c[i] EXCEPT !.cancelled = TRUE] ELSE c[i]]

\* Of a key nobody has seen, a cancel leaves a record that refuses it later.
CancelUnknown(k) ==
    /\ ~Known(k)
    /\ IF Fresh(k)
       THEN /\ creates' = Append(PruneCreates(k), Record(k, 0, Cancelled, TRUE))
            /\ marks' = [marks EXCEPT ![k.scope] = k.id]
            /\ told' = [key |-> k, said |-> Cancelled] /\ voided' = voided \cup {k}
       ELSE /\ creates' = PruneCreates(k) /\ told' = [key |-> k, said |-> Failed]
            /\ UNCHANGED <<marks, voided>>
    /\ UNCHANGED <<closed, work, launches>>

CancelLaunched(k) ==
    \E l \in launches :
        /\ l.key = k
        /\ launches' = (launches \ {l}) \cup {IF l.at = "dead" THEN l ELSE [l EXCEPT !.at = "stopping"]}
        /\ LET said == Said("pending", RecordOf(creates, k).said.of) IN
           /\ creates' = Answer(Void(creates, k), k, said)
           /\ told' = [key |-> k, said |-> said]
        /\ UNCHANGED <<marks, closed, work>>

Queued(k) ==
    {i \in DOMAIN work : /\ work[i].kind = "construct" /\ work[i].key = k
                         /\ work[i].job = RecordOf(creates, k).construct}
\* The answer is read at the position the construct had in the queue of work.
CancelQueued(k) ==
    /\ ~\E l \in launches : l.key = k
    /\ \E i \in Queued(k) :
         /\ work' = RemoveAt(work, i)
         /\ Sweep(Answer(Void(creates, k), k, Cancelled))
         /\ told' = [key |-> k, said |-> IF i \in DOMAIN creates' THEN creates'[i].said
                                         ELSE Said("panic", 0)]
    /\ UNCHANGED launches

CancelIdle(k) ==
    /\ ~\E l \in launches : l.key = k
    /\ Queued(k) = {} /\ creates' = Answer(Void(creates, k), k, Cancelled)
    /\ told' = [key |-> k, said |-> Cancelled]
    /\ UNCHANGED <<marks, closed, work, launches>>

CancelCreate(k) ==
    /\ stage = "dispatch" /\ gate[k.scope] = "open" /\ (Pipelined \/ Waits(k))
    /\ \/ CancelUnknown(k)
       \/ /\ Known(k) /\ voided' = voided \cup {k}
          /\ CancelLaunched(k) \/ CancelQueued(k) \/ CancelIdle(k)
    /\ UNCHANGED <<next, stage, gate, built>>

\* Lifecycle, phase and command jobs come and go in the same queue.
OtherJob ==
    /\ stage = "dispatch"
    /\ \/ Len(work) < WorkCap /\ work' = Append(work, Other)
       \/ \E i \in DOMAIN work : work[i] = Other /\ work' = RemoveAt(work, i)
    /\ UNCHANGED <<creates, marks, closed, launches, next, stage, gate, told, built, voided>>

----------------------------------------------------------------------------
(* construct *)

Advance(from, to) ==
    stage = from /\ stage' = to
    /\ UNCHANGED <<creates, marks, closed, work, launches, next, gate, told, built, voided>>

\* consume_construct with an error.
Failing(k) ==
    IF Known(k) /\ ~RecordOf(creates, k).cancelled /\ RecordOf(creates, k).said.state = "pending"
    THEN Answer(creates, k, Failed) ELSE creates
Voided(k) == Known(k) /\ RecordOf(creates, k).cancelled
Replayed(k) == Known(k) /\ RecordOf(creates, k).print # 0

Refuses(k) == Replayed(k) \/ Voided(k)

\* The image cannot be read, or the system is closing (settle).
Refuse(w) ==
    /\ Sweep(IF Voided(w.key) THEN Answer(creates, w.key, Cancelled) ELSE Failing(w.key))
    /\ UNCHANGED <<launches, built>>
SnapshotFails(w) == Sweep(Failing(w.key)) /\ UNCHANGED <<launches, built>>
\* A request seen before: its result is sent again, or the bytes differ.
Replay(w) ==
    /\ Refuses(w.key)
    /\ Sweep(IF Voided(w.key) THEN Answer(creates, w.key, Cancelled)
             ELSE IF RecordOf(creates, w.key).print # w.print THEN Failing(w.key) ELSE creates)
    /\ UNCHANGED <<launches, built>>
Construct(w, ok) ==
    /\ ~Refuses(w.key)
    /\ LET c == [i \in DOMAIN creates |->
                   IF creates[i].key = w.key THEN [creates[i] EXCEPT !.print = w.print]
                   ELSE creates[i]]
       IN IF ok
          THEN /\ launches' = launches \cup {[job |-> w.job, key |-> w.key, at |-> "starting",
                                              replied |-> FALSE]}
               /\ built' = built \cup {w.key} /\ Sweep(c)
          ELSE /\ Sweep(IF Known(w.key) /\ ~Voided(w.key)
                           /\ RecordOf(c, w.key).said.state = "pending"
                        THEN Answer(c, w.key, Failed) ELSE c)
               /\ UNCHANGED <<launches, built>>
ConstructOne ==
    /\ stage = "construct" /\ Constructs # {}
    /\ LET i == CHOOSE j \in Constructs : \A m \in Constructs : j <= m IN
       /\ work' = RemoveAt(work, i)
       /\ \/ Refuse(work[i]) \/ SnapshotFails(work[i]) \/ Replay(work[i])
          \/ \E ok \in BOOLEAN : Construct(work[i], ok)
    /\ UNCHANGED <<next, stage, gate, told, voided>>

----------------------------------------------------------------------------
(* reap, hooks, report *)

Move(l, at) == launches' = (launches \ {l}) \cup {[l EXCEPT !.at = at]}

\* The owner or the main task has ended, or a claim has expired.
Reap(l) ==
    /\ stage = "reap" /\ l.at \in {"starting", "debarked"} /\ Move(l, "stopping")
    /\ UNCHANGED <<creates, marks, closed, work, next, stage, gate, told, built, voided>>

\* The hook of each instance is run once in a frame; "failed" waits for the next.
PrepareHook(l, result) ==
    /\ stage = "hooks" /\ l.at = "starting"
    /\ LET Mark(p) == [i \in DOMAIN creates |->
                         IF creates[i].key = l.key THEN [creates[i] EXCEPT !.prepare = p]
                         ELSE creates[i]]
       IN CASE result = "pending" -> Move(l, "waiting") /\ creates' = Mark("begun")
            [] result = "done" -> Move(l, "debarked") /\ creates' = Mark("done")
            [] result = "error" -> Move(l, "failed") /\ creates' = Mark("begun")
    /\ UNCHANGED <<marks, closed, work, next, stage, gate, told, built, voided>>
RetireHook(l) ==
    /\ stage = "hooks" /\ l.at = "stopping" /\ Move(l, "dead")
    /\ UNCHANGED <<creates, marks, closed, work, next, stage, gate, told, built, voided>>

\* The constructor step of the Retire plan of a scope's caller.
RetireScope(s) ==
    /\ stage = "hooks" /\ gate[s] # "gone"
    /\ LET open == \E i \in DOMAIN creates : creates[i].key.scope = s
                                             /\ creates[i].said.state = "pending"
           swept == Settled(creates)
       IN /\ closed' = IF open THEN closed \cup {s} ELSE closed \ swept
          /\ gate' = [gate EXCEPT ![s] = IF open THEN "revoked" ELSE "gone"]
          /\ creates' = SelectSeq(creates, LAMBDA r : r.key.scope \notin swept)
          /\ marks' = [x \in Scopes |-> IF x \in swept THEN 0 ELSE marks[x]]
    /\ UNCHANGED <<work, launches, next, stage, told, built, voided>>

\* What reporting makes of a record whose launch is l.
Reported(r, l) ==
    IF l.at = "dead" THEN IF r.cancelled THEN Cancelled ELSE r.said
    ELSE IF l.replied \/ r.cancelled \/ l.at \in {"starting", "waiting"}
            \/ (l.at = "debarked" /\ r.prepare = "begun") THEN r.said
    ELSE IF l.at = "debarked" THEN Said("completed", l.job) ELSE Failed
Completed ==
    /\ stage = "hooks" /\ stage' = "dispatch"
    /\ launches' = {[l EXCEPT !.at = CASE @ = "waiting" -> "starting"
                                       [] @ = "failed" -> "stopping"
                                       [] OTHER -> @,
                              !.replied = @ \/ l.at \notin {"starting", "waiting"}]
                    : l \in {m \in launches : m.at # "dead"}}
    /\ Sweep([i \in DOMAIN creates |->
                LET L == {l \in launches : l.key = creates[i].key} IN
                IF L = {} THEN creates[i]
                ELSE [creates[i] EXCEPT !.said = Reported(creates[i], CHOOSE l \in L : TRUE)]])
    /\ UNCHANGED <<work, next, gate, told, built, voided>>

Next ==
    \/ \E k \in Keys : CancelCreate(k) \/ \E i \in Inputs, p \in Prints : Build(k, i, p)
    \/ OtherJob \/ ConstructOne \/ Completed
    \/ \E l \in launches : Reap(l) \/ RetireHook(l)
                           \/ \E r \in {"pending", "done", "error"} : PrepareHook(l, r)
    \/ \E s \in Scopes : RetireScope(s)
    \/ Advance("dispatch", "construct") \/ (Constructs = {} /\ Advance("construct", "reap"))
    \/ Advance("reap", "hooks")

Spec == Init /\ [][Next]_creVars

----------------------------------------------------------------------------
(* Properties *)

\* A request is carried out at most once, however often it is sent, and not at
\* all once it was cancelled, though its record may be gone by then
\* (admit_create, prune_creates, construct).
OnceStep ==
    \A l \in launches' \ launches :
        l.job \notin {m.job : m \in launches} => l.key \notin built \cup voided

=============================================================================
