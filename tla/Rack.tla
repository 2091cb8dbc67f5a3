-------------------------------- MODULE Rack --------------------------------
(***************************************************************************)
(* A rack: a ring of Cap slots on a page two programs share, with one      *)
(* writer, one reader and two signal bits of the page, bell (something to  *)
(* read) and space (something was read).  Every step is one atomic access  *)
(* to the page, half of a payload copy, or one signal call.  The writer    *)
(* sends the numbers 1, 2, ...; a payload is a pair of halves so that a    *)
(* copy taken while it is overwritten can be told from a whole one.        *)
(*                                                                         *)
(* A careful writer keeps its frame until there is room, as the UART and   *)
(* the terminal do (send_when_ready); another writes at once and lets Mode *)
(* say which message a full rack loses.                                    *)
(***************************************************************************)
EXTENDS Naturals, Sequences

CONSTANTS Cap,       \* CAP, the slots of the ring
          Mode,      \* Mode::Oldest or Mode::Newest, as "oldest", "newest"
          Careful,   \* the writer calls send_when_ready
          MaxSeq,    \* bound on the messages sent
          Reopens    \* bound on the times the reader is made anew

VARIABLES write, read, lost, dropped, slots, bell, space,
          wpc, frame, rpc, nextSeq, skipped, copy, got, reopened

rackVars == <<write, read, lost, dropped, slots, bell, space,
              wpc, frame, rpc, nextSeq, skipped, copy, got, reopened>>
pageVars == <<write, read, lost, dropped, slots>>
writerVars == <<wpc, frame>>
readerVars == <<rpc, nextSeq, skipped, copy, got, reopened>>

Assumptions == /\ Cap \in Nat \ {0} /\ MaxSeq \in Nat /\ Reopens \in Nat
               /\ Mode \in {"oldest", "newest"} /\ Careful \in BOOLEAN

None == <<0, 0>>

Init ==
    /\ write = 0 /\ read = 0 /\ lost = 0 /\ dropped = 0
    /\ slots = [i \in 0..Cap-1 |-> [seq |-> 0, data |-> None]]
    /\ bell = FALSE /\ space = FALSE
    /\ wpc = "idle" /\ frame = 0
    /\ rpc = "look" /\ nextSeq = 1 /\ skipped = 0 /\ copy = None /\ got = <<>>
    /\ reopened = 0

\* The slot of message number n, counted from one.
SlotOf(n) == (n - 1) % Cap

Depth == IF write - read > Cap THEN Cap ELSE write - read

-----------------------------------------------------------------------------
(* The writer.                                                              *)

WGo(pc) == wpc' = pc

NewFrame ==
    /\ wpc = "idle" /\ frame < MaxSeq /\ frame' = frame + 1
    /\ WGo(IF Careful THEN "room" ELSE "push")
    /\ UNCHANGED <<bell, space>> /\ UNCHANGED pageVars /\ UNCHANGED readerVars

\* Nothing is retained: the progress hint is cleared.
WriterHush ==
    /\ wpc = "idle" /\ Careful /\ space
    /\ space' = FALSE
    /\ UNCHANGED bell /\ UNCHANGED pageVars /\ UNCHANGED writerVars /\ UNCHANGED readerVars

SendWhenReady ==
    \/ /\ wpc = "room" /\ WGo(IF Depth >= Cap THEN "hush" ELSE "push") /\ UNCHANGED space
    \/ /\ wpc = "hush" /\ space' = FALSE /\ WGo("again")
    \/ /\ wpc = "again" /\ WGo(IF Depth >= Cap THEN "parked" ELSE "push") /\ UNCHANGED space
TryRoom ==
    /\ SendWhenReady
    /\ UNCHANGED <<bell, frame>> /\ UNCHANGED pageVars /\ UNCHANGED readerVars

\* The writer's group wait: it returns while the space bit is set.
WriterWakes ==
    /\ wpc = "parked" /\ space /\ WGo("room")
    /\ UNCHANGED <<bell, space, frame>> /\ UNCHANGED pageVars /\ UNCHANGED readerVars

Full == write - read >= Cap

PushBegin ==
    /\ wpc = "push"
    /\ \/ /\ ~Full /\ WGo("first") /\ UNCHANGED <<lost, dropped>>
       \/ /\ Full /\ Mode = "oldest" /\ lost' = lost + 1
          /\ WGo("first") /\ UNCHANGED dropped
       \/ /\ Full /\ Mode = "newest" /\ dropped' = dropped + 1
          /\ WGo("idle") /\ UNCHANGED lost
    /\ UNCHANGED <<write, read, slots, bell, space, frame>> /\ UNCHANGED readerVars

\* Payload, then seq, then write: the order the reader relies on.
After == [first |-> "second", second |-> "seq", seq |-> "publish", publish |-> "ring", ring |-> "idle"]
Push(at) ==
    \/ /\ wpc = "first" /\ slots' = [slots EXCEPT ![at].data[1] = frame] /\ UNCHANGED <<write, bell>>
    \/ /\ wpc = "second" /\ slots' = [slots EXCEPT ![at].data[2] = frame] /\ UNCHANGED <<write, bell>>
    \/ /\ wpc = "seq" /\ slots' = [slots EXCEPT ![at].seq = (write + 1)] /\ UNCHANGED <<write, bell>>
    \/ /\ wpc = "publish" /\ write' = write + 1 /\ UNCHANGED <<slots, bell>>
    \/ /\ wpc = "ring" /\ bell' = TRUE /\ UNCHANGED <<slots, write>>
PushStep ==
    /\ wpc \in DOMAIN After
    /\ Push(write % Cap)
    /\ WGo(After[wpc])
    /\ UNCHANGED <<read, lost, dropped, space, frame>> /\ UNCHANGED readerVars

-----------------------------------------------------------------------------
(* The reader: look, clear the bell, look again, wait for the bell.         *)

RGo(pc) == rpc' = pc
Looking == {"look", "relook"}
Retry(pc) == IF pc = "look" THEN "hush" ELSE "waiting"

\* pop: nothing published, or the slot still holds something older.
PopNothing ==
    /\ rpc \in Looking
    /\ nextSeq > write \/ slots[SlotOf(nextSeq)].seq < nextSeq
    /\ RGo(Retry(rpc))
    /\ UNCHANGED <<bell, space, nextSeq, skipped, copy, got, reopened>>
    /\ UNCHANGED pageVars /\ UNCHANGED writerVars

\* pop: the writer lapped the reader; the numbers in between are skipped.
PopSkip ==
    LET seq == slots[SlotOf(nextSeq)].seq
    IN  /\ rpc \in Looking /\ nextSeq <= write /\ seq > nextSeq
        /\ skipped' = skipped + (seq - nextSeq) /\ nextSeq' = seq
        /\ UNCHANGED <<bell, space, rpc, copy, got, reopened>>
        /\ UNCHANGED pageVars /\ UNCHANGED writerVars

PopFound ==
    /\ rpc \in Looking /\ nextSeq <= write /\ slots[SlotOf(nextSeq)].seq = nextSeq
    /\ RGo("copy1")
    /\ UNCHANGED <<bell, space, nextSeq, skipped, copy, got, reopened>>
    /\ UNCHANGED pageVars /\ UNCHANGED writerVars

PopCopy ==
    /\ \/ /\ rpc = "copy1" /\ copy' = <<slots[SlotOf(nextSeq)].data[1], 0>> /\ RGo("copy2")
       \/ /\ rpc = "copy2" /\ copy' = [copy EXCEPT ![2] = slots[SlotOf(nextSeq)].data[2]] /\ RGo("advance")
    /\ UNCHANGED <<bell, space, nextSeq, skipped, got, reopened>>
    /\ UNCHANGED pageVars /\ UNCHANGED writerVars

\* The read cursor is stored after the payload was copied.
Advance ==
    /\ rpc = "advance" /\ read' = nextSeq /\ nextSeq' = nextSeq + 1 /\ RGo("progress")
    /\ got' = Append(got, copy) /\ copy' = None
    /\ UNCHANGED <<write, lost, dropped, slots, bell, space, skipped, reopened>>
    /\ UNCHANGED writerVars

\* As if only an empty rack were reported.
RingProgressEmpty == space' = (space \/ Depth = 0)
RingProgress == space' = TRUE
Progress ==
    /\ rpc = "progress" /\ RingProgress /\ RGo("look")
    /\ UNCHANGED <<bell, nextSeq, skipped, copy, got, reopened>>
    /\ UNCHANGED pageVars /\ UNCHANGED writerVars

ReaderHush ==
    /\ rpc = "hush" /\ bell' = FALSE /\ RGo("relook")
    /\ UNCHANGED <<space, nextSeq, skipped, copy, got, reopened>>
    /\ UNCHANGED pageVars /\ UNCHANGED writerVars

ReaderWakes ==
    /\ rpc = "waiting" /\ bell /\ RGo("look")
    /\ UNCHANGED <<bell, space, nextSeq, skipped, copy, got, reopened>>
    /\ UNCHANGED pageVars /\ UNCHANGED writerVars

\* Another reader of the same page starts after what was taken.
Cursor == read + 1
Reopen ==
    /\ rpc \in {"look", "relook", "waiting", "copy1", "copy2", "advance"} /\ reopened < Reopens
    /\ reopened' = reopened + 1
    /\ nextSeq' = Cursor /\ skipped' = 0 /\ copy' = None /\ RGo("look")
    /\ UNCHANGED <<bell, space, got>> /\ UNCHANGED pageVars /\ UNCHANGED writerVars

ReaderStep == \/ PopNothing \/ PopSkip \/ PopFound \/ PopCopy \/ Advance
              \/ Progress \/ ReaderHush \/ ReaderWakes
WriterStep == TryRoom \/ WriterWakes \/ PushBegin \/ PushStep
\* A reader that reads on, a writer with everything sent and a rack read empty.
Rest ==
    /\ frame = MaxSeq /\ wpc = "idle" /\ rpc = "waiting" /\ ~bell
    /\ UNCHANGED rackVars
Next == NewFrame \/ WriterHush \/ WriterStep \/ ReaderStep \/ Reopen \/ Rest

-----------------------------------------------------------------------------
TypeOK ==
    /\ write \in 0..MaxSeq /\ read \in 0..write
    /\ slots \in [0..Cap-1 -> [seq : 0..MaxSeq, data : (0..MaxSeq) \X (0..MaxSeq)]]
    /\ bell \in BOOLEAN /\ space \in BOOLEAN
    /\ nextSeq \in 1..MaxSeq+1 /\ Len(got) <= MaxSeq

(***************************************************************************)
(* What the reader took is whole, and in the order it was sent.  A careful *)
(* writer loses nothing and nothing is read twice, not even by a reader    *)
(* made anew; one that refuses the newest leaves only gaps.                *)
(***************************************************************************)
Whole ==
    /\ \A i \in DOMAIN got : got[i][1] = got[i][2]
    /\ \A i, j \in DOMAIN got : i < j => got[i][1] < got[j][1]
    /\ Careful => /\ \A i \in DOMAIN got : got[i] = <<i, i>>
                  /\ skipped = 0 /\ lost = 0

(***************************************************************************)
(* Nobody sleeps through a change: a reader waits with the bell off only   *)
(* while the ring is empty or the writer is about to ring, and a writer is *)
(* parked with the space bit off only while the ring is full or the reader *)
(* is about to report progress.                                            *)
(***************************************************************************)
NoLostWake ==
    /\ rpc = "waiting" /\ ~bell => nextSeq > write \/ wpc = "ring"
    /\ wpc = "parked" /\ ~space => Depth >= Cap \/ rpc = "progress"

\* Everything sent by a careful writer is read: the frame it last began is in the end
\* among those the reader got (liveness; the frames are numbered from 1 and bounded).
Unread == Len(got) < frame
AllRead == Unread ~> ~Unread
=============================================================================
