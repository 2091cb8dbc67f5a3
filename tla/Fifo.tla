------------------------------- MODULE Fifo -------------------------------
(* What a hole promises its users: a bounded queue.  Messages come out in  *)
(* the order in which they were put in, each of them once.  Several may    *)
(* become available in one step.  Closing drops what is not out yet, but   *)
(* for one message that a reader may have in hand.                         *)
EXTENDS Naturals, Sequences, SequencesExt

CONSTANTS Msg, Cap

VARIABLES in,      \* all messages put, in order
          out,     \* all messages taken, in order
          open     \* FALSE once closed

vars == <<in, out, open>>

Init ==
  /\ in = <<>>
  /\ out = <<>>
  /\ open = TRUE

Put ==
  /\ open
  /\ Len(in') - Len(out) <= Cap
  /\ Len(in') > Len(in)
  /\ IsPrefix(in, in')
  /\ \A i \in DOMAIN in' : in'[i] \in Msg
  /\ UNCHANGED <<out, open>>

Get ==
  /\ Len(out) < Len(in)
  /\ out' = Append(out, in[Len(out) + 1])
  /\ UNCHANGED <<in, open>>

Close ==
  /\ open
  /\ open' = FALSE
  /\ Len(in') \in {Len(out), Len(out) + 1}
  /\ IsPrefix(in', in)
  /\ UNCHANGED out

(* A reader that had a message in hand when the queue was closed may also *)
(* fail to hand it on.                                                    *)
Lose ==
  /\ ~open
  /\ in # out
  /\ in' = out
  /\ UNCHANGED <<out, open>>

Next == Put \/ Get \/ Close \/ Lose

Spec == Init /\ [][Next]_vars

=============================================================================
