------------------------------ MODULE Console ------------------------------
(***************************************************************************)
(* The console's data path: the UART driver (driver/uart), the terminal    *)
(* (user/terminal) and the program in the foreground (terminal client).    *)
(*                                                                         *)
(* Bytes typed at the device go through the driver's FIFO drain, the RX    *)
(* rack, the terminal's line discipline and the input hole to the program; *)
(* echo and program output go through the terminal's frame buffer and the  *)
(* TX rack back to the device.  Driver and terminal are one loop each; a   *)
(* step of a loop is one of its calls.  A rack operation is one step here, *)
(* module Rack shows what it is made of.                                   *)
(*                                                                         *)
(* A byte is its position in the typed script; its kind says what the line *)
(* discipline does with it: "d" data, "n" newline, "e" erase, "k" kill,    *)
(* "f" end of file, "i" interrupt (Ctrl-C; Ctrl-Z alike).                  *)
(***************************************************************************)
EXTENDS Naturals, Sequences, SequencesExt, FiniteSets

CONSTANTS
    Scripts,    \* what may be typed: a set of sequences of kinds
    RingCap,    \* slots of a rack
    InCap,      \* messages the input hole takes
    DrainMax,   \* bytes one drain of the device takes
    ChunkMax,   \* bytes of one input message
    TxMax,      \* bytes of one TX message
    LineMax,    \* bytes of a buffered line
    Outputs     \* messages the program writes

VARIABLES
    script, typed,          \* the script and how much of it is typed
    fifo, lane, muted,      \* the device, its delivery in the lane, its line
    upc, batch,             \* the driver: its place and the batch it retains
    rx, bell, space,        \* the RX rack with its two bits
    tx, tbell, tspace,      \* the TX rack with its two bits
    tpc, active, incoming,  \* the terminal: place, busy flag, batch received
    fed, line, pending,     \* bytes fed, the line buffer, inputs to deliver
    event, frame, waiting,  \* control event, bytes to echo, waiting_input
    input, control, output, \* the three holes of the attachment
    apc, got, wrote,        \* the program: place, bytes read, messages written
    printed, made,          \* bytes the device printed, bytes ever to print
    last, base              \* last interrupt fed, Len(got) at that moment

consoleVars == <<script, typed, fifo, lane, muted, upc, batch, rx, bell, space,
                 tx, tbell, tspace, tpc, active, incoming, fed, line, pending,
                 event, frame, waiting, input, control, output, apc, got, wrote,
                 printed, made, last, base>>
deviceVars == <<script, typed, fifo, lane, muted>>
driverVars == <<upc, batch>>
rxVars == <<rx, bell, space>>
txVars == <<tx, tbell, tspace>>
modeVars == <<fed, line, last, base>>
serverVars == <<pending, event, waiting>>
holeVars == <<input, control, output>>
programVars == <<apc, got, wrote>>
outVars == <<printed, made>>

Assumptions ==
    /\ \A s \in Scripts : s \in Seq({"d", "n", "e", "k", "f", "i"})
    /\ {RingCap, InCap, DrainMax, ChunkMax, TxMax, LineMax} \subseteq Nat \ {0}
    /\ Outputs \in Nat

Flat(ss) == FlattenSeq(ss)
Eof == <<0>>
Written(k) == 100 + k       \* the byte of the program's k-th message

Init ==
    /\ script \in Scripts /\ typed = 0
    /\ fifo = <<>> /\ lane = FALSE /\ muted = FALSE
    /\ upc = "tx" /\ batch = <<>>
    /\ rx = <<>> /\ bell = FALSE /\ space = FALSE
    /\ tx = <<>> /\ tbell = FALSE /\ tspace = FALSE
    /\ tpc = "output" /\ active = FALSE /\ incoming = <<>>
    /\ fed = 0 /\ line = <<>> /\ pending = <<>>
    /\ event = FALSE /\ frame = <<>> /\ waiting = FALSE
    /\ input = <<>> /\ control = <<>> /\ output = <<>>
    /\ apc = "control" /\ got = <<>> /\ wrote = 0
    /\ printed = <<>> /\ made = <<>> /\ last = 0 /\ base = 0

----------------------------------------------------------------------------
(* The device and its interrupt line.                                      *)

Type ==
    /\ typed < Len(script)
    /\ typed' = typed + 1 /\ fifo' = Append(fifo, typed + 1)
    /\ UNCHANGED <<script, lane, muted, driverVars, rxVars, txVars, tpc, active,
                   incoming, modeVars, serverVars, frame, holeVars, programVars, outVars>>

\* The router delivers an interrupt once and keeps the line muted until it is
\* exhausted.
Interrupt ==
    /\ fifo # <<>> /\ ~muted
    /\ lane' = TRUE /\ muted' = TRUE
    /\ UNCHANGED <<script, typed, fifo, driverVars, rxVars, txVars, tpc, active,
                   incoming, modeVars, serverVars, frame, holeVars, programVars, outVars>>

----------------------------------------------------------------------------
(* The driver's loop: TX dry, retained batch, interrupts, hush, wait.      *)

terminalVars == <<tpc, active, incoming, modeVars, serverVars, frame>>

\* put: one message of the TX rack to the device; the rack found empty clears
\* its bell.
PutTx ==
    /\ upc = "tx"
    /\ IF tx = <<>>
         THEN upc' = "retry" /\ tbell' = FALSE /\ UNCHANGED <<tx, tspace, printed>>
         ELSE /\ printed' = printed \o Head(tx) /\ tx' = Tail(tx) /\ tspace' = TRUE
              /\ UNCHANGED <<upc, tbell>>
    /\ UNCHANGED <<deviceVars, batch, rxVars, terminalVars, holeVars, programVars, made>>

SendRx(b) == Len(rx) < RingCap /\ rx' = Append(rx, b) /\ bell' = TRUE /\ UNCHANGED space
FullRx == Len(rx) >= RingCap /\ space' = FALSE /\ UNCHANGED <<rx, bell>>

Exhaust == muted' = FALSE

RetryBatch ==
    /\ upc = "retry" /\ upc' = "irq"
    /\ \/ batch = <<>> /\ UNCHANGED <<batch, rxVars, muted>>
       \/ batch # <<>> /\ SendRx(batch) /\ batch' = <<>> /\ Exhaust
       \/ batch # <<>> /\ FullRx /\ UNCHANGED <<batch, muted>>
    /\ UNCHANGED <<script, typed, fifo, lane, txVars, terminalVars, holeVars, programVars, outVars>>

Drained == SubSeq(fifo, 1, IF Len(fifo) < DrainMax THEN Len(fifo) ELSE DrainMax)

Retain(b) == batch' = b /\ upc' = "hush" /\ UNCHANGED muted

ServeLine ==
    /\ upc = "irq" /\ batch = <<>> /\ lane
    /\ lane' = FALSE
    /\ fifo' = SubSeq(fifo, Len(Drained) + 1, Len(fifo))
    /\ \/ Drained = <<>> /\ Exhaust /\ UNCHANGED <<upc, batch, rxVars>>
       \/ Drained # <<>> /\ SendRx(Drained) /\ Exhaust /\ UNCHANGED <<upc, batch>>
       \/ Drained # <<>> /\ FullRx /\ Retain(Drained)
    /\ UNCHANGED <<script, typed, txVars, terminalVars, holeVars, programVars, outVars>>

NoLine ==
    /\ upc = "irq" /\ (batch # <<>> \/ ~lane)
    /\ upc' = "hush"
    /\ UNCHANGED <<deviceVars, batch, rxVars, txVars, terminalVars, holeVars, programVars, outVars>>

HushSpace == space' = (space /\ batch # <<>>)
HushRx ==
    /\ upc = "hush" /\ upc' = "wait" /\ HushSpace
    /\ UNCHANGED <<deviceVars, batch, rx, bell, txVars, terminalVars, holeVars, programVars, outVars>>

DriverWoken == tbell \/ space \/ lane
DriverWakes ==
    /\ upc = "wait" /\ DriverWoken /\ upc' = "tx"
    /\ UNCHANGED <<deviceVars, batch, rxVars, txVars, terminalVars, holeVars, programVars, outVars>>

DriverStep == PutTx \/ RetryBatch \/ ServeLine \/ NoLine \/ HushRx \/ DriverWakes

----------------------------------------------------------------------------
(* The line discipline: what one byte does to the line buffer, the inputs  *)
(* to deliver and the echo.                                                *)

\* feed cuts a finished line into messages of at most ChunkMax bytes: the
\* newline joins the last one if it has room, and is a message of its own if
\* it has not.
Pieces(l) == [i \in 1..((Len(l) + ChunkMax - 1) \div ChunkMax) |->
                SubSeq(l, (i - 1) * ChunkMax + 1,
                       IF i * ChunkMax < Len(l) THEN i * ChunkMax ELSE Len(l))]
\* As if: a line that fills its last message loses its newline.
ChunksFull(l, nl) ==
    IF l # <<>> /\ Len(l) % ChunkMax = 0 THEN Pieces(l)
    ELSE Pieces(Append(l, nl))
Chunks(l, nl) ==
    IF Len(l) % ChunkMax = 0 THEN Append(Pieces(l), <<nl>>)
    ELSE LET p == Pieces(l) IN [p EXCEPT ![Len(p)] = Append(@, nl)]

Canonical(st, b) ==
    LET k == script[b] IN
    CASE k = "d" -> [st EXCEPT !.line = IF Len(@) < LineMax THEN Append(@, b) ELSE @]
      [] k = "n" -> [st EXCEPT !.line = <<>>, !.out = @ \o Chunks(st.line, b)]
      [] k = "e" -> [st EXCEPT !.line = IF @ = <<>> THEN @ ELSE SubSeq(@, 1, Len(@) - 1)]
      [] k = "k" -> [st EXCEPT !.line = <<>>]
      [] k = "f" -> [st EXCEPT !.line = <<>>,
                               !.out = IF st.line = <<>> THEN Append(@, Eof)
                                       ELSE @ \o Pieces(st.line)]
      [] k = "i" -> [st EXCEPT !.line = <<>>, !.out = <<>>, !.cut = TRUE]

Feeding(st, bs) == FoldLeft(Canonical, st, bs)

----------------------------------------------------------------------------
(* The terminal's frame: output, flush, receive, feed, flush, deliver,     *)
(* wait.                                                                   *)

uartVars == <<deviceVars, driverVars>>

Output ==
    /\ tpc = "output" /\ tpc' = "flush"
    /\ IF frame # <<>> THEN active' = TRUE /\ UNCHANGED <<frame, made, output>>
       ELSE IF output = <<>> THEN active' = FALSE /\ UNCHANGED <<frame, made, output>>
       ELSE /\ active' = TRUE /\ frame' = Head(output) /\ made' = made \o Head(output)
            /\ output' = Tail(output)
    /\ UNCHANGED <<uartVars, rxVars, txVars, incoming, modeVars, serverVars, input, control,
                   programVars, printed>>

\* flush sends the frame in chunks until the rack is full; sent is what went.
Room == RingCap - Len(tx)
TxPieces == [i \in 1..((Len(frame) + TxMax - 1) \div TxMax) |->
               SubSeq(frame, (i - 1) * TxMax + 1,
                      IF i * TxMax < Len(frame) THEN i * TxMax ELSE Len(frame))]
Sent == SubSeq(TxPieces, 1, IF Len(TxPieces) < Room THEN Len(TxPieces) ELSE Room)
Remaining == SubSeq(frame, Len(Flat(Sent)) + 1, Len(frame))
Flush(at, to) ==
    /\ tpc = at /\ tpc' = to
    /\ tx' = tx \o Sent /\ tbell' = (tbell \/ Sent # <<>>)
    /\ frame' = Remaining
    /\ active' = (active \/ frame' # <<>>)
    /\ tspace' = FALSE    \* hush when all is sent, and on finding the rack full
    /\ UNCHANGED <<uartVars, rxVars, incoming, modeVars, serverVars, holeVars, programVars, outVars>>

Ready == pending = <<>> /\ frame = <<>>
Receive ==
    /\ tpc = "receive" /\ tpc' = "feed"
    /\ IF Ready /\ rx # <<>>
         THEN /\ incoming' = Head(rx) /\ rx' = Tail(rx) /\ space' = TRUE
              /\ active' = TRUE /\ UNCHANGED bell
         ELSE incoming' = <<>> /\ bell' = FALSE /\ UNCHANGED <<rx, space, active>>
    /\ UNCHANGED <<uartVars, txVars, modeVars, serverVars, frame, holeVars, programVars, outVars>>

\* reset drains the three holes: what was typed or written before an interrupt
\* is gone.
Feed ==
    /\ tpc = "feed" /\ tpc' = "flush2"
    /\ LET st == Feeding([line |-> line, out |-> pending, cut |-> FALSE], incoming)
           cuts == {i \in 1..Len(incoming) : script[incoming[i]] = "i"} IN
       /\ line' = st.line /\ pending' = st.out
       /\ frame' = frame \o incoming /\ made' = made \o incoming
       /\ IF st.cut
            THEN /\ event' = TRUE /\ input' = <<>> /\ output' = <<>> /\ control' = <<>>
                 /\ last' = incoming[CHOOSE i \in cuts : \A j \in cuts : j <= i]
                 /\ base' = Len(got)
            ELSE UNCHANGED <<event, holeVars, last, base>>
    /\ fed' = fed + Len(incoming) /\ incoming' = <<>>
    /\ UNCHANGED <<uartVars, rxVars, txVars, active, waiting, programVars, printed>>

ControlCap == 1
InputRoom == InCap - Len(input)
Handed == SubSeq(pending, 1, IF Len(pending) < InputRoom THEN Len(pending) ELSE InputRoom)
Posted == event /\ Len(control) < ControlCap
Blocked == Len(pending) > Len(Handed)
Deliver ==
    /\ tpc = "deliver" /\ tpc' = "wait"
    /\ control' = IF Posted THEN Append(control, "int") ELSE control
    /\ event' = (event /\ ~Posted)
    /\ input' = input \o Handed
    /\ pending' = SubSeq(pending, Len(Handed) + 1, Len(pending))
    /\ active' = (active \/ Posted \/ Handed # <<>>)
    /\ waiting' = Blocked
    /\ UNCHANGED <<uartVars, rxVars, txVars, incoming, modeVars, frame, output, programVars, outVars>>

Woken == bell \/ tspace \/ output # <<>> \/ (waiting /\ input = <<>>)
Wait ==
    /\ tpc = "wait" /\ (active \/ Woken)
    /\ tpc' = "output" /\ active' = FALSE
    /\ UNCHANGED <<uartVars, rxVars, txVars, incoming, modeVars, serverVars, frame, holeVars,
                   programVars, outVars>>

TerminalStep ==
    \/ Output \/ Flush("flush", "receive") \/ Receive
    \/ Feed \/ Flush("flush2", "deliver") \/ Deliver \/ Wait

----------------------------------------------------------------------------
(* The program in the foreground: it reads, control before input, and      *)
(* writes.                                                                 *)

ReadControl ==
    /\ apc = "control"
    /\ IF control # <<>> THEN control' = Tail(control) /\ UNCHANGED apc
                         ELSE apc' = "input" /\ UNCHANGED control
    /\ UNCHANGED <<uartVars, rxVars, txVars, terminalVars, input, output, got, wrote, outVars>>
ReadInput ==
    /\ apc = "input" /\ input # <<>>
    /\ got' = got \o Head(input) /\ input' = Tail(input) /\ apc' = "control"
    /\ UNCHANGED <<uartVars, rxVars, txVars, terminalVars, control, output, wrote, outVars>>
AwaitInput ==
    /\ apc = "input" /\ input = <<>> /\ control # <<>>
    /\ apc' = "control"
    /\ UNCHANGED <<uartVars, rxVars, txVars, terminalVars, holeVars, got, wrote, outVars>>
TryWrite ==
    /\ wrote < Outputs /\ Len(output) < InCap
    /\ output' = Append(output, <<Written(wrote + 1)>>) /\ wrote' = wrote + 1
    /\ UNCHANGED <<uartVars, rxVars, txVars, terminalVars, input, control, apc, got, outVars>>
ReadStep == ReadControl \/ ReadInput \/ AwaitInput

\* Everything typed is read and printed and everyone waits.
Rest ==
    /\ typed = Len(script) /\ upc = "wait" /\ ~DriverWoken
    /\ tpc = "wait" /\ ~active /\ ~Woken /\ apc = "input" /\ input = <<>> /\ control = <<>>
    /\ UNCHANGED consoleVars

Next == Type \/ Interrupt \/ DriverStep \/ TerminalStep \/ ReadStep \/ TryWrite \/ Rest

----------------------------------------------------------------------------
TypeOK ==
    /\ typed \in 0..Len(script) /\ fed \in 0..typed /\ last \in 0..fed
    /\ upc \in {"tx", "retry", "irq", "hush", "wait"}
    /\ tpc \in {"output", "flush", "receive", "feed", "flush2", "deliver", "wait"}
    /\ apc \in {"control", "input"}
    /\ {lane, muted, bell, space, tbell, tspace, active, event, waiting} \subseteq BOOLEAN
    /\ Len(rx) <= RingCap /\ Len(tx) <= RingCap
    /\ Len(input) <= InCap /\ Len(output) <= InCap /\ Len(control) <= ControlCap
    /\ Len(line) <= LineMax /\ wrote \in 0..Outputs

\* What was typed and not yet fed is on its way, whole and in order: the batch
\* just received, the rack, the batch the driver retains, the device.
InOrder ==
    incoming \o Flat(rx) \o batch \o fifo = [i \in 1..(typed - fed) |-> fed + i]

\* What the program has read since the last interrupt, what waits in its input
\* hole and what the terminal still has to deliver are together what the line
\* discipline makes of the bytes fed since then: nothing is lost, repeated or
\* reordered by the chunks, by a full hole or by a reset that races a read.
\* The flat text of a line does not depend on how it is cut into messages.
RECURSIVE Text(_, _, _)
Text(b, to, st) ==
    IF b > to THEN st
    ELSE Text(b + 1, to,
         CASE script[b] = "d" -> [st EXCEPT !.line = IF Len(@) < LineMax THEN Append(@, b) ELSE @]
           [] script[b] = "n" -> [line |-> <<>>, out |-> Append(st.out \o st.line, b)]
           [] script[b] = "e" -> [st EXCEPT !.line = IF @ = <<>> THEN @ ELSE SubSeq(@, 1, Len(@) - 1)]
           [] script[b] = "k" -> [st EXCEPT !.line = <<>>]
           [] script[b] = "f" -> [line |-> <<>>, out |-> st.out \o (IF st.line = <<>> THEN Eof ELSE st.line)])
Delivered ==
    LET st == Text(last + 1, fed, [line |-> <<>>, out |-> <<>>]) IN
    /\ line = st.line
    /\ SubSeq(got, base + 1, Len(got)) \o Flat(input) \o Flat(pending) = st.out

\* Everything ever given to the frame buffer is printed, on its way in the TX
\* rack or still in the buffer, in order.
Printed == printed \o Flat(tx) \o frame = made

\* The buffer holds one output message or the echo of one batch, never both.
FrameFits == Len(frame) <= DrainMax

\* The line is held by the driver until the bytes it was raised for are in the
\* RX rack: a retained batch or a delivery in the lane keeps it muted.
LineHeld == batch # <<>> \/ lane => muted

\* A process that waits and that nothing will wake has nothing to do: the
\* driver no batch that fits and nothing to print, the terminal no event, no
\* output, no echo and no input it could take.
DriverSleeps ==
    upc = "wait" /\ ~DriverWoken => tx = <<>> /\ (batch # <<>> => Len(rx) = RingCap)
TerminalSleeps ==
    tpc = "wait" /\ ~active /\ ~Woken =>
        /\ ~event /\ frame = <<>>
        /\ rx # <<>> => pending # <<>>
        /\ pending # <<>> => input # <<>>

=============================================================================
