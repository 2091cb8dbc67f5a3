------------------------------ MODULE Addresses ------------------------------
(***************************************************************************)
(* Who occupies which addresses of one address space (address/occupancy):  *)
(* one ordered table of slots for fixed and for chosen spans alike,        *)
(* windows that only say where a span may be chosen, a generation on every *)
(* slot, and a retirement ticket on what has been withdrawn but not yet    *)
(* confirmed.  The cleanup record of a generation is reserved before the   *)
(* span is published.  Addresses are counted in pages, the last one being  *)
(* the last the machine can name.                                          *)
(***************************************************************************)
EXTENDS Integers, FiniteSets, Sequences, SequencesExt

CONSTANTS
    Top,        \* the last address
    Windows,    \* region -> <<base, last>>, the dynamic windows
    Raised,     \* the bases a window may be raised to
    Placements, \* the choices asked for: [region, size, align, at]
    MaxId,      \* generations
    MaxTicket   \* retirement tickets

VARIABLES
    window,     \* region -> [base, last]
    slots,      \* the occupied spans, in order
    cleanups,   \* the generations with a reserved cleanup record
    ids,        \* generations given out
    tickets,    \* tickets given out
    published,  \* the generations a relation was published under
    ground      \* address -> the generation and ticket it should be under

addressesVars == <<window, slots, cleanups, ids, tickets, published, ground>>

All == 0 .. Top
Free == [id |-> 0, ticket |-> 0]

Assumptions ==
    /\ Top \in Nat /\ MaxId \in Nat /\ MaxTicket \in Nat /\ Raised \subseteq All
    /\ \A r \in DOMAIN Windows : Windows[r][1] <= Windows[r][2] /\ Windows[r][2] <= Top
    /\ \A p \in Placements : p.size > 0 /\ p.align > 0

-----------------------------------------------------------------------------
(* Choosing a span.                                                        *)

(* free_spans: one pass over the slots, `at` the first address that may be *)
(* free, `over` once the pass is done                                      *)
SpanStep(s, slot, last) ==
    IF s.over \/ slot.last < s.at THEN s
    ELSE IF slot.start > last THEN [s EXCEPT !.over = TRUE, !.tail = TRUE]
    ELSE LET gap == IF slot.start > s.at
                    THEN <<<<s.at, IF slot.start - 1 < last THEN slot.start - 1 ELSE last>>>>
                    ELSE <<>>
         IN IF slot.last = Top
            THEN [s EXCEPT !.spans = @ \o gap, !.over = TRUE, !.tail = FALSE]
            ELSE [s EXCEPT !.spans = @ \o gap,
                           !.at = IF slot.last + 1 > @ THEN slot.last + 1 ELSE @]

FreeSpans(w, table) ==
    LET s == FoldLeft(LAMBDA acc, slot : SpanStep(acc, slot, w.last),
                      [at |-> w.base, spans |-> <<>>, over |-> FALSE, tail |-> TRUE], table)
    IN IF s.tail /\ s.at <= w.last THEN Append(s.spans, <<s.at, w.last>>) ELSE s.spans

(* checked_next_multiple_of *)
Aligned(x, align) == ((x + align - 1) \div align) * align

(* Lowest and Highest: the first free span, from below or from above, that *)
(* has room; no address when none has                                      *)

Fits(lo, hi, size, align) == Aligned(lo, align) + size - 1 <= hi

Lowest(w, size, align) ==
    LET spans == SelectSeq(FreeSpans(w, slots), LAMBDA s : Fits(s[1], s[2], size, align))
    IN IF spans = <<>> THEN -1 ELSE Aligned(spans[1][1], align)

Highest(w, size) ==
    LET spans == SelectSeq(FreeSpans(w, slots), LAMBDA s : Fits(s[1], s[2], size, 1))
    IN IF spans = <<>> THEN -1 ELSE spans[Len(spans)][2] - (size - 1)

(* the start a placement gets; Exact is taken as it comes *)
Placed(p) ==
    IF p.at = "lowest" THEN Lowest(window[p.region], p.size, p.align)
    ELSE IF p.at = "highest" THEN Highest(window[p.region], p.size)
    ELSE p.start

(* insert: refused when a neighbour in the order overlaps *)
Before(start) == Cardinality({i \in DOMAIN slots : slots[i].start < start})

Clear(start, last) ==
    LET at == Before(start) IN
    /\ at > 0 => slots[at].last < start
    /\ at < Len(slots) => slots[at + 1].start > last

-----------------------------------------------------------------------------
Slot(start, last, id, ticket, region) ==
    [start |-> start, last |-> last, id |-> id, ticket |-> ticket, region |-> region]

Inserted(at, slot) == SubSeq(slots, 1, at) \o <<slot>> \o SubSeq(slots, at + 1, Len(slots))

Marked(lo, hi, id, ticket) ==
    [a \in All |-> IF a \in lo .. hi THEN [id |-> id, ticket |-> ticket] ELSE ground[a]]

Init ==
    /\ window = [r \in DOMAIN Windows |-> [base |-> Windows[r][1], last |-> Windows[r][2]]]
    /\ slots = <<>> /\ cleanups = {} /\ ids = 0 /\ tickets = 0 /\ published = {}
    /\ ground = [a \in All |-> Free]

(* reserve *)
Reserve(p) ==
    LET start == Placed(p)
        last == start + p.size - 1 IN
    /\ ids < MaxId
    /\ start >= 0 /\ last <= Top /\ Clear(start, last)
    /\ ids' = ids + 1
    /\ slots' = Inserted(Before(start), Slot(start, last, ids + 1, 0, p.region))
    /\ ground' = Marked(start, last, ids + 1, 0)
    /\ UNCHANGED <<window, cleanups, tickets, published>>

(* configure: a window may not leave out what was chosen from it *)
Configure(r, base, last) ==
    /\ base <= last
    /\ \A i \in DOMAIN slots :
          slots[i].region = r => slots[i].start >= base /\ slots[i].last <= last
    /\ window' = [window EXCEPT ![r] = [base |-> base, last |-> last]]
    /\ UNCHANGED <<slots, cleanups, ids, tickets, published, ground>>

(* advance: only what is chosen from now on is above the new base *)
Advance(r, base) ==
    /\ base > window[r].base /\ base <= window[r].last
    /\ window' = [window EXCEPT ![r].base = base]
    /\ UNCHANGED <<slots, cleanups, ids, tickets, published, ground>>

(* the slot a credential names: generation and both ends, not retired *)
Held(i, start, last, id) ==
    slots[i].start = start /\ slots[i].last = last /\ slots[i].id = id /\ slots[i].ticket = 0

(* split: both halves get generations of their own; only what is not yet   *)
(* published is split                                                      *)
Split(i, size) ==
    LET s == slots[i] IN
    /\ s.ticket = 0 /\ s.id \notin published /\ ids + 2 <= MaxId
    /\ size < s.last - s.start + 1
    /\ ids' = ids + 2
    /\ slots' = SubSeq(slots, 1, i - 1)
                  \o <<Slot(s.start, s.start + size - 1, ids + 1, 0, s.region),
                       Slot(s.start + size, s.last, ids + 2, 0, s.region)>>
                  \o SubSeq(slots, i + 1, Len(slots))
    /\ ground' = [a \in All |-> IF a \in s.start .. s.start + size - 1 THEN [id |-> ids + 1, ticket |-> 0]
                                ELSE IF a \in s.start + size .. s.last THEN [id |-> ids + 2, ticket |-> 0]
                                ELSE ground[a]]
    /\ UNCHANGED <<window, cleanups, tickets, published>>

(* release of what was never published; the cleanup record goes with it *)
ReleaseRecord(records, id) == records \ {id}

GiveBack(i, records) ==
    /\ slots[i].ticket = 0 /\ slots[i].id \notin published
    /\ slots' = RemoveAt(slots, i)
    /\ cleanups' = ReleaseRecord(records, slots[i].id)
    /\ ground' = Marked(slots[i].start, slots[i].last, 0, 0)
    /\ UNCHANGED <<window, ids, tickets, published>>

Release(i) == GiveBack(i, cleanups)

(* a credential whose slot was split, cut or replaced releases nothing *)
ReleaseStale(start, last, id) ==
    /\ \A i \in DOMAIN slots : ~Held(i, start, last, id)
    /\ UNCHANGED addressesVars

(* prepare_cleanup, then the publication it makes room for *)
Publish(i) ==
    /\ slots[i].ticket = 0 /\ slots[i].id \notin published
    /\ cleanups' = cleanups \cup {slots[i].id}
    /\ published' = published \cup {slots[i].id}
    /\ UNCHANGED <<window, slots, ids, tickets, ground>>

(* prepare_cleanup, and the publication fails: the span is given back *)
PublishFails(i) == GiveBack(i, cleanups \cup {slots[i].id})

(* pieces: the slices of a generation that make up lo..hi without a gap *)
Pieces(id, lo, hi) == {i \in DOMAIN slots : slots[i].start <= hi /\ slots[i].last >= lo}
Whole(id, lo, hi) ==
    /\ \A i \in Pieces(id, lo, hi) : slots[i].id = id
    /\ \A a \in lo .. hi : \E i \in Pieces(id, lo, hi) : a \in slots[i].start .. slots[i].last

(* retire: every unretired slice of the generation in lo..hi is cut at the *)
(* window's ends and what lies inside takes the ticket                     *)

CutSlot(s, lo, hi, ticket) ==
    (IF s.start < lo THEN <<[s EXCEPT !.last = lo - 1]>> ELSE <<>>)
      \o <<[s EXCEPT !.start = IF @ > lo THEN @ ELSE lo,
                     !.last = IF @ < hi THEN @ ELSE hi, !.ticket = ticket]>>
      \o (IF s.last > hi THEN <<[s EXCEPT !.start = hi + 1]>> ELSE <<>>)

Retire(id, lo, hi) ==
    /\ tickets < MaxTicket /\ id \in published /\ Whole(id, lo, hi)
    /\ \A i \in Pieces(id, lo, hi) : slots[i].ticket = 0
    /\ tickets' = tickets + 1
    /\ slots' = FlattenSeq([i \in DOMAIN slots |->
                   IF i \in Pieces(id, lo, hi) THEN CutSlot(slots[i], lo, hi, tickets + 1)
                   ELSE <<slots[i]>>])
    /\ ground' = Marked(lo, hi, id, tickets + 1)
    /\ UNCHANGED <<window, cleanups, ids, published>>

(* reclaim: the ticket's slots go; with the last slot of the generation,   *)
(* its cleanup record                                                      *)

ReclaimRecord(id, rest) ==
    IF \E i \in DOMAIN rest : rest[i].id = id THEN cleanups ELSE cleanups \ {id}

Reclaim(ticket) ==
    \E i \in DOMAIN slots :
        LET rest == SelectSeq(slots, LAMBDA s : s.ticket # ticket) IN
        /\ slots[i].ticket = ticket
        /\ slots' = rest
        /\ cleanups' = ReclaimRecord(slots[i].id, rest)
        /\ ground' = [a \in All |-> IF ground[a].ticket = ticket THEN Free ELSE ground[a]]
        /\ UNCHANGED <<window, ids, tickets, published>>

Next ==
    \/ \E p \in Placements : Reserve(p)
    \/ \E r \in DOMAIN Windows, b \in Raised : Advance(r, b)
    \/ \E r \in DOMAIN Windows : Configure(r, Windows[r][1], Windows[r][2])
    \/ \E i \in DOMAIN slots :
          \/ \E size \in 1 .. Top : Split(i, size)
          \/ Release(i) \/ Publish(i) \/ PublishFails(i)
    \/ \E id \in 1 .. ids, lo, hi \in All : lo <= hi /\ Retire(id, lo, hi)
    \/ \E id \in 1 .. ids, lo, hi \in All : lo <= hi /\ ReleaseStale(lo, hi, id)
    \/ \E t \in 1 .. tickets : Reclaim(t)

-----------------------------------------------------------------------------
(* The table is in order without overlap and says of every address exactly *)
(* whose it is: a retired stretch keeps its generation until its own       *)
(* ticket is reclaimed, so it cannot be chosen again before.               *)
TableExact ==
    /\ \A i \in 1 .. Len(slots) - 1 : slots[i].last < slots[i + 1].start
    /\ \A a \in All :
          ground[a] = IF \E i \in DOMAIN slots : a \in slots[i].start .. slots[i].last
                      THEN LET i == CHOOSE i \in DOMAIN slots : a \in slots[i].start .. slots[i].last
                           IN [id |-> slots[i].id, ticket |-> slots[i].ticket]
                      ELSE Free

(* A span is chosen where the policy says: at the lowest aligned, or the   *)
(* highest, address of the window with room, and it is refused only when   *)
(* no address has room (reserve over free_spans, up to the last address).  *)
RoomAt(w, a, size) ==
    a >= w.base /\ a + size - 1 <= w.last /\ \A x \in a .. a + size - 1 : ground[x] = Free

ChosenExact ==
    \A p \in Placements :
        p.at # "exact" =>
            LET w == window[p.region]
                room == {a \in All : a % p.align = 0 /\ RoomAt(w, a, p.size)}
            IN IF room = {} THEN Placed(p) = -1
               ELSE /\ Placed(p) \in room
                    /\ \A a \in room : IF p.at = "lowest" THEN Placed(p) <= a ELSE Placed(p) >= a

(* A cleanup record is there for every published generation that still     *)
(* occupies something, and for no generation that is gone.                 *)
RecordKept ==
    LET present == {slots[i].id : i \in DOMAIN slots} IN
    /\ cleanups \subseteq present
    /\ published \cap present \subseteq cleanups
=============================================================================
