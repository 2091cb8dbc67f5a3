-------------------------------- MODULE Spare -------------------------------
(***************************************************************************)
(* Three allocators that stand beside the heap: the bump allocator of the  *)
(* boot, the list allocator that serves the kernel while it reports and    *)
(* stops (SpareAllocator), and the bitmap that gives out address space     *)
(* identifiers.  Each works under one lock, so each call is one action.    *)
(* Addresses count units of MAX_ALIGN from the start of each region.       *)
(***************************************************************************)
EXTENDS Integers, FiniteSets, Sequences, SequencesExt

CONSTANTS Region,    \* units of the list allocator's chunk
          Header,    \* units of a block's header
          Needs,     \* sizes asked for, in units
          Bits,      \* units of the bitmap
          Runs,      \* lengths asked of the bitmap
          Edge, Aligns, Sizes   \* the bump region and what is asked of it

VARIABLES blks,      \* the free list: records [at, size], as linked
          taken,     \* blocks in use
          bits,      \* units of the bitmap that are set
          runs,      \* runs in use: <<start, length>>
          used,      \* the bump allocator's used bytes
          bumped     \* what it handed out: <<start, size>>
spareVars == <<blks, taken, bits, runs, used, bumped>>

Assumptions ==
    /\ Region \in Nat /\ Header \in Nat \ {0} /\ Header <= Region /\ Needs \subseteq Nat \ {0}
    /\ Bits \in Nat /\ Runs \subseteq Nat \ {0}
    /\ Edge \in Nat /\ Aligns \subseteq Nat \ {0} /\ Sizes \subseteq Nat

Init ==
    /\ blks = <<[at |-> 0, size |-> Region]>> /\ taken = {}
    /\ bits = {} /\ runs = {} /\ used = 0 /\ bumped = {}

\* ---- SpareInner -----------------------------------------------------------

\* pull: the first block whose payload suffices
Fits(need) == {k \in DOMAIN blks : blks[k].size - Header >= need}
First(ks) == CHOOSE k \in ks : \A l \in ks : k <= l

\* split: the rest takes the block's place in the list if a header fits into it, else
\* the block is handed out whole
Split(k, need) ==
    LET b == blks[k]
        left == b.size - Header - need
    IN  IF left >= Header
        THEN [keep |-> [b EXCEPT !.size = Header + need],
              list |-> [blks EXCEPT ![k] = [at |-> b.at + Header + need, size |-> left]]]
        ELSE [keep |-> b, list |-> RemoveAt(blks, k)]

SpareTake(need) ==
    LET got == Split(First(Fits(need)), need)
    IN  /\ Fits(need) # {} /\ blks' = got.list /\ taken' = taken \cup {got.keep}
        /\ UNCHANGED <<bits, runs, used, bumped>>

\* push: into its place by address, joined with the block before and the block after
JoinNext(list, k) ==
    IF k + 1 \in DOMAIN list /\ list[k].at + list[k].size = list[k + 1].at
    THEN RemoveAt([list EXCEPT ![k].size = @ + list[k + 1].size], k + 1) ELSE list

Push(b) ==
    LET before == Cardinality({k \in DOMAIN blks : blks[k].at <= b.at})
        list == InsertAt(blks, before + 1, b)
        joined == IF before = 0 THEN list ELSE JoinNext(list, before)
        k == IF Len(joined) < Len(list) THEN before ELSE before + 1
    IN  JoinNext(joined, k)

SpareGive(b) ==
    /\ b \in taken /\ taken' = taken \ {b} /\ blks' = Push(b)
    /\ UNCHANGED <<bits, runs, used, bumped>>

\* ---- BitmapAllocator ------------------------------------------------------

Span(s, n) == s .. s + n - 1
Clear(n) == {s \in 0 .. Bits - n : Span(s, n) \cap bits = {}}

\* allocate: the first run of n clear units
BitmapTake(n) ==
    LET s == CHOOSE x \in Clear(n) : \A y \in Clear(n) : x <= y
    IN  /\ n <= Bits /\ Clear(n) # {}
        /\ bits' = bits \cup Span(s, n) /\ runs' = runs \cup {<<s, n>>}
        /\ UNCHANGED <<blks, taken, used, bumped>>

BitmapCleared(s, n) == bits \ Span(s, n)

\* deallocate: only what lies inside and is set throughout
BitmapGive(s, n) ==
    /\ s >= 0 /\ s + n <= Bits /\ Span(s, n) \subseteq bits
    /\ bits' = BitmapCleared(s, n) /\ runs' = runs \ {<<s, n>>}
    /\ UNCHANGED <<blks, taken, used, bumped>>

\* ---- BumpAllocator --------------------------------------------------------

BumpUsed(start, size) == start + size

\* allocate: the frontier, aligned; nothing ever comes back
BumpTake(align, size) ==
    LET start == ((used + align - 1) \div align) * align
    IN  /\ start + size <= Edge /\ used' = BumpUsed(start, size)
        /\ bumped' = bumped \cup {<<start, size>>}
        /\ UNCHANGED <<blks, taken, bits, runs>>

Next ==
    \/ \E need \in Needs : SpareTake(need)
    \/ \E b \in taken : SpareGive(b)
    \/ \E n \in Runs : BitmapTake(n)
    \/ \E r \in runs : BitmapGive(r[1], r[2])
    \/ \E a \in Aligns, n \in Sizes : BumpTake(a, n)

----------------------------------------------------------------------------
(* Properties. *)

Blocks == Range(blks) \cup taken
BlockSpan(b) == Span(b.at, b.size)

\* Free and used blocks tile the chunk, each with room for its header; the list is in
\* order of addresses and no two neighbours in it touch: what is given back joins what
\* lies beside it, so the reserve for reports does not crumble (split, push).
SpareTiled ==
    /\ UNION {BlockSpan(b) : b \in Blocks} = Span(0, Region)
    /\ \A b, c \in Blocks : b # c => BlockSpan(b) \cap BlockSpan(c) = {}
    /\ Range(blks) \cap taken = {} /\ \A b \in Blocks : b.size >= Header
    /\ \A k \in 1 .. Len(blks) - 1 : blks[k].at + blks[k].size < blks[k + 1].at

\* The bits are those of the runs in use, and no unit is in two runs: no two address
\* spaces have the same identifier.
BitsExact ==
    /\ bits = UNION {Span(r[1], r[2]) : r \in runs}
    /\ \A r, q \in runs : r # q => Span(r[1], r[2]) \cap Span(q[1], q[2]) = {}

\* What the boot allocator handed out does not overlap and stays below the frontier.
BumpApart ==
    /\ \A x, y \in bumped : x # y => Span(x[1], x[2]) \cap Span(y[1], y[2]) = {}
    /\ \A x \in bumped : x[1] + x[2] <= used /\ used <= Edge

=============================================================================
