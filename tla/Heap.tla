-------------------------------- MODULE Heap --------------------------------
(***************************************************************************)
(* The kernel's heap: small blocks come from pools, one for each hart,     *)
(* that take pages from the frame allocator (below); larger blocks         *)
(* come from it directly.  A block goes back to the pool its page belongs  *)
(* to: the hart's own pool at once, another hart's through that pool's     *)
(* pump, which the owner empties before it allocates.  A pool keeps one    *)
(* empty page and returns the others.                                      *)
(*                                                                         *)
(* Each step is what is done under one lock (the pool's, the pump's or the *)
(* tally's).  One size class, Slots blocks to a page; the classes of a     *)
(* pool share only the pass over all pumps.                                *)
(***************************************************************************)
EXTENDS Integers, FiniteSets, Sequences, SequencesExt

----------------------------------------------------------------------------
(* The frame allocator of the kernel: a binary buddy system over the pages *)
(* between the boot allocator's frontier and the end of memory, with holes *)
(* where the board reserves memory.  b is the record FrameInner: the free  *)
(* list of each power, in order, and for each page the power of the free   *)
(* block that starts there.  One spin lock makes each operation atomic.    *)

CONSTANTS FrameCount,   \* pages between base and edge
          FrameHoles    \* pages that are reserved on the board

FrameIds == 0 .. FrameCount - 1
NoPower == -1

\* ilog2 of a positive number, and the powers there are free lists for
Ilog2(n) == CHOOSE k \in 0 .. n : 2 ^ k <= n /\ n < 2 ^ (k + 1)
MaxPower == Ilog2(FrameCount)
Powers == 0 .. MaxPower
Span(i, p) == i .. i + 2 ^ p - 1

\* block_power: pages rounded up to a power of two
BlockPower(pages) == CHOOSE k \in 0 .. pages : 2 ^ k >= pages /\ (k = 0 \/ 2 ^ (k - 1) < pages)

\* push_link, clear_head, pull_link, remove_link
PushLink(b, i, p) == [b EXCEPT !.list[p] = <<i>> \o @, !.meta[i] = p]
ClearHead(b, i) == [b EXCEPT !.meta[i] = NoPower]
PullLink(b, p) == ClearHead([b EXCEPT !.list[p] = Tail(@)], Head(b.list[p]))
RemoveLink(b, i, p) == [b EXCEPT !.list[p] = SelectSeq(@, LAMBDA x : x # i)]
InFreelist(b, i, p) == \E k \in DOMAIN b.list[p] : b.list[p][k] = i

\* buddy_index: i XOR 2^p
BuddyIndex(i, p) == IF (i \div 2 ^ p) % 2 = 0 THEN i + 2 ^ p ELSE i - 2 ^ p

\* init: from page 0 on, the largest aligned block that ends before the next hole
InitStep(b, i) ==
    LET ahead == {h \in FrameHoles : h > i}
        limit == IF ahead = {} THEN FrameCount ELSE CHOOSE h \in ahead : \A g \in ahead : h <= g
        fits == {p \in Powers : i % 2 ^ p = 0 /\ i + 2 ^ p <= limit}
        p == CHOOSE q \in fits : \A r \in fits : r <= q
    IN  [power |-> p, buddy |-> PushLink(b, i, p)]

RECURSIVE Filled(_, _)
Filled(b, i) ==
    IF i >= FrameCount THEN b
    ELSE IF i \in FrameHoles THEN Filled(b, i + 1)
    ELSE LET s == InitStep(b, i) IN Filled(s.buddy, i + 2 ^ s.power)

BuddyInit == Filled([list |-> [p \in Powers |-> <<>>], meta |-> [x \in FrameIds |-> NoPower]], 0)

\* split_block: the first block of the least power that has one, halved down to p; the
\* upper halves go back.
RECURSIVE Halve(_, _, _, _)
Halve(b, i, k, p) ==
    IF k = p THEN b ELSE Halve(PushLink(b, BuddyIndex(i, k - 1), k - 1), i, k - 1, p)

Splittable(b, p) == \E k \in Powers : k >= p /\ b.list[k] # <<>>
SplitBlock(b, p) ==
    LET ks == {k \in Powers : k >= p /\ b.list[k] # <<>>}
        k == CHOOSE x \in ks : \A y \in ks : x <= y
        i == Head(b.list[k])
    IN  [index |-> i, buddy |-> Halve(PullLink(b, k), i, k, p)]

\* As if the power of the neighbour's block did not matter.
MergeableList(b, i, p) ==
    /\ p <= MaxPower /\ BuddyIndex(i, p) < FrameCount
    /\ b.meta[BuddyIndex(i, p)] # NoPower

\* whether the block and its buddy become one
Mergeable(b, i, p) ==
    /\ p <= MaxPower /\ BuddyIndex(i, p) < FrameCount
    /\ b.meta[BuddyIndex(i, p)] = p /\ InFreelist(b, BuddyIndex(i, p), p)

RECURSIVE Merged(_, _, _)
Merged(b, i, p) ==
    IF Mergeable(b, i, p)
    THEN LET j == BuddyIndex(i, p)
         IN  Merged(ClearHead(RemoveLink(b, j, p), j), IF i < j THEN i ELSE j, p + 1)
    ELSE PushLink(b, i, p)

MergeBlock(b, i, p) == Merged(ClearHead(b, i), i, p)

\* ---- what the allocator promises -------------------------------------------

FreeBlocks(b) == UNION {{<<b.list[p][k], p>> : k \in DOMAIN b.list[p]} : p \in Powers}

\* The free blocks and the taken ones (a set of <<index, power>>) tile the pages that
\* are not holes: none is in two blocks, none is lost.  Each free block is aligned, once
\* in its list, and known as the head of a block of its power.
Tiled(b, taken) ==
    LET blocks == FreeBlocks(b) \cup taken
    IN  /\ UNION {Span(x[1], x[2]) : x \in blocks} = FrameIds \ FrameHoles
        /\ \A x, y \in blocks : x # y => Span(x[1], x[2]) \cap Span(y[1], y[2]) = {}
        /\ FreeBlocks(b) \cap taken = {}
        /\ \A x \in blocks : x[1] % 2 ^ x[2] = 0
        /\ \A p \in Powers : IsInjective(b.list[p])
        /\ \A i \in FrameIds : \A p \in Powers : b.meta[i] = p <=> <<i, p>> \in FreeBlocks(b)

\* Two buddies are never both free: what was split is one block again once both halves
\* are back, so that a large block can be had.
Coalesced(b) ==
    \A x \in FreeBlocks(b) : <<BuddyIndex(x[1], x[2]), x[2]>> \notin FreeBlocks(b)

----------------------------------------------------------------------------
(* The heap.                                                               *)

CONSTANTS Harts, Slots,
          Larges,      \* sizes in pages of direct frame allocations
          MaxBlocks,   \* small blocks in use at a time
          MaxLarge,
          Flushes      \* how often flush runs

VARIABLES buddy,       \* the frame allocator
          tally,       \* tally[page]: owner and blocks in use, or NoCell
          freepool,    \* freepool[h]: the free blocks of h's pool, in order
          spare,       \* spare[h]: the empty page it keeps, or NoPage
          pump,        \* pump[h]: blocks other harts gave back
          out,         \* blocks in use
          large,       \* frame blocks in use
          job,         \* job[h]: the call hart h is in
          flushes
heapVars == <<buddy, tally, freepool, spare, pump, out, large, job, flushes>>

NoCell == [owner |-> "none", used |-> 0]
NoPage == -1
Idle == [at |-> "idle"]
PageOf(x) == x[1]
BlocksOf(page) == {<<page, k>> : k \in 0 .. Slots - 1}

Assumptions ==
    /\ FrameCount \in Nat \ {0} /\ FrameHoles \subseteq FrameIds /\ FrameIds # FrameHoles
    /\ Slots \in Nat \ {0} /\ Larges \subseteq Nat \ {0} /\ {MaxBlocks, MaxLarge, Flushes} \subseteq Nat

Init ==
    /\ buddy = BuddyInit /\ tally = [page \in FrameIds |-> NoCell]
    /\ freepool = [h \in Harts |-> <<>>] /\ spare = [h \in Harts |-> NoPage]
    /\ pump = [h \in Harts |-> <<>>] /\ out = {} /\ large = {}
    /\ job = [h \in Harts |-> Idle] /\ flushes = 0

Go(h, j) == job' = [job EXCEPT ![h] = j]

\* HybridAllocator: frame::allocate and frame::deallocate
TakeLarge(h, pages) ==
    LET p == BlockPower(pages)
        got == SplitBlock(buddy, p)
    IN  /\ job[h] = Idle /\ Cardinality(large) < MaxLarge /\ p <= MaxPower /\ Splittable(buddy, p)
        /\ buddy' = got.buddy /\ large' = large \cup {<<got.index, p>>}
        /\ UNCHANGED <<tally, freepool, spare, pump, out, job, flushes>>

GiveLarge(h, x) ==
    /\ job[h] = Idle /\ x \in large /\ buddy' = MergeBlock(buddy, x[1], x[2])
    /\ large' = large \ {x}
    /\ UNCHANGED <<tally, freepool, spare, pump, out, job, flushes>>

\* ---- the pool of hart o, worked on by hart h ------------------------------

\* suck: the pump's chain is taken as a whole, then pushed block by block
Suck(h, o, next) ==
    /\ pump' = [pump EXCEPT ![o] = <<>>]
    /\ Go(h, [at |-> "push", pool |-> o, chain |-> pump[o], next |-> next])
    /\ UNCHANGED <<buddy, tally, freepool, spare, out, large>>

\* drain: the page's blocks leave the list (which is turned round)
Drained(list, page) == Reverse(SelectSeq(list, LAMBDA x : PageOf(x) # page))

\* push: the block heads the list; the last block of a page makes it the spare page, or
\* sends it back when there is one
PushBlock(o, x) ==
    LET page == PageOf(x)
        list == <<x>> \o freepool[o]
        used == tally[page].used - 1
    IN  IF used = 0 /\ spare[o] # NoPage
        THEN /\ freepool' = [freepool EXCEPT ![o] = Drained(list, page)]
             /\ tally' = [tally EXCEPT ![page] = NoCell]
             /\ buddy' = MergeBlock(buddy, page, 0) /\ UNCHANGED spare
        ELSE /\ freepool' = [freepool EXCEPT ![o] = list]
             /\ tally' = [tally EXCEPT ![page].used = used]
             /\ spare' = [spare EXCEPT ![o] = IF used = 0 THEN page ELSE @]
             /\ UNCHANGED buddy

PushChain(h) ==
    LET j == job[h]
    IN  /\ j.at = "push"
        /\ IF j.chain = <<>>
           THEN Go(h, [at |-> j.next, pool |-> j.pool]) /\ UNCHANGED <<buddy, tally, freepool, spare>>
           ELSE PushBlock(j.pool, Head(j.chain)) /\ Go(h, [j EXCEPT !.chain = Tail(@)])
        /\ UNCHANGED <<pump, out, large, flushes>>

\* BlockAllocator::allocate and pull: the pump first, then the list, then a new page
Take(h) ==
    /\ job[h] = Idle /\ Cardinality(out) < MaxBlocks /\ Suck(h, h, "pull") /\ UNCHANGED flushes

\* the spare page is in use again
SpareAfter(h, page) == [spare EXCEPT ![h] = IF @ = page THEN NoPage ELSE @]

Pull(h) ==
    LET x == Head(freepool[h])
        page == PageOf(x)
        got == SplitBlock(buddy, 0)
        fresh == got.index
    IN  /\ job[h].at = "pull" /\ Go(h, Idle)
        /\ IF freepool[h] # <<>>
           THEN /\ freepool' = [freepool EXCEPT ![h] = Tail(@)]
                /\ spare' = SpareAfter(h, page)
                /\ tally' = [tally EXCEPT ![page].used = @ + 1]
                /\ out' = out \cup {x} /\ UNCHANGED buddy
           ELSE IF Splittable(buddy, 0)   \* prime
           THEN /\ buddy' = got.buddy /\ out' = out \cup {<<fresh, 0>>}
                /\ tally' = [tally EXCEPT ![fresh] = [owner |-> h, used |-> 1]]
                /\ freepool' = [freepool EXCEPT ![h] = [k \in 1 .. Slots - 1 |-> <<fresh, k>>]]
                /\ UNCHANGED spare
           ELSE UNCHANGED <<buddy, tally, freepool, spare, out>>
        /\ UNCHANGED <<pump, large, flushes>>

\* deallocate: the owner of the page (which stays its owner as long as the block is in
\* use), then push or feed
Give(h, x) ==
    LET o == tally[PageOf(x)].owner
    IN  /\ job[h] = Idle /\ x \in out /\ out' = out \ {x}
        /\ IF o = h THEN PushBlock(h, x) /\ UNCHANGED pump
           ELSE pump' = [pump EXCEPT ![o] = <<x>> \o @] /\ UNCHANGED <<buddy, tally, freepool, spare>>
        /\ UNCHANGED <<large, job, flushes>>

\* flush at shutdown: for pool after pool, suck and clear
Flush(h, o) ==
    /\ job[h] = Idle /\ flushes < Flushes /\ flushes' = flushes + 1 /\ Suck(h, o, "clear")

\* clear: every page of the pool without a block in use goes back
Clear(h) ==
    LET o == job[h].pool
        pages == {page \in FrameIds : tally[page].owner = o /\ tally[page].used = 0}
    IN  /\ job[h].at = "clear" /\ Go(h, Idle)
        /\ tally' = [page \in FrameIds |-> IF page \in pages THEN NoCell ELSE tally[page]]
        /\ freepool' = [freepool EXCEPT ![o] =
              FoldSet(LAMBDA page, list : Drained(list, page), @, pages)]
        /\ buddy' = FoldSet(LAMBDA page, b : MergeBlock(b, page, 0), buddy, pages)
        /\ spare' = [spare EXCEPT ![o] = NoPage]
        /\ UNCHANGED <<pump, out, large, flushes>>

Next ==
    \E h \in Harts :
        \/ \E pages \in Larges : TakeLarge(h, pages)
        \/ \E x \in large : GiveLarge(h, x)
        \/ \E x \in out : Give(h, x)
        \/ Take(h) \/ Pull(h) \/ PushChain(h) \/ Clear(h)
        \/ \E o \in Harts : Flush(h, o)

----------------------------------------------------------------------------
(* Properties. *)

PoolPages == {page \in FrameIds : tally[page] # NoCell}
InChains(page) ==
    UNION {{x \in Range(job[h].chain) : PageOf(x) = page} :
           h \in {g \in Harts : job[g].at = "push"}}
InPumps(page) == {x \in UNION {Range(pump[h]) : h \in Harts} : PageOf(x) = page}
InPools(page) == {x \in UNION {Range(freepool[h]) : h \in Harts} : PageOf(x) = page}
InUse(page) == {x \in out : PageOf(x) = page}

\* Every variable has its type.
TypeOK ==
    /\ \A page \in FrameIds : tally[page] = NoCell \/
          (tally[page].owner \in Harts /\ tally[page].used \in 0 .. Slots)
    /\ \A h \in Harts : spare[h] \in FrameIds \cup {NoPage}
    /\ \A h \in Harts : job[h].at \in {"idle", "push", "pull", "clear"}

\* The frame allocator never hands a page out twice and never loses one: free blocks,
\* direct allocations and the pages of the pools tile the memory, and split blocks come
\* together again (split_block, merge_block, prime, drain).
FramesTiled ==
    /\ Tiled(buddy, large \cup {<<page, 0>> : page \in PoolPages})
    /\ Coalesced(buddy)

\* Every block of a pool's page is in exactly one place: in use, in the list of the
\* pool that owns the page, in a pump, or in the chain a hart carries.  The tally counts
\* those that are not in the list, so a page goes back only when all its blocks are.
BlocksOnce ==
    /\ \A page \in FrameIds \ PoolPages :
          InUse(page) \cup InPools(page) \cup InPumps(page) \cup InChains(page) = {}
    /\ \A page \in PoolPages :
          /\ InUse(page) \cup InPools(page) \cup InPumps(page) \cup InChains(page) = BlocksOf(page)
          /\ Cardinality(InUse(page)) + Cardinality(InPools(page)) + Cardinality(InPumps(page))
               + Cardinality(InChains(page)) = Slots
          /\ tally[page].used = Slots - Cardinality(InPools(page))
          /\ InPools(page) \subseteq Range(freepool[tally[page].owner])
    /\ \A h \in Harts : IsInjective(freepool[h]) /\ IsInjective(pump[h])

\* A pool keeps at most one empty page, the one it knows as spare: memory that nobody
\* uses goes back to the frame allocator.
OneSpare ==
    \A h \in Harts : \A page \in PoolPages :
        tally[page].owner = h => (tally[page].used = 0 <=> spare[h] = page)

=============================================================================
