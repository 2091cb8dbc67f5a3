------------------------------ MODULE MCMemory -----------------------------
(****************************************************************************)
(* Small instances of the memory components: address spaces with their page *)
(* tables, views and addresses, the transfer of pages between Flats, the    *)
(* shootdown, and the allocators below them.  As in MCObjects a behaviour   *)
(* picks one part, one pool of variables serves them all, and what a part   *)
(* does not use stays 0.                                                    *)
(****************************************************************************)
EXTENDS Integers, FiniteSets, Sequences, TLC

CONSTANTS None, a1, a2, p1, p2, p3, fa, fb, f1, f2, v1, v2, v4, v5, n1, n2, h1, h2

VARIABLES part, x1, x2, x3, x4, x5, x6, x7, x8, x9, x10, x11, x12, x13, x14, x15, x16, x17, x18,
          x19, x20

\* p1 and p2 are pages of Flat fa, p3 is of Flat fb.
FlatOf(p) == IF p = p3 THEN fb ELSE fa
\* v1 and v2 map p1 in two nests; v4 and v5 map p3 of the other Flat.
WindowOf(v) == IF v \in {v4, v5} THEN {p3} ELSE {p1}
NestOf(v) == IF v = v2 THEN n2 ELSE n1

\* A placement of the address tree: a window and a policy, or a static address.
Place(region, size, align, at, start) ==
    [region |-> region, size |-> size, align |-> align, at |-> at, start |-> start]
Places ==
    {Place("normal", 1, 1, "lowest", 0), Place("normal", 2, 2, "lowest", 0),
     Place("normal", 3, 1, "lowest", 0), Place("kernel", 1, 1, "highest", 0),
     Place("static", 1, 1, "exact", 5)}

Map == INSTANCE Nest WITH
    Actors <- {a1, a2}, Pages <- {0, 1}, MaxId <- 1, MaxSize <- 2, MaxFail <- 0,
    Levels <- {1, 2}, Ops <- {"publish", "access", "narrow"}, slot <- x1, nextId <- x2,
    cleanups <- x3, reserved <- x4, held <- x5, index <- x6, active <- x7, ceiling <- x8,
    published <- x9, pte <- x10, stale <- x11, inv <- x12, phase <- x13, retired <- x14,
    pending <- x15, tickets <- x16, chain <- x17, freed <- x18, fails <- x19, job <- x20

Unmap == INSTANCE Nest WITH
    Actors <- {a1, a2}, Pages <- {0, 1}, MaxId <- 1, MaxSize <- 2, MaxFail <- 1,
    Levels <- {1}, Ops <- {"detach", "release"}, slot <- x1, nextId <- x2, cleanups <- x3,
    reserved <- x4, held <- x5, index <- x6, active <- x7, ceiling <- x8, published <- x9,
    pte <- x10, stale <- x11, inv <- x12, phase <- x13, retired <- x14, pending <- x15,
    tickets <- x16, chain <- x17, freed <- x18, fails <- x19, job <- x20

Retry == INSTANCE Nest WITH
    Actors <- {a1, a2}, Pages <- {0}, MaxId <- 2, MaxSize <- 1, MaxFail <- 1, Levels <- {1},
    Ops <- {"retry"}, slot <- x1, nextId <- x2, cleanups <- x3, reserved <- x4, held <- x5,
    index <- x6, active <- x7, ceiling <- x8, published <- x9, pte <- x10, stale <- x11,
    inv <- x12, phase <- x13, retired <- x14, pending <- x15, tickets <- x16, chain <- x17,
    freed <- x18, fails <- x19, job <- x20

Close == INSTANCE Nest WITH
    Actors <- {a1, a2}, Pages <- {0}, MaxId <- 2, MaxSize <- 1, MaxFail <- 1, Levels <- {1},
    Ops <- {"close", "retry"}, slot <- x1, nextId <- x2, cleanups <- x3, reserved <- x4,
    held <- x5, index <- x6, active <- x7, ceiling <- x8, published <- x9, pte <- x10,
    stale <- x11, inv <- x12, phase <- x13, retired <- x14, pending <- x15, tickets <- x16,
    chain <- x17, freed <- x18, fails <- x19, job <- x20

Move == INSTANCE Transfer WITH
    Actors <- {a1, a2}, Pages <- {p1, p2}, Flat <- FlatOf, Frames <- {f1, f2},
    Views <- {v1, v2}, Window <- WindowOf, Owner <- NestOf, Global <- {}, MaxFail <- 0,
    Ops <- {"attach", "fault"}, slot <- x1, pins <- x2, plain <- x3, registered <- x4,
    index <- x5, chain <- x6, published <- x7, stale <- x8, dirty <- x9, fails <- x10,
    job <- x11

Fault == INSTANCE Transfer WITH
    Actors <- {a1, a2}, Pages <- {p1, p2}, Flat <- FlatOf, Frames <- {f1, f2},
    Views <- {v1}, Window <- WindowOf, Owner <- NestOf, Global <- {}, MaxFail <- 1,
    Ops <- {"attach", "fault", "dispose"}, slot <- x1, pins <- x2, plain <- x3,
    registered <- x4, index <- x5, chain <- x6, published <- x7, stale <- x8, dirty <- x9,
    fails <- x10, job <- x11

Fix == INSTANCE Transfer WITH
    Actors <- {a1, a2}, Pages <- {p2, p3}, Flat <- FlatOf, Frames <- {f1, f2},
    Views <- {v4, v5}, Window <- WindowOf, Owner <- NestOf, Global <- {v5}, MaxFail <- 1,
    Ops <- {"attach", "fault", "hold"}, slot <- x1, pins <- x2, plain <- x3,
    registered <- x4, index <- x5, chain <- x6, published <- x7, stale <- x8, dirty <- x9,
    fails <- x10, job <- x11

Shoot == INSTANCE Shootdown WITH
    Harts <- {h1, h2}, First <- h1, Spaces <- {1}, MaxStamp <- 2, Ops <- {"table"},
    lease <- x1, syncAsked <- x2, online <- x3, wait <- x4, table <- x5, code <- x6,
    tlb <- x7, icache <- x8, mode <- x9, aim <- x10, used <- x11, told <- x12,
    codeTold <- x13, shot <- x14, stamp <- x15

Sync == INSTANCE Shootdown WITH
    Harts <- {h1, h2}, First <- h1, Spaces <- {1}, MaxStamp <- 2, Ops <- {"code"},
    lease <- x1, syncAsked <- x2, online <- x3, wait <- x4, table <- x5, code <- x6,
    tlb <- x7, icache <- x8, mode <- x9, aim <- x10, used <- x11, told <- x12,
    codeTold <- x13, shot <- x14, stamp <- x15

Table == INSTANCE Tables WITH
    Fan <- 2, Levels <- 3, Runs <- {<<0, 4, 4>>, <<1, 1, 3>>, <<4, 0, 2>>, <<5, 8, 3>>},
    Cuts <- {<<0, 1>>, <<1, 2>>, <<3, 1>>, <<0, 4>>, <<5, 1>>, <<4, 4>>}, Rights <- {"r"},
    MaxTables <- 3, MapStarves <- FALSE, root <- x1, image <- x2

Viewed == INSTANCE Views WITH
    Top <- 4, MaxViews <- 4, Levels <- 1, active <- x1, tree <- x2, len <- x3, book <- x4

Address == INSTANCE Addresses WITH
    Top <- 5, Windows <- ("normal" :> <<1, 4>>) @@ ("kernel" :> <<4, 5>>), Raised <- {2},
    Placements <- Places, MaxId <- 3, MaxTicket <- 2, window <- x1, slots <- x2,
    cleanups <- x3, ids <- x4, tickets <- x5, published <- x6, ground <- x7

Frame == INSTANCE Heap WITH
    FrameCount <- 7, FrameHoles <- {3}, Harts <- {h1, h2}, Slots <- 2, Larges <- {1, 2, 3},
    MaxBlocks <- 0, MaxLarge <- 4, Flushes <- 0, buddy <- x1, tally <- x2, freepool <- x3,
    spare <- x4, pump <- x5, out <- x6, large <- x7, job <- x8, flushes <- x9

Block == INSTANCE Heap WITH
    FrameCount <- 2, FrameHoles <- {}, Harts <- {h1, h2}, Slots <- 2, Larges <- {1},
    MaxBlocks <- 2, MaxLarge <- 1, Flushes <- 1, buddy <- x1, tally <- x2, freepool <- x3,
    spare <- x4, pump <- x5, out <- x6, large <- x7, job <- x8, flushes <- x9

Bin == INSTANCE Spare WITH
    Region <- 10, Header <- 2, Needs <- {1, 2, 4}, Bits <- 0, Runs <- {}, Edge <- 0,
    Aligns <- {}, Sizes <- {}, blks <- x1, taken <- x2, bits <- x3, runs <- x4, used <- x5,
    bumped <- x6

Bump == INSTANCE Spare WITH
    Region <- 2, Header <- 2, Needs <- {}, Bits <- 4, Runs <- {1, 2}, Edge <- 6,
    Aligns <- {1, 2, 4}, Sizes <- {1, 2}, blks <- x1, taken <- x2, bits <- x3, runs <- x4,
    used <- x5, bumped <- x6

ASSUME Map!Assumptions /\ Unmap!Assumptions /\ Retry!Assumptions /\ Close!Assumptions
ASSUME Move!Assumptions /\ Fault!Assumptions /\ Fix!Assumptions /\ Shoot!Assumptions
ASSUME Sync!Assumptions /\ Table!Assumptions /\ Viewed!Assumptions /\ Address!Assumptions
ASSUME Frame!Assumptions /\ Block!Assumptions /\ Bin!Assumptions /\ Bump!Assumptions

vars == <<part, x1, x2, x3, x4, x5, x6, x7, x8, x9, x10, x11, x12, x13, x14, x15, x16, x17, x18,
            x19, x20>>

\* RestK holds what a part of K variables leaves alone, ZeroK says it is unused.
Rest20 == <<part>>
Rest15 == <<x16, x17, x18, x19, x20, Rest20>>
Rest11 == <<x12, x13, x14, x15, Rest15>>
Rest9 == <<x10, x11, Rest11>>
Rest7 == <<x8, x9, Rest9>>
Rest6 == <<x7, Rest7>>
Rest4 == <<x5, x6, Rest6>>
Rest2 == <<x3, x4, Rest4>>

Zero15 == x16 = 0 /\ x17 = 0 /\ x18 = 0 /\ x19 = 0 /\ x20 = 0
Zero11 == x12 = 0 /\ x13 = 0 /\ x14 = 0 /\ x15 = 0 /\ Zero15
Zero9 == x10 = 0 /\ x11 = 0 /\ Zero11
Zero7 == x8 = 0 /\ x9 = 0 /\ Zero9
Zero6 == x7 = 0 /\ Zero7
Zero4 == x5 = 0 /\ x6 = 0 /\ Zero6
Zero2 == x3 = 0 /\ x4 = 0 /\ Zero4

Init ==
    \/ Zero2 /\ part = "tables" /\ Table!Init
    \/ Zero4 /\ part = "views" /\ Viewed!Init
    \/ /\ Zero6
       /\ \/ part = "bins" /\ Bin!Init
          \/ part = "bump" /\ Bump!Init
    \/ Zero7 /\ part = "addresses" /\ Address!Init
    \/ /\ Zero9
       /\ \/ part = "frames" /\ Frame!Init
          \/ part = "blocks" /\ Block!Init
    \/ /\ Zero11
       /\ \/ part = "move" /\ Move!Init
          \/ part = "fault" /\ Fault!Init
          \/ part = "fix" /\ Fix!Init
    \/ /\ Zero15
       /\ \/ part = "shoot" /\ Shoot!Init
          \/ part = "sync" /\ Sync!Init
    \/ part = "map" /\ Map!Init
    \/ part = "unmap" /\ Unmap!Init
    \/ part = "retry" /\ Retry!Init
    \/ part = "close" /\ Close!Init

Next ==
    \/ part = "map" /\ Map!Next /\ UNCHANGED Rest20
    \/ part = "unmap" /\ Unmap!Next /\ UNCHANGED Rest20
    \/ part = "retry" /\ Retry!Next /\ UNCHANGED Rest20
    \/ part = "close" /\ Close!Next /\ UNCHANGED Rest20
    \/ part = "move" /\ Move!Next /\ UNCHANGED Rest11
    \/ part = "fault" /\ Fault!Next /\ UNCHANGED Rest11
    \/ part = "fix" /\ Fix!Next /\ UNCHANGED Rest11
    \/ part = "shoot" /\ Shoot!Next /\ UNCHANGED Rest15
    \/ part = "sync" /\ Sync!Next /\ UNCHANGED Rest15
    \/ part = "tables" /\ Table!Next /\ UNCHANGED Rest2
    \/ part = "views" /\ Viewed!Next /\ UNCHANGED Rest4
    \/ part = "addresses" /\ Address!Next /\ UNCHANGED Rest7
    \/ part = "frames" /\ Frame!Next /\ UNCHANGED Rest9
    \/ part = "blocks" /\ Block!Next /\ UNCHANGED Rest9
    \/ part = "bins" /\ Bin!Next /\ UNCHANGED Rest6
    \/ part = "bump" /\ Bump!Next /\ UNCHANGED Rest6

Spec == Init /\ [][Next]_vars

Symmetry == Permutations({a1, a2})

\* A space whose tables run short: the preparation of a mapping may fail half way.
Starved == INSTANCE Tables WITH
    Fan <- 2, Levels <- 3, Runs <- {<<0, 0, 4>>, <<1, 0, 1>>}, Cuts <- {<<0, 4>>}, Rights <- {"r"},
    MaxTables <- 3, MapStarves <- TRUE, root <- x1, image <- x2

StarveSpec ==
    /\ part = "starve" /\ Zero2 /\ Starved!Init
    /\ [][Starved!Next /\ UNCHANGED Rest2]_vars

----------------------------------------------------------------------------
(* Properties.  Each is stated in its component's module. *)

Is(p) == part = p

\* Every variable keeps its type.  A page has an entry exactly when its view
\* published it and is active there, with the access the view has, and occupies
\* it without a ticket (Nest::audit); and the harts have nothing old to forget
\* when the space says it is clean.
Audit ==
    /\ Is("map") => Map!TypeOK /\ Map!Audit /\ Map!CleanIsFlushed
    /\ Is("unmap") => Unmap!TypeOK /\ Unmap!Audit /\ Unmap!CleanIsFlushed
    /\ Is("close") => Close!TypeOK
    /\ Is("move") => Move!TypeOK
    /\ Is("fault") => Fault!TypeOK
    /\ Is("fix") => Fix!TypeOK
    /\ Is("shoot") => Shoot!TypeOK

\* Where memory is, three structures say the same as a flat table would: the
\* page table walks to the frame each mapping named, whatever superpages were
\* split, and owns each table once; the index of views finds the view of an
\* address through every rotation; and the free list of addresses gives what
\* the reference allocation gives.
Located ==
    /\ Is("tables") => Table!Translates /\ Table!Owned /\ Table!Trim
    /\ Is("views") => Viewed!FoundExact /\ Viewed!IndexSound /\ Viewed!CoverExact
    /\ Is("addresses") => Address!TableExact /\ Address!ChosenExact /\ Address!RecordKept

\* No byte of memory is in two places: frames on the buddy lists, slabs and
\* blocks on lists, in magazines or with a user tile the memory, a bin keeps
\* one spare slab at most, a bitmap run is never handed out twice, and what the
\* early bump allocator and the spare region give out stays apart.
Allocated ==
    /\ Is("frames") => Frame!TypeOK /\ Frame!FramesTiled /\ Frame!BlocksOnce /\ Frame!OneSpare
    /\ Is("blocks") => Block!TypeOK /\ Block!FramesTiled /\ Block!BlocksOnce /\ Block!OneSpare
    /\ Is("bins") => Bin!SpareTiled
    /\ Is("bump") => Bump!SpareTiled /\ Bump!BitsExact /\ Bump!BumpApart

\* While some hart may hold an old translation of a page, the page belongs to
\* the reservation it was mapped for.  With retry_invalidation at work the
\* weaker form holds: the page is not mapped for another view.  An ASID is
\* given back only by a closed space that no hart remembers.
NoReuse ==
    /\ Is("unmap") => Unmap!NoReuse
    /\ Is("retry") => Retry!NoAlias
    /\ Is("close") => Close!FreedIsQuiet

\* A page that retires is settled by someone: its ticket is listed or in a
\* call's hands.  A view no caller holds and that still occupies pages is on
\* the cleanup chain or in a call's hands: a failed dispose loses nothing.  A
\* task asleep on a page that has its frame again is owed a wake.
Owed ==
    /\ Is("retry") => Retry!TicketOwed /\ Retry!DisposeOwed
    /\ Is("fault") => Fault!PageHeard

\* What a hart can reach through a view, by a current entry or by one it has
\* not forgotten, is the frame its page holds; a frame is in one slot; and no
\* page in transit is covered by a residency or an entry no shootdown can
\* remove.
NoStaleCarrier ==
    /\ Is("move") => Move!NoStaleCarrier /\ Move!OneHome
    /\ Is("fault") => Fault!NoStaleCarrier /\ Fault!OneHome
    /\ Is("fix") => Fix!NoStaleCarrier /\ Fix!FixedStays

\* What shootdown and sync_instructions promise when they return Ok: no hart
\* translates by an older entry, none in user mode fetches older code, whatever
\* it was doing while its lease was looked at.
Confirmed ==
    /\ Is("shoot") => Shoot!Confirmed
    /\ Is("sync") => Sync!CodeFresh

\* A tombstone becomes a page again only by a transfer into it.
TombstoneKept ==
    [][/\ Is("move") => Move!TombstoneKeptStep
       /\ Is("fix") => Fix!TombstoneKeptStep]_vars

\* A table is owned exactly once, by the branch entry that leads to it (the
\* asserts of visit_leaves and unmap_range), although a mapping's preparation
\* may fail half way and leave tables without a mapping.
TableOwned == Starved!Owned

=============================================================================
