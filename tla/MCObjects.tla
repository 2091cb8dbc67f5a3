----------------------------- MODULE MCObjects -----------------------------
(****************************************************************************)
(* Small instances of the objects tasks share through the kernel: holes,    *)
(* event groups and bells, pies, shared memory, and guards of teams.  They  *)
(* have no state in common and no step of two of them at once, so their     *)
(* interleavings show nothing that each of them does not show alone: a      *)
(* behaviour picks one part.  One pool of variables serves them all; what a *)
(* part does not use stays 0.  Parts queue, signal and hush are holes of    *)
(* different users, hear and forward are event groups of different limits,  *)
(* tree, sole and grant are the pies of three resources, flat and deep are  *)
(* guards in two team trees, and the pole parts are memory under different  *)
(* calls.                                                                   *)
(****************************************************************************)
EXTENDS Integers, Sequences, TLC

CONSTANTS Nil,
          w1, w2, r1, r2, v1, q1, su, e1, x1,          \* users of holes
          a1, a2, g1, g2, b1,                          \* users of groups, groups, a bell
          t1, t2, vest, fetch,                         \* holders of pies, rights
          root, dom, sub, sup, m1, m2, leaf, h1, h2    \* teams, tasks, harts

VARIABLES part, y1, y2, y3, y4, y5, y6, y7, y8, y9, y10, y11, y12, y13

Queue == INSTANCE Hole WITH
    Writer <- {w1, w2}, Reader <- {r1, r2}, Husher <- {}, Drainer <- {}, Ringer <- {},
    Bounded <- {}, Sealer <- x1, MaxMessages <- 2, MaxBytes <- 2, Lengths <- {1},
    RingCap <- 2, MaxSend <- 1, None <- Nil, kind <- y1, hands <- y2, taking <- y3,
    bytes <- y4, count <- y5, chain <- y6, pend <- y7, pc <- y8, len <- y9, sent <- y10,
    hold <- y11, todo <- y12, out <- y13

Signal == INSTANCE Hole WITH
    Writer <- {v1}, Reader <- {q1}, Husher <- {}, Drainer <- {e1}, Ringer <- {v1},
    Bounded <- {v1, e1}, Sealer <- x1, MaxMessages <- 2, MaxBytes <- 2, Lengths <- {2},
    RingCap <- 2, MaxSend <- 1, None <- Nil, kind <- y1, hands <- y2, taking <- y3,
    bytes <- y4, count <- y5, chain <- y6, pend <- y7, pc <- y8, len <- y9, sent <- y10,
    hold <- y11, todo <- y12, out <- y13

Hush == INSTANCE Hole WITH
    Writer <- {v1}, Reader <- {}, Husher <- {su}, Drainer <- {e1}, Ringer <- {v1},
    Bounded <- {v1, e1}, Sealer <- x1, MaxMessages <- 2, MaxBytes <- 2, Lengths <- {2},
    RingCap <- 2, MaxSend <- 1, None <- Nil, kind <- y1, hands <- y2, taking <- y3,
    bytes <- y4, count <- y5, chain <- y6, pend <- y7, pc <- y8, len <- y9, sent <- y10,
    hold <- y11, todo <- y12, out <- y13

Hear == INSTANCE Tole WITH
    Actors <- {a1, a2}, Groups <- {g1}, Bells <- {b1}, Owner <- [x \in {g1, b1} |-> a1],
    Watched <- {<<a2, b1>>}, FwdMax <- 2, MaxCells <- 1, Bounded <- {a2}, MayFail <- TRUE,
    None <- Nil, live <- y1, ring <- y2, cells <- y3, cursor <- y4, pies <- y5, weak <- y6,
    fwd <- y7, line <- y8, seat <- y9, beacon <- y10, at <- y11, due <- y12

Forward == INSTANCE Tole WITH
    Actors <- {a1}, Groups <- {g1, g2}, Bells <- {b1}, Owner <- [x \in {g1, g2, b1} |-> a1],
    Watched <- {<<a1, b1>>}, FwdMax <- 1, MaxCells <- 2, Bounded <- {a1}, MayFail <- TRUE,
    None <- Nil, live <- y1, ring <- y2, cells <- y3, cursor <- y4, pies <- y5, weak <- y6,
    fwd <- y7, line <- y8, seat <- y9, beacon <- y10, at <- y11, due <- y12

Tree == INSTANCE Pend WITH
    Tasks <- {t1, t2}, Root <- t1, Rights <- {vest}, Vest <- vest, Only <- FALSE,
    MaxToken <- 3, None <- Nil, pie <- y1, heirs <- y2, next <- y3, sealed <- y4,
    dead <- y5, op <- y6

Sole == INSTANCE Pend WITH
    Tasks <- {t1, t2}, Root <- t1, Rights <- {vest}, Vest <- vest, Only <- TRUE,
    MaxToken <- 3, None <- Nil, pie <- y1, heirs <- y2, next <- y3, sealed <- y4,
    dead <- y5, op <- y6

Grant == INSTANCE Pend WITH
    Tasks <- {t1}, Root <- t1, Rights <- {vest, fetch}, Vest <- vest, Only <- FALSE,
    MaxToken <- 3, None <- Nil, pie <- y1, heirs <- y2, next <- y3, sealed <- y4,
    dead <- y5, op <- y6

\* What the theorems about Pend assume of its constants.
ASSUME GrantAssumption == Tree!Assumptions /\ Sole!Assumptions /\ Grant!Assumptions

Flat == INSTANCE ExitGuard WITH
    Teams <- {root, dom}, Tasks <- {sup, m1, m2}, Harts <- {h1, h2},
    Home <- (sup :> root) @@ (m1 :> dom) @@ (m2 :> dom),
    Sire <- (root :> Nil) @@ (dom :> sup), Authorized <- {sup}, DeathsMax <- 1, None <- Nil,
    phase <- y1, axis <- y2, listed <- y3, exit <- y4, run <- y5, stack <- y6, commit <- y7,
    cleaned <- y8, alarmer <- y9, halt <- y10

Deep == INSTANCE ExitGuard WITH
    Teams <- {root, dom, sub}, Tasks <- {sup, m1, leaf}, Harts <- {h1, h2},
    Home <- (sup :> root) @@ (m1 :> dom) @@ (leaf :> sub),
    Sire <- (root :> Nil) @@ (dom :> sup) @@ (sub :> m1), Authorized <- {sup, m1},
    DeathsMax <- 1, None <- Nil, phase <- y1, axis <- y2, listed <- y3, exit <- y4,
    run <- y5, stack <- y6, commit <- y7, cleaned <- y8, alarmer <- y9, halt <- y10

PoleOpen == INSTANCE Pole WITH
    Tasks <- {t1, t2}, Owner <- t1, Space <- [t \in {t1, t2} |-> t], Mortal <- {},
    Keepers <- {}, Pages <- {0, 1}, Windows <- {{0, 1}}, MaxSource <- 1, MaxToken <- 2,
    MaxHold <- 2, MaxView <- 2, Failures <- 1,
    Ops <- {"acquire", "create", "accord", "open", "revoke", "attach"}, source <- y1,
    pie <- y2, hold <- y3, view <- y4, job <- y5, dead <- y6, closed <- y7, minted <- y8,
    faults <- y9

PoleMap == INSTANCE Pole WITH
    Tasks <- {t1, t2}, Owner <- t1, Space <- [t \in {t1, t2} |-> t], Mortal <- {},
    Keepers <- {}, Pages <- {0, 1}, Windows <- {{0, 1}}, MaxSource <- 1, MaxToken <- 2,
    MaxHold <- 2, MaxView <- 2, Failures <- 1,
    Ops <- {"acquire", "attach", "detach", "create", "accord", "revoke"}, source <- y1,
    pie <- y2, hold <- y3, view <- y4, job <- y5, dead <- y6, closed <- y7, minted <- y8,
    faults <- y9

PoleClose == INSTANCE Pole WITH
    Tasks <- {t1, t2}, Owner <- t1, Space <- [t \in {t1, t2} |-> t], Mortal <- {},
    Keepers <- {}, Pages <- {0, 1}, Windows <- {{0, 1}, {1}}, MaxSource <- 2, MaxToken <- 2,
    MaxHold <- 2, MaxView <- 1, Failures <- 1,
    Ops <- {"acquire", "create", "accord", "attach", "seal"}, source <- y1, pie <- y2,
    hold <- y3, view <- y4, job <- y5, dead <- y6, closed <- y7, minted <- y8, faults <- y9

PoleSeal == INSTANCE Pole WITH
    Tasks <- {t1, t2}, Owner <- t1, Space <- [t \in {t1, t2} |-> t], Mortal <- {},
    Keepers <- {}, Pages <- {0, 1}, Windows <- {{0, 1}, {1}}, MaxSource <- 2, MaxToken <- 3,
    MaxHold <- 2, MaxView <- 1, Failures <- 1,
    Ops <- {"acquire", "create", "open", "seal", "revoke"}, source <- y1, pie <- y2,
    hold <- y3, view <- y4, job <- y5, dead <- y6, closed <- y7, minted <- y8, faults <- y9

PoleMove == INSTANCE Pole WITH
    Tasks <- {t1, t2}, Owner <- t1, Space <- [t \in {t1, t2} |-> t], Mortal <- {},
    Keepers <- {t1}, Pages <- {0, 1}, Windows <- {{0, 1}, {1}}, MaxSource <- 2,
    MaxToken <- 2, MaxHold <- 2, MaxView <- 1, Failures <- 0,
    Ops <- {"acquire", "create", "accord", "attach", "transfer"}, source <- y1, pie <- y2,
    hold <- y3, view <- y4, job <- y5, dead <- y6, closed <- y7, minted <- y8, faults <- y9

PoleDie == INSTANCE Pole WITH
    Tasks <- {t1, t2}, Owner <- t1, Space <- [t \in {t1, t2} |-> t], Mortal <- {t1, t2},
    Keepers <- {}, Pages <- {0, 1}, Windows <- {{0, 1}}, MaxSource <- 1, MaxToken <- 2,
    MaxHold <- 2, MaxView <- 1, Failures <- 0,
    Ops <- {"acquire", "create", "accord", "attach", "open"}, source <- y1, pie <- y2,
    hold <- y3, view <- y4, job <- y5, dead <- y6, closed <- y7, minted <- y8, faults <- y9

PoleKeep == INSTANCE Pole WITH
    Tasks <- {t1}, Owner <- t1, Space <- [t \in {t1} |-> t], Mortal <- {}, Keepers <- {t1},
    Pages <- {0, 1}, Windows <- {{0, 1}, {1}}, MaxSource <- 2, MaxToken <- 2, MaxHold <- 3,
    MaxView <- 0, Failures <- 0, Ops <- {"acquire", "create", "revoke"}, source <- y1,
    pie <- y2, hold <- y3, view <- y4, job <- y5, dead <- y6, closed <- y7, minted <- y8,
    faults <- y9

PoleForget == INSTANCE Pole WITH
    Tasks <- {t1, t2}, Owner <- t1, Space <- [t \in {t1, t2} |-> t], Mortal <- {},
    Keepers <- {}, Pages <- {0, 1}, Windows <- {{0, 1}}, MaxSource <- 1, MaxToken <- 2,
    MaxHold <- 1, MaxView <- 1, Failures <- 0,
    Ops <- {"acquire", "create", "accord", "attach", "forget"}, source <- y1, pie <- y2,
    hold <- y3, view <- y4, job <- y5, dead <- y6, closed <- y7, minted <- y8, faults <- y9

ASSUME Queue!Assumptions /\ Signal!Assumptions /\ Hush!Assumptions /\ Hear!Assumptions
ASSUME Forward!Assumptions /\ Tree!Assumptions /\ Sole!Assumptions /\ Grant!Assumptions
ASSUME PoleOpen!Assumptions /\ PoleMap!Assumptions /\ PoleClose!Assumptions /\ PoleSeal!Assumptions
ASSUME PoleMove!Assumptions /\ PoleDie!Assumptions /\ PoleKeep!Assumptions /\ PoleForget!Assumptions

vars == <<part, y1, y2, y3, y4, y5, y6, y7, y8, y9, y10, y11, y12, y13>>

\* RestK holds what a part of K variables leaves alone, ZeroK says it is unused.
Rest13 == <<part>>
Rest12 == <<y13, Rest13>>
Rest10 == <<y11, y12, Rest12>>
Rest9 == <<y10, Rest10>>
Rest6 == <<y7, y8, y9, Rest9>>

Zero12 == y13 = 0
Zero10 == y11 = 0 /\ y12 = 0 /\ Zero12
Zero9 == y10 = 0 /\ Zero10
Zero6 == y7 = 0 /\ y8 = 0 /\ y9 = 0 /\ Zero9

Init ==
    \/ /\ Zero6
       /\ \/ part = "tree" /\ Tree!Init
          \/ part = "sole" /\ Sole!Init
          \/ part = "grant" /\ Grant!Init
    \/ /\ Zero9
       /\ \/ part = "pole_open" /\ PoleOpen!Init
          \/ part = "pole_map" /\ PoleMap!Init
          \/ part = "pole_close" /\ PoleClose!Init
          \/ part = "pole_seal" /\ PoleSeal!Init
          \/ part = "pole_move" /\ PoleMove!Init
          \/ part = "pole_die" /\ PoleDie!Init
          \/ part = "pole_keep" /\ PoleKeep!Init
          \/ part = "pole_forget" /\ PoleForget!Init
    \/ /\ Zero10
       /\ \/ part = "flat" /\ Flat!Init
          \/ part = "deep" /\ Deep!Init
    \/ /\ Zero12
       /\ \/ part = "hear" /\ Hear!Init
          \/ part = "forward" /\ Forward!Init
    \/ part = "queue" /\ Queue!Init
    \/ part = "signal" /\ Signal!Init
    \/ part = "hush" /\ Hush!Init

Next ==
    \/ part = "queue" /\ Queue!Next /\ UNCHANGED Rest13
    \/ part = "signal" /\ Signal!Next /\ UNCHANGED Rest13
    \/ part = "hush" /\ Hush!Next /\ UNCHANGED Rest13
    \/ part = "hear" /\ Hear!Next /\ UNCHANGED Rest12
    \/ part = "forward" /\ Forward!Next /\ UNCHANGED Rest12
    \/ part = "tree" /\ Tree!Next /\ UNCHANGED Rest6
    \/ part = "sole" /\ Sole!Next /\ UNCHANGED Rest6
    \/ part = "grant" /\ Grant!Next /\ UNCHANGED Rest6
    \/ part = "flat" /\ Flat!Next /\ UNCHANGED Rest10
    \/ part = "deep" /\ Deep!Next /\ UNCHANGED Rest10
    \/ part = "pole_open" /\ PoleOpen!Next /\ UNCHANGED Rest9
    \/ part = "pole_map" /\ PoleMap!Next /\ UNCHANGED Rest9
    \/ part = "pole_close" /\ PoleClose!Next /\ UNCHANGED Rest9
    \/ part = "pole_seal" /\ PoleSeal!Next /\ UNCHANGED Rest9
    \/ part = "pole_move" /\ PoleMove!Next /\ UNCHANGED Rest9
    \/ part = "pole_die" /\ PoleDie!Next /\ UNCHANGED Rest9
    \/ part = "pole_keep" /\ PoleKeep!Next /\ UNCHANGED Rest9
    \/ part = "pole_forget" /\ PoleForget!Next /\ UNCHANGED Rest9

Spec == Init /\ [][Next]_vars

Symmetry == Permutations({w1, w2}) \cup Permutations({r1, r2})

----------------------------------------------------------------------------
(* Properties.  Each is stated in its component's module. *)

Is(p) == part = p

\* The books are in order: every variable keeps its type (a death counter
\* saturates, no pie is without a right); a hole's account of bytes is exact
\* after any order of reserve, commit, drop and take, and the head of a live
\* hole is in the hands of exactly the reader that set taking; a memory
\* source's books name exactly the references and views that exist, and every
\* frame it took is held or on the way back.
Books ==
    /\ Is("queue") => Queue!TypeOK /\ Queue!BytesExact /\ Queue!OneReader
    /\ Is("signal") => Signal!TypeOK
    /\ Is("hush") => Hush!TypeOK
    /\ Is("hear") => Hear!TypeOK
    /\ Is("forward") => Forward!TypeOK
    /\ Is("tree") => Tree!TypeOK
    /\ Is("flat") => Flat!TypeOK
    /\ Is("deep") => Deep!TypeOK
    /\ Is("pole_open") => PoleOpen!TypeOK /\ PoleOpen!BooksAgree /\ PoleOpen!SlotKept /\ PoleOpen!NoLostSlot
    /\ Is("pole_map") => PoleMap!TypeOK /\ PoleMap!BooksAgree /\ PoleMap!SlotKept /\ PoleMap!NoLostSlot
    /\ Is("pole_close") => PoleClose!TypeOK /\ PoleClose!BooksAgree /\ PoleClose!SlotKept /\ PoleClose!NoLostSlot
    /\ Is("pole_seal") => PoleSeal!TypeOK /\ PoleSeal!BooksAgree /\ PoleSeal!SlotKept /\ PoleSeal!NoLostSlot
    /\ Is("pole_move") => PoleMove!TypeOK /\ PoleMove!BooksAgree /\ PoleMove!SlotKept /\ PoleMove!NoLostSlot
    /\ Is("pole_die") => PoleDie!TypeOK /\ PoleDie!BooksAgree /\ PoleDie!SlotKept /\ PoleDie!NoLostSlot
    /\ Is("pole_keep") => PoleKeep!TypeOK /\ PoleKeep!BooksAgree /\ PoleKeep!SlotKept /\ PoleKeep!NoLostSlot
    /\ Is("pole_forget") => PoleForget!TypeOK /\ PoleForget!BooksAgree /\ PoleForget!SlotKept /\ PoleForget!NoLostSlot

\* No lost wake: nobody sleeps on a hole, an event group or a bell that has
\* what it waits for (a message, an empty queue, a signal, an event of a cell,
\* the loss of a pie, a ring), unless another is about to look or a wake is on
\* its way.  And the wiring of event groups that carries the wakes: every site
\* a cell of a live group depends on forwards to the group, and no forward
\* outlives the cell or the waiter it was made for, however cells that share a
\* key come, fail and go.
Heard ==
    /\ Is("queue") => Queue!PullHeard /\ Queue!DrainedHeard
    /\ Is("signal") => Signal!EmptyHeard
    /\ Is("hush") => Hush!SignalHeard /\ Hush!EmptyHeard /\ Hush!DrainedHeard
    /\ Is("hear") => Hear!GroupHeard /\ Hear!RingHeard /\ Hear!Backed /\ Hear!NoStrayForward
    /\ Is("forward") => Forward!GroupHeard /\ Forward!Backed /\ Forward!NoStrayForward

\* The grant tree of a resource over many ledgers: a granted pie's lord still
\* holds the pie it came from and lists the child, no list names a pie that is
\* gone, the pie of an ONLY resource is never shared, and a task that is gone
\* holds nothing, however culls, grants, forgets and deaths of other tasks
\* interleave.  Nobody keeps access to memory after the grant is gone: a mapped
\* relation belongs to a pie that is there or that a cleanup is about to drop,
\* or is in the hands of the call that made it; and when Seal answers Ok,
\* nothing is mapped of the source or of any part of it, then and afterwards.
TreeSound ==
    /\ Is("tree") => Tree!NoOrphan /\ Tree!NoGhost /\ Tree!DoomComplete
    /\ Is("sole") => Sole!OneHolder
    /\ Is("pole_open") => PoleOpen!NoStrayMap /\ PoleOpen!SealedClosed
    /\ Is("pole_map") => PoleMap!NoStrayMap /\ PoleMap!SealedClosed
    /\ Is("pole_close") => PoleClose!NoStrayMap /\ PoleClose!SealedClosed
    /\ Is("pole_seal") => PoleSeal!NoStrayMap /\ PoleSeal!SealedClosed
    /\ Is("pole_move") => PoleMove!NoStrayMap /\ PoleMove!SealedClosed
    /\ Is("pole_die") => PoleDie!NoStrayMap /\ PoleDie!SealedClosed
    /\ Is("pole_keep") => PoleKeep!NoStrayMap /\ PoleKeep!SealedClosed

\* A task whose references are being cleaned up, or were, belongs to no team
\* whose guard is or was armed, at any height of the tree, and at most one team
\* on a path of the tree is protected (nested_domains).
GuardContained ==
    /\ Is("flat") => Flat!Contained
    /\ Is("deep") => Deep!Contained /\ Deep!NoOverlap

\* The hole implements a bounded FIFO (module Fifo), with reservations that
\* commit and drop out of order, failed copies and a seal at any time.
Fifo ==
    [][/\ Is("queue") => Queue!FifoStep]_vars

\* What a step may never do: let the rights of a pie grow, from one owner of a
\* token to the next or from a parent to the children a forget hands to it;
\* take a guard off while a member below it is dying; publish a use of a page
\* that is on its move to another source, or of frames another task keeps.
Kept ==
    [][/\ Is("grant") => Grant!NoAmplifyStep
       /\ Is("flat") => Flat!GuardHoldsStep
       /\ Is("pole_move") => PoleMove!FlightStep /\ PoleMove!KeptStep
       /\ Is("pole_keep") => PoleKeep!FlightStep /\ PoleKeep!KeptStep]_vars

=============================================================================
