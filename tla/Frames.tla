------------------------------- MODULE Frames -------------------------------
(***************************************************************************)
(* The frames user-land components exchange, one definition for each       *)
(* struct or codec, and what becomes of one frame on its way: a sender     *)
(* stores a value into the buffer of its family, the bytes arrive whole,   *)
(* cut short, lengthened or with one byte different (another program may   *)
(* write to the same hole), and the receiver decodes them or not at all.   *)
(*                                                                         *)
(* The frames rest on two layers, which come first: what the protocols     *)
(* demand of values beyond the layout, and the byte codec.                 *)
(***************************************************************************)
EXTENDS Integers, Sequences, FiniteSets, SequencesExt, Bitwise, TLC

----------------------------------------------------------------------------
(* What the user-land protocols demand of the values in their frames,      *)
(* beyond the layout.  A word of two, four or eight bytes is a tuple of    *)
(* 16-bit limbs, the lowest first (TLC's integers have 32 bits); a byte is *)
(* a number and a text is the sequence of its bytes.                       *)

Limb == 65536
Zero(w) == [i \in 1 .. w \div 2 |-> 0]
One(w) == [Zero(w) EXCEPT ![1] = 1]
NonZero(v) == \E i \in DOMAIN v : v[i] # 0

\* a < b for words of the same width
Below(a, b) ==
    \E i \in DOMAIN a : a[i] < b[i] /\ \A j \in DOMAIN a : j > i => a[j] = b[j]

\* ---- names ---------------------------------------------------------------

Slash == 47
Dot == 46

\* name::valid: what may stand between two slashes of a path
Valid(name) ==
    /\ Len(name) \in 1 .. 31
    /\ name \notin {<<Dot>>, <<Dot, Dot>>}
    /\ \A i \in DOMAIN name : name[i] # Slash /\ name[i] >= 32 /\ name[i] # 127

\* one step of the 64-bit FNV-1a hash on limbs, carrying into the next limb
Product(h, i) ==
    h[i] * 435 + (IF i > 2 THEN h[i - 2] * 256 ELSE 0)
Hash(h, byte) ==
    LET x == [h EXCEPT ![1] = h[1] ^^ byte]
        c1 == Product(x, 1)
        c2 == Product(x, 2) + c1 \div Limb
        c3 == Product(x, 3) + c2 \div Limb
        c4 == Product(x, 4) + c3 \div Limb
    IN  <<c1 % Limb, c2 % Limb, c3 % Limb, c4 % Limb>>

\* Mark::of: the slot a name is known by
MarkOf(name) == FoldLeft(Hash, <<8997, 33826, 40164, 52210>>, name)

\* operator Resolve: the name and its mark go together
Marked(v) == v[2] # <<>> /\ MarkOf(v[2]) = v[1]

\* operator Relative: the root has no number of its own
Rooted(v) == v[1] \in {0, 1} /\ (v[1] = 1 => ~NonZero(v[3]))

\* ---- identity: an Id is <<authority, slot>> --------------------------------

Authority(id) == id[1]
SameAuthority(v) == Authority(v[1]) = Authority(v[2])

\* Coalitions: of one nonzero authority, strictly increasing
Ordered(ids) ==
    \A i \in DOMAIN ids :
        /\ NonZero(Authority(ids[i])) /\ Authority(ids[i]) = Authority(ids[1])
        /\ i > 1 => Below(ids[i - 1][2], ids[i][2])

\* Subject: the principal's coalitions are of its own authority
SubjectSound(v) ==
    /\ NonZero(Authority(v[1])) /\ Ordered(v[2])
    /\ \A i \in DOMAIN v[2] : Authority(v[2][i]) = Authority(v[1])

\* Binding: what is active is part of what was given
BindingSound(v) ==
    /\ Authority(v[1][1]) = Authority(v[2][1])
    /\ ToSet(v[2][2]) \subseteq ToSet(v[1][2])

\* Members and Memberships: the cursor <<kind, authority, slot, revision, after>>
\* continues a listing of this object; an optional value is <<0, <<>>>> or <<1, v>>
CursorOf(kind, v) ==
    v[2][1] = 0 \/ LET c == v[2][2] IN c[1] = kind /\ <<c[2], c[3]>> = v[1]

\* Page: the next cursor stands after the last identity of this page
PageOf(kind, v) ==
    /\ Ordered(v[1])
    /\ v[2][1] = 0 \/
       LET c == v[2][2]
       IN  v[1] # <<>> /\ c[1] = kind /\ c[2] = Authority(v[1][1]) /\ c[5] = Last(v[1])[2]

\* OperatorEntryRef: <<operator, root, id, revision>>
EntrySound(v) == NonZero(v[1]) /\ (v[2] => ~NonZero(v[3]))

\* ---- devices ---------------------------------------------------------------

\* the wire codes of PieKind, and the bits a Permission may have
Pole == 0
Nole == 1
Hole == 2
Known == 15

\* ledger Name: the trap, call and page resources the kernel hands out;
\* only a region says where it begins
Legal(v) ==
    \/ <<v[1], v[2]>> \in {<<0, 0>>, <<0, 1>>, <<2, 0>>, <<2, 1>>} \cup ({1} \X (0 .. 3))
       /\ ~NonZero(v[4])
    \/ v[1] = 2 /\ v[2] = 2 /\ NonZero(v[4])

\* Name::kind
KindOf(name) ==
    CASE name[1] = 2 -> Pole [] name[1] = 0 /\ name[2] = 1 -> Hole [] OTHER -> Nole

\* Inventory::of: <<name, owner, kind, permission>> of every resource, each once
InventorySound(v) ==
    \A i \in DOMAIN v :
        /\ v[i][3] = KindOf(v[i][1]) /\ NonZero(v[i][4]) /\ v[i][4][2] = 0 /\ v[i][4][1] <= Known
        /\ \A j \in 1 .. i - 1 : v[j][1] # v[i][1]

\* Page::valid of the PCI inspection: <<status, next, requester, count, end, bytes>>
Capacity == 1
InspectionSound(v) ==
    IF v[1] # 0 THEN v[4] = 0 /\ v[5] = 0
    ELSE /\ v[2] = <<0, 1>> \/ v[2][2] = 0
         /\ v[4] <= 1 /\ v[5] \in 1 .. 3
         /\ v[4] = 0 \/ Below(<<v[3][1], 0>>, v[2])
         /\ v[4] # 0 \/ v[5] # Capacity
ScanSound(v) == v[1] = <<0, 1>> \/ v[1][2] = 0

\* coordination: every transaction names its hub, its serial and its execution
Coordinated(v) == NonZero(v[1]) /\ NonZero(v[2]) /\ NonZero(v[4])

----------------------------------------------------------------------------
(* The byte codec every user-land frame is built from (crates/wire, the    *)
(* derive of crates/mold): a form says which fields a frame has, and Store *)
(* and Fetch are the two halves the derive generates from it.  Both answer *)
(* a set with at most one element, the empty one where the code answers    *)
(* None.  Fetch consumes a prefix and hands back the rest.                 *)

\* ---- forms -----------------------------------------------------------------

Num(w) == [t |-> "num", w |-> w]
U8 == Num(1)
U16 == Num(2)
U32 == Num(4)
U64 == Num(8)
Flag == [t |-> "flag"]
Codes(S) == [t |-> "codes", of |-> S]
Text == [t |-> "text"]
Road == [t |-> "road"]
Rest(least, most) == [t |-> "rest", least |-> least, most |-> most]
Zeros(n, strict) == [t |-> "zeros", n |-> n, strict |-> strict]
Padded(w, cap, strict) == [t |-> "padded", w |-> w, cap |-> cap, strict |-> strict]
Many(T, cap) == [t |-> "many", of |-> T, cap |-> cap]
Counted(w, cap) == [t |-> "counted", w |-> w, cap |-> cap]
Cells(Ts) == [t |-> "cells", of |-> Ts]
Tagged(of) == [t |-> "tagged", of |-> of]
Option(T) == Tagged((0 :> Cells(<<>>)) @@ (1 :> T))
\* a field with a rule; both: the writer checks it as well as the reader
Checked(T, rule, both) == [t |-> "checked", of |-> T, rule |-> rule, both |-> both]
Like(T, base) == [t |-> "like", of |-> T, base |-> base]

Holds(rule, v) ==
    CASE rule = "nonzero" -> NonZero(v)
      [] rule = "nonempty" -> v # <<>>
      [] rule = "name" -> Valid(v)
      [] rule = "marked" -> Marked(v)
      [] rule = "rooted" -> Rooted(v)
      [] rule = "same" -> SameAuthority(v)
      [] rule = "ordered" -> Ordered(v)
      [] rule = "subject" -> SubjectSound(v)
      [] rule = "binding" -> BindingSound(v)
      [] rule = "members" -> CursorOf(0, v)
      [] rule = "memberships" -> CursorOf(1, v)
      [] rule = "memberpage" -> PageOf(0, v)
      [] rule = "membershippage" -> PageOf(1, v)
      [] rule = "entry" -> EntrySound(v)
      [] rule = "ledger" -> Legal(v)
      [] rule = "inventory" -> InventorySound(v)
      [] rule = "inspection" -> InspectionSound(v)
      [] rule = "scan" -> ScanSound(v)
      [] rule = "coordinated" -> Coordinated(v)

\* ---- bytes -----------------------------------------------------------------

Zeroed(n) == [i \in 1 .. n |-> 0]
Utf8(b) == \A i \in DOMAIN b : b[i] < 128

\* to_le_bytes
LittleEndian(v) == FlattenSeq([i \in DOMAIN v |-> <<v[i] % 256, v[i] \div 256>>])
\* from_le_bytes
Limbs(b) == [i \in 1 .. Len(b) \div 2 |-> b[2 * i - 1] + 256 * b[2 * i]]

NumBytes(w, v) == IF w = 1 THEN <<v>> ELSE LittleEndian(v)
NumValue(w, b) == IF w = 1 THEN b[1] ELSE Limbs(b)
\* a count of w bytes
Count(w, n) == NumBytes(w, IF w = 1 THEN n ELSE [Zero(w) EXCEPT ![1] = n])
Counts(w, b) ==
    IF w = 1 THEN b[1]
    ELSE Limbs(b)[1] + IF \E i \in 2 .. w \div 2 : Limbs(b)[i] # 0 THEN Limb ELSE 0

\* Road: the segments with a slash between them; reading drops empty segments
Joined(road) ==
    FlattenSeq([i \in DOMAIN road |-> IF i = 1 THEN road[i] ELSE <<Slash>> \o road[i]])
Split(b) ==
    LET starts == {i \in DOMAIN b : b[i] # Slash /\ (i = 1 \/ b[i - 1] = Slash)}
        ends == {i \in DOMAIN b : b[i] # Slash /\ (i = Len(b) \/ b[i + 1] = Slash)}
        Nth(S, k) == CHOOSE i \in S : Cardinality({j \in S : j <= i}) = k
    IN  [k \in 1 .. Cardinality(starts) |-> SubSeq(b, Nth(starts, k), Nth(ends, k))]
RoadMax == 8

\* fetch for bool: one of two bytes
FlagOf(b) == IF b \in {0, 1} THEN {b = 1} ELSE {}

Upto(b, n) == SubSeq(b, 1, n)
After(b, n) == SubSeq(b, n + 1, Len(b))
\* the first n bytes and the rest, if there are that many
Taken(b, n) == IF Len(b) >= n THEN {<<Upto(b, n), After(b, n)>>} ELSE {}

RECURSIVE Store(_, _), StoreAll(_, _, _), Fetch(_, _), FetchAll(_, _, _)

\* Span::store_at of the derive: one field after another, or nothing
StoreAll(Ts, vs, i) ==
    IF i > Len(vs) THEN {<<>>}
    ELSE {a \o b : a \in Store(Ts[i], vs[i]), b \in StoreAll(Ts, vs, i + 1)}

Store(T, v) ==
    CASE T.t = "num" -> {NumBytes(T.w, v)}
      [] T.t = "flag" -> {<<IF v THEN 1 ELSE 0>>}
      [] T.t = "codes" -> {<<v>>}
      [] T.t = "text" -> IF Len(v) > 255 THEN {} ELSE {<<Len(v)>> \o v}
      [] T.t = "road" -> LET b == Joined(v) IN
            IF Len(v) > RoadMax \/ Len(b) > 255 THEN {} ELSE {<<Len(b)>> \o b}
      [] T.t = "rest" -> IF Len(v) \in T.least .. T.most THEN {v} ELSE {}
      [] T.t = "zeros" -> {Zeroed(T.n)}
      [] T.t = "padded" ->
            IF Len(v) > T.cap THEN {} ELSE {Count(T.w, Len(v)) \o v \o Zeroed(T.cap - Len(v))}
      [] T.t = "counted" -> IF Len(v) > T.cap THEN {} ELSE {Count(T.w, Len(v)) \o v}
      [] T.t = "many" ->
            IF Len(v) > T.cap THEN {}
            ELSE {<<Len(v)>> \o b : b \in StoreAll([i \in DOMAIN v |-> T.of], v, 1)}
      [] T.t = "cells" -> StoreAll(T.of, v, 1)
      [] T.t = "tagged" -> {<<v[1]>> \o b : b \in Store(T.of[v[1]], v[2])}
      [] T.t = "checked" -> IF T.both /\ ~Holds(T.rule, v) THEN {} ELSE Store(T.of, v)
      [] T.t = "like" -> Store(T.of, v)

\* Span::fetch_at of the derive
FetchAll(Ts, b, i) ==
    IF i > Len(Ts) THEN {<<<<>>, b>>}
    ELSE UNION {{<<<<one[1]>> \o all[1], all[2]>> : all \in FetchAll(Ts, one[2], i + 1)} :
                one \in Fetch(Ts[i], b)}

Fetch(T, b) ==
    CASE T.t = "num" -> {<<NumValue(T.w, p[1]), p[2]>> : p \in Taken(b, T.w)}
      [] T.t = "flag" ->
            UNION {{<<v, p[2]>> : v \in FlagOf(p[1][1])} : p \in Taken(b, 1)}
      [] T.t = "codes" -> {<<p[1][1], p[2]>> : p \in {q \in Taken(b, 1) : q[1][1] \in T.of}}
      [] T.t \in {"text", "road"} ->
            UNION {{<<IF T.t = "text" THEN q[1] ELSE Split(q[1]), q[2]>> :
                    q \in {r \in Taken(p[2], p[1][1]) :
                           Utf8(r[1]) /\ (T.t = "road" => Len(Split(r[1])) <= RoadMax)}} :
                   p \in Taken(b, 1)}
      [] T.t = "rest" -> IF Len(b) \in T.least .. T.most THEN {<<b, <<>>>>} ELSE {}
      [] T.t = "zeros" ->
            {<<<<>>, p[2]>> : p \in {q \in Taken(b, T.n) : T.strict => q[1] = Zeroed(T.n)}}
      [] T.t = "padded" ->
            UNION {LET n == Counts(T.w, p[1]) IN
                   {<<Upto(q[1], n), q[2]>> :
                    q \in {r \in Taken(p[2], T.cap) :
                           /\ n <= T.cap
                           /\ T.strict => /\ Utf8(Upto(r[1], n))
                                          /\ After(r[1], n) = Zeroed(T.cap - n)}} :
                   p \in Taken(b, T.w)}
      [] T.t = "counted" ->
            UNION {{<<q[1], q[2]>> : q \in {r \in Taken(p[2], Counts(T.w, p[1])) :
                                            Counts(T.w, p[1]) <= T.cap}} :
                   p \in Taken(b, T.w)}
      [] T.t = "many" ->
            UNION {IF p[1][1] > T.cap THEN {}
                   ELSE FetchAll([i \in 1 .. p[1][1] |-> T.of], p[2], 1) : p \in Taken(b, 1)}
      [] T.t = "cells" -> FetchAll(T.of, b, 1)
      [] T.t = "tagged" ->
            UNION {{<<<<p[1][1], q[1]>>, q[2]>> : q \in Fetch(T.of[p[1][1]], p[2])} :
                   p \in {r \in Taken(b, 1) : r[1][1] \in DOMAIN T.of}}
      [] T.t = "checked" -> {p \in Fetch(T.of, b) : Holds(T.rule, p[1])}
      [] T.t = "like" -> Fetch(T.of, b)

\* ---- the values a form is tried with ----------------------------------------

RECURSIVE Base(_), Sample(_), Sound(_, _), Canonical(_)

A(n) == [i \in 1 .. n |-> 97]
Least(S) == CHOOSE n \in S : \A m \in S : n <= m

Base(T) ==
    CASE T.t = "num" -> IF T.w = 1 THEN 1 ELSE One(T.w)
      [] T.t = "flag" -> FALSE
      [] T.t = "codes" -> Least(T.of)
      [] T.t \in {"text", "padded", "counted"} -> A(1)
      [] T.t = "rest" -> A(T.least)
      [] T.t = "road" -> <<A(1)>>
      [] T.t = "zeros" -> <<>>
      [] T.t = "many" -> <<Base(T.of)>>
      [] T.t = "cells" -> [i \in DOMAIN T.of |-> Base(T.of[i])]
      [] T.t = "tagged" -> LET c == Least(DOMAIN T.of) IN <<c, Base(T.of[c])>>
      [] T.t = "checked" -> Base(T.of)
      [] T.t = "like" -> T.base

\* a record is varied in one field at a time
Sample(T) ==
    CASE T.t = "num" -> IF T.w = 1 THEN {0, 1, 255}
                        ELSE {Zero(T.w), One(T.w), [Zero(T.w) EXCEPT ![1] = 258, ![T.w \div 2] = 1]}
      [] T.t = "flag" -> BOOLEAN
      [] T.t = "codes" -> T.of
      [] T.t = "text" -> {A(0), A(1), A(31)}
      [] T.t \in {"padded", "counted"} -> {A(0), A(1), A(T.cap)}
      [] T.t = "rest" -> {A(T.least), A(T.least + 1), A(T.most)}
      [] T.t = "road" -> {<<>>, <<A(1)>>, [i \in 1 .. RoadMax |-> A(31 - 4 * (i % 2))]}
      [] T.t = "zeros" -> {<<>>}
      [] T.t = "many" ->
            {<<>>} \cup {<<x>> : x \in Sample(T.of)} \cup {<<Base(T.of), x>> : x \in Sample(T.of)}
      [] T.t = "cells" ->
            {Base(T)} \cup
            UNION {{[Base(T) EXCEPT ![i] = x] : x \in Sample(T.of[i])} : i \in DOMAIN T.of}
      [] T.t = "tagged" -> UNION {{<<c, x>> : x \in Sample(T.of[c])} : c \in DOMAIN T.of}
      [] T.t = "checked" -> Sample(T.of)
      [] T.t = "like" ->
            {T.base} \cup IF T.of.t # "cells" THEN {}
                          ELSE UNION {{[T.base EXCEPT ![i] = x] : x \in Sample(T.of.of[i])} :
                                      i \in DOMAIN T.of.of}

\* every rule of the form holds of v
Sound(T, v) ==
    CASE T.t = "many" -> \A i \in DOMAIN v : Sound(T.of, v[i])
      [] T.t = "cells" -> \A i \in DOMAIN v : Sound(T.of[i], v[i])
      [] T.t = "tagged" -> Sound(T.of[v[1]], v[2])
      [] T.t = "checked" -> Holds(T.rule, v) /\ Sound(T.of, v)
      [] T.t = "like" -> Sound(T.of, v)
      [] OTHER -> TRUE

\* the reader accepts only what the writer would have written
Canonical(T) ==
    CASE T.t = "road" -> FALSE
      [] T.t \in {"zeros", "padded"} -> T.strict
      [] T.t \in {"many", "checked", "like"} -> Canonical(T.of)
      [] T.t = "cells" -> \A i \in DOMAIN T.of : Canonical(T.of[i])
      [] T.t = "tagged" -> \A c \in DOMAIN T.of : Canonical(T.of[c])
      [] OTHER -> TRUE

----------------------------------------------------------------------------
(* The frames.                                                             *)

Tok == U64
Task == Checked(U64, "nonzero", TRUE)
Op(c, fields) == Cells(<<Codes({c})>> \o fields)

\* a message of a family that is told apart by its first byte
ByOp(codes, of) == [c \in codes |-> of]

\* ---- supply ------------------------------------------------------------------

SupplyRequest == Cells(<<U8, U64, Tok, U64, U64, U64, U32, Tok>>)
SupplyInspect == Cells(<<U8, U64, Tok>>)
SupplyCancel == Cells(<<U8, U64, Tok>>)
SupplyResponse == Cells(<<U8, U8, Tok, Padded(2, 128, FALSE)>>)
SupplyFrame == Padded(2, 128, FALSE)

\* ---- operator ----------------------------------------------------------------

Where == Tagged((0 :> Zeros(8, FALSE)) @@ (1 :> U64))
Relative == Checked(Cells(<<U8, U64, U64, Road>>), "rooted", FALSE)
Resolve == Like(Checked(Cells(<<U64, Text>>), "marked", FALSE), <<MarkOf(A(1)), A(1)>>)
OperatorReq ==
    Tagged((3 :> U64) @@ (5 :> Where) @@ (6 :> U64) @@ (7 :> Road) @@ (8 :> Cells(<<Road, Tok>>))
           @@ (9 :> Resolve) @@ (10 :> Relative) @@ (11 :> Cells(<<Relative, Tok>>)))
Listed == Op(0, <<Many(U64, 32)>>)
Named == Op(0, <<Rest(1, 31)>>)
Word == Op(0, <<U64>>)
Reference == Op(0, <<U64, Flag, U64>>)
WatchPath == Op(0, <<Road>>)
Tip == Tagged((2 :> Cells(<<Tok, Tok, Tok>>)) @@ (3 :> Cells(<<Tok, Tok, Tok, Tok, Tok>>)) @@ (7 :> Tok))
Event == Cells(<<U64, Codes(1 .. 4), Road, U64, Tok>>)
Selector == Cells(<<Codes(0 .. 2), Task, U64>>)
Permit ==
    Tagged(ByOp({0, 1}, Zeros(17, TRUE)) @@ (2 :> Selector) @@ (3 :> Cells(<<U64, Zeros(9, TRUE)>>)))
AuthorityRequest ==
    Cells(<<U8, U64, U8, U64, U64, Tok, U64, Permit, U8, Tok, U64, Tok, U64, U32, U64, Text, Text, Tok>>)
AuthorityResponse == Cells(<<U8, U8, U8, U64, U64, U64, Tok, U32, Permit>>)

\* ---- control -----------------------------------------------------------------

ControlRequest ==
    Tagged(ByOp({1, 2, 3, 4, 5, 10, 12}, Cells(<<Text, Tok>>))
           @@ ByOp({6, 7, 8, 9, 11}, Cells(<<Tok, Tok>>)) @@ (13 :> Cells(<<U64, U64, Tok>>)))
ControlSaid == Cells(<<U8, U8, U64, Flag, Tok, Tok>>)
ObserveRequest == Cells(<<U32, Tok>>)
ObserveReply == Cells(<<U8, U32, Flag, Flag, Flag, U8, Text>>)
ConstructionInput ==
    Tagged((1 :> Cells(<<Text, U64, Many(U64, 64)>>)) @@ (2 :> Cells(<<Tok, U64, U64, U64, Many(U64, 64)>>)))
Retirement == Cells(<<U8, Tok, Tok>>)
Bootstrap == Cells(<<U8, U8, Tok, Tok>>)
LoaderAsk == Op(1, <<Tok, Tok>>)
LoaderSaid == Cells(<<U8, U8, U64, Tok, Tok>>)

\* ---- identity ----------------------------------------------------------------

Id == Cells(<<U64, U64>>)
Ids == Checked(Many(Id, 16), "ordered", TRUE)
Subject == Checked(Cells(<<Id, Many(Id, 16)>>), "subject", TRUE)
Binding == Checked(Cells(<<Subject, Subject>>), "binding", TRUE)
Cursor == Cells(<<Codes({0, 1}), Task, U64, U64, U64>>)
MembershipCursor == Like(Cursor, <<1, One(8), One(8), One(8), One(8)>>)
Object == Cells(<<Codes({0, 1}), Task, U64>>)
Name == Checked(Padded(1, 31, TRUE), "name", TRUE)
EntryRef == Checked(Cells(<<U64, Flag, U64, U64>>), "entry", TRUE)
Pair == Checked(Cells(<<Id, Id>>), "same", TRUE)
Install ==
    Tagged((0 :> Subject) @@ (1 :> Task) @@ (2 :> Cells(<<Task, Subject>>)) @@ (3 :> Id))
Installing ==
    Tagged((0 :> Cells(<<Task, Task, Install>>)) @@ ByOp(1 .. 3, Task) @@ (4 :> Cells(<<Object, Name, EntryRef>>)))
IdentityWire ==
    Tagged(ByOp({1, 17}, Task) @@ (2 :> Cells(<<Task, Selector>>)) @@ (3 :> Cells(<<Task, Task>>))
           @@ ByOp({4, 12}, Id) @@ ByOp({5, 6, 14, 15}, Pair)
           @@ (7 :> Checked(Cells(<<Id, Option(Cursor)>>), "members", TRUE))
           @@ (8 :> Checked(Cells(<<Id, Option(MembershipCursor)>>), "memberships", TRUE))
           @@ ByOp({9, 11}, Subject) @@ (10 :> Cells(<<>>)) @@ (13 :> Task)
           @@ (16 :> Cells(<<Task, Install>>))
           @@ (18 :> Cells(<<Task, Checked(Ids, "nonempty", TRUE)>>))
           @@ (19 :> Installing) @@ (20 :> Cells(<<Object, Name>>)))
IdentityRequest == Cells(<<Task, IdentityWire>>)
InstallStatus == Cells(<<Codes(0 .. 7), Option(Binding), Codes(0 .. 10)>>)
MemberPage == Checked(Cells(<<Ids, Option(Cursor)>>), "memberpage", TRUE)
MembershipPage == Checked(Cells(<<Ids, Option(MembershipCursor)>>), "membershippage", TRUE)
IdentityAnswer ==
    Tagged((0 :> Cells(<<>>)) @@ (1 :> Option(Binding)) @@ (2 :> Option(Id)) @@ (3 :> Id)
           @@ (4 :> Codes(0 .. 2)) @@ (5 :> Flag) @@ (6 :> MemberPage) @@ (7 :> MembershipPage)
           @@ (8 :> InstallStatus) @@ (9 :> Option(EntryRef)))
IdentityReply == Tagged((0 :> IdentityAnswer) @@ ByOp(1 .. 10, Cells(<<>>)))
ExportRequest == Cells(<<Object, Name, Name, EntryRef, Tok>>)

\* ---- construction --------------------------------------------------------------

ConstructionRequest == Cells(<<U8, U64, Option(ConstructionInput), Tok, Subject, Tok>>)

\* ---- hub and its devices ---------------------------------------------------------

HubWire ==
    Tagged((1 :> Cells(<<Text, Tok>>)) @@ (2 :> Cells(<<Text, U32, Tok>>))
           @@ (3 :> Cells(<<U8, U32, U32, Tok, Tok>>)))
Deed == Cells(<<U8, Text, U32, Tok>>)
\* the count stands before the flags of who is held, the names after them
Window == Cells(<<U8, U32, Tagged([n \in 0 .. 4 |-> Cells(<<U64>> \o [i \in 1 .. n |-> Text])])>>)
DmaWire ==
    Tagged((1 :> Cells(<<U64, U32, Text, Text, Tok>>)) @@ (2 :> Cells(<<U64, Tok, Tok>>))
           @@ (3 :> Cells(<<U64, U8, Tok>>)) @@ (4 :> Cells(<<U64, Tok>>)) @@ (5 :> Tok))
DmaSaid == Cells(<<U8, U8, U8, U8, U8, U8, U64, Tok, Tok>>)
LedgerName == Checked(Cells(<<Codes(0 .. 2), U8, Zeros(6, TRUE), U64>>), "ledger", TRUE)
Item == Like(Cells(<<LedgerName, Tok, Codes(0 .. 3), U32>>), <<<<1, 0, <<>>, Zero(8)>>, One(8), Nole, One(4)>>)
Inventory == Checked(Many(Item, 64), "inventory", TRUE)
Coordination ==
    LET prepare == <<U64, U64, U64, U64>>
    IN  Tagged((1 :> Checked(Cells(prepare \o <<Tok>>), "coordinated", TRUE))
               @@ (2 :> Checked(Cells(prepare \o <<U8, Tok>>), "coordinated", TRUE)))
IommuWire ==
    Tagged((6 :> Cells(<<U32, Tok>>)) @@ (1 :> Cells(<<Tok, U64, Tok, U64, Tok, Tok, U32, Tok>>))
           @@ ByOp(2 .. 5, Cells(<<Tok, U64, Tok, U64, U8, Tok>>)))
IommuSaid == Cells(<<U8, U8, U32, Tok, U64, U64, U64>>)
PciWire == Tagged((1 :> Cells(<<U64, U32, U8, Tok>>)) @@ ByOp(2 .. 4, Cells(<<U64, U32, Tok>>)))
PciSaid == Cells(<<U8, U32, Tok>>)
PciScan == Checked(Cells(<<U32, Tok>>), "scan", TRUE)
PciPage == Like(Checked(Cells(<<U8, U32, U16, U8, U8, Rest(256, 256)>>), "inspection", TRUE),
                <<0, <<2, 0>>, <<1>>, 1, 1, A(256)>>)
BlkWire == Tagged((1 :> Cells(<<Tok, U64, Tok>>)) @@ (2 :> Cells(<<Tok, U64, Tok, U32, Tok>>)))
BlkSaid == Cells(<<U8, Tok>>)
BlkCoords == Cells(<<U32, U32, U32, U32, U32, U64, Tok, U64>>)
RouterWire == Tagged((1 :> U32) @@ (2 :> Cells(<<U32, Tok, Tok>>)))
RtcWire == Tagged((1 :> Tok) @@ (2 :> Cells(<<Tok, U64>>)))

\* ---- services and programs ---------------------------------------------------------

PipeRequest == Cells(<<U8, U64, U64, Tok, U8, Tok, Tok>>)
PipeReply == Cells(<<U8, U64, U64, Tok>>)
AccountRequest == Cells(<<U8, U64, Checked(Text, "name", FALSE), Tok>>)
TerminalCommand == Cells(<<U8, Tok, Tok, Tok>>)
TerminalReply == Cells(<<U8, Tok, Tok, Tok, Tok>>)
TerminalInput ==
    Tagged((1 :> Checked(Counted(4, 256), "nonempty", TRUE)) @@ (2 :> Zeros(4, TRUE)))
UartBytes == Rest(1, 129)
Context == Checked(U64, "nonzero", FALSE)

\* ---- which buffer a family is stored into, and whether the frame must end there -------

Exact(form, buf) == [form |-> form, buf |-> buf, exact |-> TRUE]
Open(form, buf) == [form |-> form, buf |-> buf, exact |-> FALSE]

Registry ==
    [supply_request |-> Exact(SupplyRequest, 1024), supply_inspect |-> Exact(SupplyInspect, 512),
     supply_cancel |-> Exact(SupplyCancel, 512), supply_response |-> Exact(SupplyResponse, 140),
     supply_frame |-> Exact(SupplyFrame, 130),
     operator_request |-> Exact(OperatorReq, 512), operator_list |-> Exact(Listed, 258),
     operator_name |-> Exact(Named, 258), operator_word |-> Exact(Word, 258),
     operator_reference |-> Exact(Reference, 258), operator_watch |-> Exact(WatchPath, 258),
     operator_tip |-> Exact(Tip, 41), operator_event |-> Open(Event, 281),
     authority_request |-> Exact(AuthorityRequest, 512),
     authority_response |-> Exact(AuthorityResponse, 128),
     control_request |-> Exact(ControlRequest, 41), control_said |-> Exact(ControlSaid, 27),
     observe_request |-> Exact(ObserveRequest, 12), observe_reply |-> Exact(ObserveReply, 48),
     construction |-> Exact(ConstructionRequest, 1600), retirement |-> Exact(Retirement, 24),
     bootstrap |-> Exact(Bootstrap, 18), loader_ask |-> Exact(LoaderAsk, 40),
     loader_said |-> Exact(LoaderSaid, 40),
     identity_request |-> Exact(IdentityRequest, 1024), identity_reply |-> Exact(IdentityReply, 1024),
     export_request |-> Exact(ExportRequest, 128), status |-> Exact(U8, 8),
     hub |-> Exact(HubWire, 45), deed |-> Exact(Deed, 45), window |-> Exact(Window, 142),
     dma |-> Exact(DmaWire, 83), dma_said |-> Exact(DmaSaid, 32), inventory |-> Exact(Inventory, 1857),
     coordination |-> Exact(Coordination, 42), iommu |-> Exact(IommuWire, 64),
     iommu_said |-> Exact(IommuSaid, 48), pci |-> Exact(PciWire, 24), pci_said |-> Exact(PciSaid, 16),
     pci_scan |-> Exact(PciScan, 16), pci_page |-> Exact(PciPage, 265), blk |-> Exact(BlkWire, 40),
     blk_said |-> Exact(BlkSaid, 16), blk_coords |-> Exact(BlkCoords, 48),
     router |-> Exact(RouterWire, 21), rtc |-> Exact(RtcWire, 17),
     pipe |-> Exact(PipeRequest, 42), pipe_reply |-> Exact(PipeReply, 25),
     account |-> Exact(AccountRequest, 64), terminal |-> Exact(TerminalCommand, 32),
     terminal_reply |-> Exact(TerminalReply, 40), terminal_input |-> Exact(TerminalInput, 261),
     uart |-> Exact(UartBytes, 129), context |-> Exact(Context, 8)]

\* the reader of all families but the event's demands that the frame end with its last field
Whole(F, rest) == F.exact => rest = <<>>

\* Message::store into the family's buffer
Stored(F, v) == {b \in Store(F.form, v) : Len(b) <= F.buf}
\* Message::fetch
Fetched(F, b) ==
    IF Len(b) > F.buf THEN {} ELSE {p[1] : p \in {q \in Fetch(F.form, b) : Whole(F, q[2])}}

VARIABLES family, value, frame, stage, got

framesVars == <<family, value, frame, stage, got>>
framesInit ==
    /\ family \in DOMAIN Registry
    /\ value \in Sample(Registry[family].form)
    /\ frame = <<>> /\ stage = "new" /\ got = {}

F == Registry[family]

Send ==
    /\ stage = "new"
    /\ IF Stored(F, value) = {} THEN stage' = "refused" /\ UNCHANGED frame
       ELSE stage' = "intact" /\ frame' \in Stored(F, value)
    /\ UNCHANGED <<family, value, got>>

\* external: what another program may push into the same hole
Shorten == stage = "intact" /\ stage' = "short" /\ frame' = Upto(frame, Len(frame) - 1)
Lengthen == stage = "intact" /\ stage' = "long" /\ frame' = Append(frame, 0)
Alter ==
    /\ stage = "intact" /\ value = Base(F.form) /\ stage' = "altered"
    /\ \E i \in DOMAIN frame, c \in {0, 2, 255} : frame[i] # c /\ frame' = [frame EXCEPT ![i] = c]
Another == (Shorten \/ Lengthen \/ Alter) /\ UNCHANGED <<family, value, got>>

Receive ==
    /\ stage \in {"intact", "short", "long", "altered"}
    /\ got' = Fetched(F, frame)
    /\ stage' = "read" /\ UNCHANGED <<family, value, frame>>
Settled == stage \in {"read", "refused"} /\ UNCHANGED framesVars

framesNext == Send \/ Another \/ Receive \/ Settled

\* A sound value (every rule its protocol states holds of it) that was stored
\* arrives as it was sent; an unsound one that the writer let through is not
\* decoded.  Every sound value tried has room in its family's buffer.
Faithful ==
    /\ stage = "refused" => ~Sound(F.form, value)
    /\ stage = "read" /\ frame \in Stored(F, value) =>
           got = IF Sound(F.form, value) THEN {value} ELSE {}

\* Whatever was done to the bytes, what a receiver decodes is a value its
\* protocol allows; and in every family whose reader leaves nothing open it is
\* the value of exactly these bytes, so that a frame cut short, lengthened or
\* altered is never taken for the one that was sent.
Strict ==
    \A v \in got :
        /\ Sound(F.form, v)
        /\ F.exact /\ Canonical(F.form) => Stored(F, v) = {frame}

=============================================================================
