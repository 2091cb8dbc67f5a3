------------------------------ MODULE MCRoom ------------------------------
(* Small instances of Room: a root task and its team, and below it a pair  *)
(* (one team, one or two tasks), a line of teams, each under the task of   *)
(* the one above, or a fork: the root's own team has a second task, and    *)
(* several teams, all but one of them empty, hang under the root.          *)
EXTENDS Room, TLC

CONSTANTS r, a, b, A, B, C, D

PairTeamOf == [t \in Task |-> IF t = r THEN A ELSE B]
PairAbove == [T \in Team |-> IF T = A THEN {A} ELSE {A, B}]
PairSire == [T \in Team |-> IF T = A THEN None ELSE r]

LineTeamOf == [t \in Task |-> CASE t = r -> A [] t = a -> B [] t = b -> C]
LineAbove == [T \in Team |-> CASE T = A -> {A} [] T = B -> {A, B} [] T = C -> {A, B, C}]
LineSire == [T \in Team |-> CASE T = A -> None [] T = B -> r [] T = C -> a]

ForkTeamOf == [t \in Task |-> IF t = b THEN B ELSE A]
ForkAbove == [T \in Team |-> {A, T}]
ForkSire == [T \in Team |-> IF T = A THEN None ELSE r]

Symmetry == Permutations(Hart)
ForkSymmetry == Symmetry \cup Permutations(Team \ {A, B})

\* A behaviour in which nobody is paused or slain shows the orphan already.
Unforced ==
  /\ \A t \in Task : ~paused[t] /\ cause[t] # "Slay"
  /\ \A T \in Team : phase[T] # "Paused"
  /\ \A h \in Hart : \A p \in todo[h] : p[2] # "Slay"

=============================================================================
