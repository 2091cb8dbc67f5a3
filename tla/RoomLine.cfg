CONSTANTS
  r = r
  a = a
  b = b
  A = A
  B = B
  C = C
  D = D
  None = None
  Task = {r, a, b}
  Hart = {h1, h2}
  Team = {A, B, C}
  Slot = {}
  Ticket = {1}
  Root = r
  TeamOf <- LineTeamOf
  Above <- LineAbove
  Sire <- LineSire
SPECIFICATION Spec
SYMMETRY Symmetry
INVARIANTS JoinOwed CullComplete NoneStranded
CHECK_DEADLOCK FALSE
