CONSTANTS
  r = r
  a = a
  b = b
  A = A
  B = B
  C = C
  D = D
  None = None
  Task = {r, a, b}
  Hart = {h1, h2}
  Team = {A, B, C, D}
  Slot = {}
  Ticket = {}
  Root = r
  TeamOf <- ForkTeamOf
  Above <- ForkAbove
  Sire <- ForkSire
SPECIFICATION Spec
SYMMETRY ForkSymmetry
CONSTRAINT Unforced
INVARIANTS HeirsClosed
CHECK_DEADLOCK FALSE
