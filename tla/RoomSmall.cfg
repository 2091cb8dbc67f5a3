CONSTANTS
  r = r
  a = a
  b = b
  C = C
  A = A
  B = B
  D = D
  None = None
  Task = {r, a}
  Hart = {h1, h2}
  Team = {A, B}
  Slot = {s}
  Ticket = {1, 2}
  Root = r
  TeamOf <- PairTeamOf
  Above <- PairAbove
  Sire <- PairSire
SPECIFICATION Spec
SYMMETRY Symmetry
INVARIANTS TypeOK Contained TimersCurrent BeaconOrWaiter SlotFilled TallyExact
PROPERTIES DeathFinal CompleteStays StoppedStaysOff
