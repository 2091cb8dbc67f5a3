CONSTANTS
  None = None
  Hart = {h1, h2}
  Task = {t1, t2}
  Root = t1
  Quantum = 2
SPECIFICATION Spec
INVARIANTS
  NoEarlyHalt
CHECK_DEADLOCK FALSE
