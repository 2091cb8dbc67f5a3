CONSTANTS
  None = None
  Hart = {h1, h2}
  Task = {t1, t2, t3}
  Root = t1
  Quantum = 2
SPECIFICATION Spec
INVARIANTS
  TypeOK NudgedOrEmpty OneCloser QuietReset
CHECK_DEADLOCK FALSE
