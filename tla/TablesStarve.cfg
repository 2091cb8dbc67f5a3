CONSTANTS
  None = None
  a1 = a1
  a2 = a2
  p1 = p1
  p2 = p2
  p3 = p3
  fa = fa
  fb = fb
  f1 = f1
  f2 = f2
  v1 = v1
  v2 = v2
  v4 = v4
  v5 = v5
  n1 = n1
  n2 = n2
  h1 = h1
  h2 = h2
SPECIFICATION StarveSpec
INVARIANT
  TableOwned
CHECK_DEADLOCK FALSE
