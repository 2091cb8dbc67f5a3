CONSTANTS
  Nil = Nil
  w1 = w1
  w2 = w2
  r1 = r1
  r2 = r2
  v1 = v1
  q1 = q1
  su = su
  e1 = e1
  x1 = x1
  a1 = a1
  a2 = a2
  g1 = g1
  g2 = g2
  b1 = b1
  t1 = t1
  t2 = t2
  vest = vest
  fetch = fetch
  root = root
  dom = dom
  sub = sub
  sup = sup
  m1 = m1
  m2 = m2
  leaf = leaf
  h1 = h1
  h2 = h2
SPECIFICATION Spec
SYMMETRY Symmetry
INVARIANTS
  Books   GuardContained
PROPERTIES
  Fifo Kept
CHECK_DEADLOCK FALSE
