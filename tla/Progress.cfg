CONSTANTS
  Nil = Nil
  w1 = w1
  w2 = w2
  r1 = r1
  x1 = x1
  root = root
  dom = dom
  sup = sup
  m1 = m1
  h1 = h1
  h2 = h2
  h3 = h3
SPECIFICATION FairSpec
PROPERTIES
  Served ComesToRest
CHECK_DEADLOCK FALSE
