SPECIFICATION viewSpec
CONSTANTS
  None = None
  t1 = t1
  t2 = t2
  i1 = i1
  r1 = r1
  a = a
  b = b
  p1 = p1
  p2 = p2
  p3 = p3
  c1 = c1
  c2 = c2
  f1 = f1
  s1 = s1
  g1 = g1
  w1 = w1
  w2 = w2
  n1 = n1
  n2 = n2
INVARIANTS
  RowsTrue
  CommandsTrue
  DraftTrue
PROPERTIES
  KeysMeant
  KeepsRunning
  OrderKept
CHECK_DEADLOCK FALSE
