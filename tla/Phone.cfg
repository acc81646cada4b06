SPECIFICATION phoneSpec
CONSTANTS
  Port = {q1, q2}
  Device = {d1, d2}
  CODE_ATTEMPTS = 2
  StepBound = 3
  CodeBound = 2
  None = None
  q1 = q1
  q2 = q2
  d1 = d1
  d2 = d2
  s1 = s1
  e1 = e1
  e2 = e2
  o1 = o1
  t1 = t1
  t2 = t2
  p1 = p1
  p2 = p2
  r1 = r1
  r2 = r2
  k1 = k1
  f1 = f1
  f2 = f2
  f3 = f3
  f4 = f4
  l1 = l1
  l2 = l2
INVARIANTS
  ServerTrue
  ShowsPane
  ChatTrue
PROPERTIES
  ServedRight
  NothingLost
  ListRight
CHECK_DEADLOCK FALSE
