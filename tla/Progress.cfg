SPECIFICATION allSpec
CONSTANTS
  Phone = {i1, i2}
  Mac = {m1}
  TextOf <- OwnTexts
  KEPT = 2
  QUIET_LOOKS = 2
  Slow = {i1, i2}
  i1 = i1
  i2 = i2
  m1 = m1
  c1 = c1
  c2 = c2
  s1 = s1
  s2 = s2
  r1 = r1
  n1 = n1
  n2 = n2
  f1 = f1
  row = row
  pane = pane
  None = None
INVARIANTS
  RunAndLinkTrue
PROPERTIES
  OwedIsPaid
  DaemonThere
  PathSettles
CHECK_DEADLOCK FALSE
