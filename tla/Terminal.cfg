SPECIFICATION terminalSpec
CONSTANTS
  Login = {a, b, c}
  Unnamed = {c}
  GrantBound = 3
  TurnBound = 2
  AccountBound = 2
  i1 = i1
  i2 = i2
  m1 = m1
  None = None
  a = a
  b = b
  c = c
  f = f
  l = l
  rel = rel
  f1 = f1
  f2 = f2
  t1 = t1
  t2 = t2
  p1 = p1
  p2 = p2
  q1 = q1
  rm = rm
  c1 = c1
  c2 = c2
  s1 = s1
  s2 = s2
  g1 = g1
  g2 = g2
INVARIANTS
  ReportedTrue
  ShellsTold
  MonitorTold
  TerminalKept
PROPERTIES
  SilentOnceOver
  NoLoginLost
  RewindsRight
  OnlyAsked
CHECK_DEADLOCK FALSE
SYMMETRY Symmetry
