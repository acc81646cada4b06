SPECIFICATION Spec
CONSTANTS
  None = None
  Unreadable = Unreadable
  p1 = p1
  p2 = p2
  v1 = v1
  Pane = {p1, p2}
  Name = {1, 2}
  Fact = {v1}
  CallBound = 4
  DieBound = 0
INVARIANTS
  IndexInStep
CHECK_DEADLOCK FALSE
