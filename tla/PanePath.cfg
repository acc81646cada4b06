SPECIFICATION Spec
CONSTANTS
  Id = {i1, i2}
  Note = {}
  Row = {r1}
  Pane = {p1}
  None = None
  InboxBound = 2
  PaneRow = r1
  ThePane = p1
  File = {f1, f2}
  FirstFile = f1
  BeatBound = 2
  ReportBound = 1
  LifeBound = 2
  SwitchBound = 2
  AgeBound = 1
  CalmLife = 2
INVARIANTS
  HandedRight
  Answerable
PROPERTIES
  SettledForGood
  JourneySpec
CHECK_DEADLOCK FALSE
