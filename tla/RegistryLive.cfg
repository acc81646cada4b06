SPECIFICATION RLive
CONSTANTS
  None = None
  Id = {i1}
  Note = {}
  Pane = {p1, p2}
  Row = {p1, p2, u1}
  File = {f1}
  Parent <- NoRuns
  Pins = {}
  InboxBound = 1
  Events = {"die", "start"}
INVARIANTS
  RowsKept
PROPERTIES
  InboxesEmpty
  RowsSettle
CHECK_DEADLOCK FALSE
