SPECIFICATION RSpec
CONSTANTS
  None = None
  Id = {}
  Note = {}
  Pane = {p1}
  Row = {p1, u1}
  File = {f1}
  Parent <- NoRuns
  Pins = {}
  InboxBound = 0
  Events = {"delete", "restart"}
INVARIANT
  DeletedStayGone
CHECK_DEADLOCK FALSE
