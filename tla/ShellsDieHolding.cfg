SPECIFICATION Spec
CONSTANTS
  Call = {c1, c2}
  Session = {s1, s2}
  None = None
  MaxFinishedJobs = 1
  MaxHolds = 1
  Prompting = {c1}
  DiesHolding = TRUE
INVARIANT
  RecordedIsTold
CHECK_DEADLOCK FALSE
