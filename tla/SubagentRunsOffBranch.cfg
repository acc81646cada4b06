SPECIFICATION Spec
CONSTANTS
  Run = {1, 2, 3}
  Session = {s1}
  Name = {1, 2, 3}
  None = None
  MAX_OPEN_RUNS = 2
  MaxGeneration = 1
  MaxReports = 2
  MaxPlaces = 3
  Busy = {1}
  Detours = {"resume"}
INVARIANTS
  OpenInScope
