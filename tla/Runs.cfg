SPECIFICATION allSpec
CONSTANTS
  Run = {1, 2, 3}
  Session = {s1}
  Name = {1, 2, 3}
  None = None
  MAX_OPEN_RUNS = 2
  MaxGeneration = 1
  MaxReports = 2
  MaxPlaces = 3
  Busy = {1}
  Detours = {}
  r1 = r1
  s2 = s2
  s3 = s3
INVARIANTS
  OnePi
  WaitersHaveRuns
  RunsSound
PROPERTIES
  ToldInScope
  HeardAndCounted
CHECK_DEADLOCK FALSE
