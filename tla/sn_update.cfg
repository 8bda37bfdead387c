SPECIFICATION Spec
CONSTANTS
  Serials = {"a", "b"}
  Bad = "bad"
  Prefix = "prefix"
  Factory = "factory"
  RETRY_TIMES = 2
  MaxRuns = 2
  MaxSets = 2
  MaxFaults = 2
  MaxDepth = 2
CHECK_DEADLOCK FALSE
INVARIANTS
  OffWhenIdle
  LogWithinCount
  DiesWithTheWorkDone
PROPERTY GoodMeansWritten
