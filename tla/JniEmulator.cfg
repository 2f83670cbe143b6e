CONSTANTS
  MaxQueue = 2
  MaxCalls = 12
SPECIFICATION Spec
INVARIANTS
  GbaExclusive
  StoppedIsClean
  ForegroundRuns
PROPERTIES
  CallsReturn
CHECK_DEADLOCK FALSE
