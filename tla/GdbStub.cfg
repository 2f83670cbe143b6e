CONSTANTS
  MaxSessions = 2
SPECIFICATION Spec
INVARIANTS
  ReturnedIsDone
  StopIsReal
  StopIsTold
PROPERTIES
  RequestsReturn
CHECK_DEADLOCK FALSE
