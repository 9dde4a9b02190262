CONSTANTS
  MaxSessions = 2
  MaxRetries = 2
  MaxCalls = 3
  MaxFaults = 1
  MaxUnrun = 1
  MaxCrashes = 1
SPECIFICATION Spec
CHECK_DEADLOCK FALSE
INVARIANTS
  DetectAgrees
  LimitReachesCaller
  NoneLeftActive
