CONSTANTS
  BaseCooldown = 1
  MaxCooldown = 2
  HitsCap = 2
  Tasks = {1, 2}
  MaxTasks = 1
  Interval = 1
  MaxFailures = 2
  AutoCommit = TRUE
  FailuresLeave = FALSE
  None = None
  MaxFaults = 1
  MaxLimits = 1
  MaxStarts = 0
  MaxEdits = 1
  MaxReopens = 1
SPECIFICATION FairSpec
CHECK_DEADLOCK FALSE
INVARIANTS
  GaveUpJustified
  OneBadTaskDoesNotStop
PROPERTIES
  SystemicFailureStops
  TaskServed
