CONSTANTS
  BaseCooldown = 1
  MaxCooldown = 2
  HitsCap = 2
  Tasks = {1, 2}
  MaxTasks = 1
  Interval = 1
  MaxFailures = 2
  AutoCommit = TRUE
  FailuresLeave = FALSE
  None = None
  MaxFaults = 0
  MaxLimits = 1
  MaxStarts = 0
  MaxEdits = 0
  MaxReopens = 0
SPECIFICATION Spec
CHECK_DEADLOCK FALSE
PROPERTIES
  CooldownNeedsACall
