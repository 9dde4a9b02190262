CONSTANTS
  BaseCooldown = 1
  MaxCooldown = 3
  HitsCap = 3
  Tasks = {1, 2}
  MaxTasks = 1
  Interval = 1
  MaxFailures = 2
  AutoCommit = FALSE
  FailuresLeave = TRUE
  None = None
  MaxFaults = 1
  MaxLimits = 2
  MaxStarts = 1
  MaxEdits = 0
  MaxReopens = 1
SPECIFICATION ProcessSpec
CHECK_DEADLOCK FALSE
INVARIANTS
  OneTaskPerCooldown
PROPERTIES
  CooldownObeyed
  EachHitWaitsLonger
  InterruptEnds
