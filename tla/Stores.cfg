CONSTANTS
  Pruners = {p1}
  Readers = {r1}
  Keep = 1
  Damage = {"corrupt"}
  ClockMayStepBack = TRUE
  None = None
  MaxTime = 1
  MaxMade = 4
  MaxDamage = 2
SPECIFICATION Spec
CHECK_DEADLOCK FALSE
PROPERTIES
  RecoveryFindsNewest
  RecoveryNotBlocked
  PruneKeepsUsable
