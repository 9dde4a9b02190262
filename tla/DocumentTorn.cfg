CONSTANTS
  Docs <- Backlogs
  MaxSaves = 3
  MaxEdits = 1
  MaxBreaks = 0
  MaxFaults = 1
SPECIFICATION Spec
CHECK_DEADLOCK FALSE
INVARIANT NeverTorn
