CONSTANTS
  Docs <- AllDocs
  MaxSaves = 3
  MaxEdits = 2
  MaxBreaks = 2
  MaxFaults = 1
SPECIFICATION Spec
CHECK_DEADLOCK FALSE
INVARIANTS
  BodyKept
  AckedKept
  HandEditsKept
