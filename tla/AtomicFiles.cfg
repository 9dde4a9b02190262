CONSTANTS
  Writers = {w1, w2, w3}
  Old = Old
  DirSyncs = TRUE
  MaxFailures = 1
  MaxLosses = 1
SYMMETRY Interchangeable
SPECIFICATION Spec
CHECK_DEADLOCK FALSE
INVARIANTS
  NeverTorn
  AcknowledgedSurvives
PROPERTIES
  ImplementsRegister
