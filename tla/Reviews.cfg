CONSTANTS
  Prose <- AnyProse
  Trailers <- AnyTrailer
  MaxObject = 7
  MaxFindings = 2
SPECIFICATION ReviewSpec
CHECK_DEADLOCK FALSE
INVARIANTS
  ObjectFound
  ApprovalIsMeant
