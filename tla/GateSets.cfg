CONSTANTS
  Projects <- AllProjects
  Output <- Recording
  Replies <- Reports
  Written <- Declarations
  PeopleWrite = {"root"}
SPECIFICATION DetectionSpec
CHECK_DEADLOCK FALSE
INVARIANTS
  TypeOK
  PassMeansRan
  SecretsStop
  UnusableReported
  FloorHolds
  DetectedIsUsed
