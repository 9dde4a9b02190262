CONSTANTS
  Tasks = {1, 2}
  Priority <- MCPriority
  MaxRepairAttempts = 1
  MaxReviewAttempts = 1
  Settings <- MCSettings
  Human = Human
  None = None
  MaxFaults = 1
  MaxCrashes = 1
  MaxCancels = 1
  MaxEdits = 1
  MaxReopens = 1
  MaxTrouble = 2
  MaxCommits = 2
SPECIFICATION FairSpec
INVARIANTS
  TypeOK
  PipelineCommitsChecked
  CommitsOwnWork
  ChangelogTruthful
  LeftoverIsVisible
  OneCommitPerTask
  CleanExit
  ReportIsRight
PROPERTIES
  ImplementsLifecycle
  RunReturns
