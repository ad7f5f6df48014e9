SPECIFICATION Spec
CONSTANTS
  build = build
  deploy = deploy
  r1 = r1
  r2 = r2
  NoRunner = NoRunner
  Jobs <- MCJobs
  Deps <- MCDeps
  Runners <- MCRunners
  LeaseSeconds = 1
  MaxAttempts = 2
  Batch = 2
  SnapshotEvery = 3
  OldLogs <- MCOldLogs
  Coalesced = TRUE
  SeqBound = 6
INVARIANTS
  IInv
  RebuiltIsLive
  AcknowledgedSurvive
PROPERTIES
  LedgerSteps
