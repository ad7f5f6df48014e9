SPECIFICATION WorkSpec
CONSTANTS
  build = build
  deploy = deploy
  r1 = r1
  r2 = r2
  NoRunner = NoRunner
  Jobs <- MCJobs
  Deps <- MCDeps
  Runners <- MCRunners
  Hermetic <- MCJobs
  LeaseSeconds = 2
  MaxAttempts = 2
  EpochBound = 3
  CutBound = 2
INVARIANTS
  IInv
  EpochsFence
  ResultFromNewestLease
  UnsignalledIsMemoized
PROPERTIES
  LiveLeaseIsKept
  ImplementsLedger
  DeadHolderIsReleased
  RunEnds
  AlarmRestsWhenDone
