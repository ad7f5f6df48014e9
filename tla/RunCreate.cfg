SPECIFICATION Spec
CONSTANTS
  build = build
  lint = lint
  r1 = r1
  c1 = c1
  c2 = c2
  Nobody = Nobody
  Jobs <- MCJobs
  Deps <- MCDeps
  Runners <- MCRunners
  Clients <- MCClients
  FaultBound = 1
  SeqBound = 3
INVARIANTS
  IInv
  AnsweredIsClaimable
  StaleRowsLookQueued
PROPERTIES
  PoisonedRunHeals
