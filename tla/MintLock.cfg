SPECIFICATION Spec
CONSTANTS
  m1 = m1
  m2 = m2
  m3 = m3
  revoke = revoke
  check = check
  None = None
  Mints <- MCMints
  Revokes <- MCRevokes
  Checks <- MCChecks
  Crowds <- MCCrowds
  FaultBound = 2
CHECK_DEADLOCK FALSE
INVARIANTS
  IInv
  TurnsAreExclusive
  ReuseNeedsASlip
PROPERTIES
  WaitersAreServed
