SPECIFICATION Spec
CONSTANTS
  t1 = t1
  Nothing = Nothing
  Tokens <- MCTokens
  FaultBound = 3
CHECK_DEADLOCK FALSE
INVARIANTS
  IInv
  HeldIsAlive
  ClosedIsDead
  NothingOutlivesRevoke
PROPERTIES
  OrphansGo
