SPECIFICATION Spec
CONSTANTS
  k1 = k1
  k2 = k2
  u1 = u1
  Events <- MCEvents
  Rows <- MCRows
  Ticks <- MCTicks
  Users <- MCUsers
  MaxRetries = 2
  Threshold = 2
  Budgets <- MCBudgets
INVARIANTS
  IInv
  EventsGetTheirRow
  CallsAreCounted
PROPERTIES
  SuccessStays
  RowsSettle
