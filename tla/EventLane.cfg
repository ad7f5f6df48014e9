SPECIFICATION Spec
CONSTANTS
  k1 = k1
  k2 = k2
  r1 = r1
  Events <- MCEvents
  Kinds <- MCKinds
  Ticks <- MCTicks
  Replays <- MCReplays
  BatchSize = 2
  MaxAttempts = 2
  OddBound = 2
CHECK_DEADLOCK FALSE
INVARIANTS
  IInv
  NothingIsSkipped
  StoryIsTold
  StoryIsToldOnce
PROPERTIES
  EventsArePassed
