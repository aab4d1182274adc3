SPECIFICATION LoopSpec
CONSTANTS
  N = 5
  MaxConcurrency = 3
INVARIANTS
  ReturnsWhenAllSettled
PROPERTIES
  ImplementsLimit
  FailureWhileAwaitingIsSeen
  LoopEnds
CHECK_DEADLOCK FALSE
