SPECIFICATION LoopSpec
CONSTANTS
  N = 4
  MaxConcurrency = 2
INVARIANTS
  NoFailureIsLost
CHECK_DEADLOCK FALSE
