\* Two trainings of a classifier's name.
CONSTANTS
  Requests = {r1, r2}
  NoRequest = NoRequest
  Pollers = {p1, p2}
  Setups <- AllSetups
SPECIFICATION FairSpec
INVARIANTS
  TypeOK
  ReadyHasModel
PROPERTIES
  OrphansAreCollected
  TrainingEnds
CHECK_DEADLOCK FALSE
