\* Two training jobs of one template.
CONSTANTS
  Jobs = {j1, j2}
  NoJob = NoJob
  Pollers = {p1, p2}
  Users = {u1, u2}
  Setups <- AllSetups
SPECIFICATION FairSpec
INVARIANTS
  OutcomeAgrees
  OneActive
PROPERTIES
  ActiveIsReplaced
  JobsEnd
CHECK_DEADLOCK FALSE
