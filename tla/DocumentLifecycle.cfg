SPECIFICATION FairSpec
CONSTANTS
  Requests = {q0, q1}
  Creator = q0
  Setups <- AllSetups
INVARIANTS
  ExtractedHasResult
  PurgeSparesUndisturbed
  ProcessingIsCarried
PROPERTIES
  ProgressIsKept
  GetsOutOfProcessing
CHECK_DEADLOCK FALSE
