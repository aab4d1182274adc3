\* One request, one sample, and looks that go on.
CONSTANTS
  s1 = s1
  s2 = s2
  Samples = {s1}
  Starts = {g1}
  NoLoop = NoLoop
  Syncs = {y1}
  Setups <- CalmSetup
SPECIFICATION FairSpec
PROPERTIES
  ResultsReachReview
CHECK_DEADLOCK FALSE
