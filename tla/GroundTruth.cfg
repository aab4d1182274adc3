\* Two requests, two samples.
CONSTANTS
  s1 = s1
  s2 = s2
  Samples = {s1, s2}
  Starts = {g1, g2}
  NoLoop = NoLoop
  Syncs = {y1, y2}
  Setups <- AllSetups
SYMMETRY Symmetry
SPECIFICATION Spec
INVARIANTS
  TypeOK
  CompletedIsListed
  OneJobPerSample
CHECK_DEADLOCK FALSE
