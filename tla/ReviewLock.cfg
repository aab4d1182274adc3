SPECIFICATION Spec
CONSTANTS
  Reviewers = {r1, r2}
  Sessions = {s1, s2, s3}
  NoSession = NoSession
  NoReviewer = NoReviewer
  NoLock = NoLock
  Loads <- AllLoads
SYMMETRY Symmetry
INVARIANTS
  LockNamesItsReviewer
PROPERTIES
  OnlyOwnCloseReleases
  SerialStartRespectsLock
CHECK_DEADLOCK FALSE
