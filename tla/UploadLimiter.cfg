SPECIFICATION LimiterSpec
CONSTANTS
  Uploads = {u1, u2, u3, u4, u5}
  Limit = 2
INVARIANTS
  SlotsAreBounded
  QueueOnlyWhenFull
PROPERTIES
  ServedInOrder
  QueuedIsServed
