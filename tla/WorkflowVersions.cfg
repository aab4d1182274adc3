\* Two requests, up to three versions, one definition; two attempts in
\* place of three keep every case of the loop.
CONSTANTS
  Requests = {r1, r2}
  Configs = {c1, c2}
  NoConfig = NoConfig
  Definitions = {d1}
  NoDefinition = NoDefinition
  MaxVersions = 3
  MaxAttempts = 2
SYMMETRY Symmetry
SPECIFICATION Spec
PROPERTIES
  ImplementsHistory
  RejectedOnlyWhenOvertaken
  PinnedConfigIsKept
CHECK_DEADLOCK FALSE
