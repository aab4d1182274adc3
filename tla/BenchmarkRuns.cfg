\* Two runs of two definitions over one dataset version.
CONSTANTS
  Runs = {r1, r2}
  Definitions = {d1, d2}
  NoDefinition = NoDefinition
  Setups <- AllSetups
SYMMETRY Symmetry
SPECIFICATION Spec
INVARIANTS
  NoRunIsStuck
  StartedRunIsFrozen
PROPERTIES
  OutcomeIsKept
CHECK_DEADLOCK FALSE
