CONSTANTS
  Shapes <- MCSmall
  Setups <- MCReplay
SPECIFICATION Spec
INVARIANTS
  UnflushedIsAhead
CHECK_DEADLOCK FALSE
