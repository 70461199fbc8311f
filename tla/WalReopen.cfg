CONSTANTS
  Shapes <- MCSmall
  Setups <- MCReopen
SPECIFICATION Spec
INVARIANTS
  LogKeepsUnflushed
CHECK_DEADLOCK FALSE
