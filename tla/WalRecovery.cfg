CONSTANTS
  Shapes <- MCShapes
  Setups <- MCSetups
SPECIFICATION Spec
INVARIANTS
  SegmentsReadBack
  NewWritesAreAhead
  SessionReplay
CHECK_DEADLOCK FALSE
