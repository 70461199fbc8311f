CONSTANT MaxRetries = 3
SPECIFICATION FairSpec
INVARIANTS
  StackIsBounded
PROPERTIES
  PhaseOrder
  SettlesWhenStable
