CONSTANTS
  w1 = w1
  Writers <- MCWriters
  Capacity = 7
  EntrySize = 2
  StartAlone = TRUE
  MaxWrites = 5
  MaxBoots = 1
SPECIFICATION Spec
INVARIANTS
  RingKeepsNewest
