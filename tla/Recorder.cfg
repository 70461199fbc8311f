CONSTANTS
  w1 = w1
  Writers <- MCWriters
  Capacity = 6
  EntrySize = 2
  StartAlone = TRUE
  MaxWrites = 5
  MaxBoots = 2
SPECIFICATION Spec
INVARIANTS
  WrapIsKnown
  RingKeepsNewest
  AnalyzerReadsPrefix
PROPERTIES
  FlushedOnce
  FlushEnds
