CONSTANTS
  k1 = k1
  k2 = k2
  k3 = k3
  v1 = v1
  v2 = v2
  Keys <- MCKeys
  Versions <- MCVersions
  Sizes <- MCSizes
  Hash <- MCHash
  Depth = 2
  Width = 2
  Capacity = 2
  ResetFactor = 2
  UintRange = 1000
  ProtectedRatio = 80
  ScanLimit = 16
  MaxOps = 5
  BlockKeys <- MCKeys
  Blocks <- MCBlocks
  CapacityBytes = 6
  MaxCalls = 5
SPECIFICATION MCSpec
SYMMETRY MCSymmetry
INVARIANTS
  QueuesMatchEntries
  SizeIsBounded
  GetReturnsLastPut
  NeverUnderestimates
  CellsNeverWrap
  UsedIsBounded
  KeepsMostRecent
PROPERTIES
  IsEvictingMap
  L3IsEvictingMap
CHECK_DEADLOCK FALSE
