CONSTANTS
  t1 = t1
  t2 = t2
  t3 = t3
  p1 = p1
  p2 = p2
  i1 = i1
  i2 = i2
  i3 = i3
  Threads <- MCThreads
  MaxDirtyPages = 3
  Offsets = {0, 1}
  Pdos <- MCPdos
  MaxHandles = 2
  Irps <- MCIrps
  ScanInterval = 5
  IrpTimeout = 10
  AgeCap = 21
SPECIFICATION MCSpec
SYMMETRY MCSymmetry
INVARIANTS
  DirtyListIsBounded
  PoolIsAccountedFor
  NothingLeftBehind
  WatchdogAlive
  TimeoutBound
