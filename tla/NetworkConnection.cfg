CONSTANTS
  DetectTimeout = 1
  MinBackoff = 1
  MaxBackoff = 3
  BackoffMultiplier = 2
  MaxRetryCount = 3
  RecoveryTimeout = 1
  ServerLists <- MCServerLists
  CallbackSets <- MCCallbacks
  TickPeriod = 1
  ConnectTime = 1
  AgeCap = 5
  MaxPending = 1
  MaxCalls = 4
SPECIFICATION FairSpec
INVARIANTS
  ServerIndexInRange
  BoundedBlindIo
  StoppedIsOffline
  BackoffDiscipline
PROPERTIES
  RecoversUnlessOffline
  FailoverReachesEveryServer
