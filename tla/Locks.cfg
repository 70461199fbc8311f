CONSTANTS
  t1 = t1
  t2 = t2
  t3 = t3
  Threads <- MCThreads
SPECIFICATION FairSpec
INVARIANTS
  SectionIsAlone
  OneOfEach
PROPERTY EveryoneIsServed
