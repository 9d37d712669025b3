SPECIFICATION FairSpec
CONSTANTS
  t1 = t1
  t2 = t2
  t3 = t3
  Threads <- TwoThreads
  PoolSize = 2
  BufferSize = 2
INVARIANTS
  TypeOK
  StackedAreEmpty
  HolderIsServed
PROPERTIES
  ImplementsPool
  ImplementsOnce
  EndsAlone
