SPECIFICATION FairSpec
CONSTANTS
  t1 = t1
  t2 = t2
  t3 = t3
  None = None
  Stale = Stale
  OneLoop = TRUE
  Tasks = {t1, t2}
  Insts = {i1, i2}
  Loops = {l1, l2}
  Rank <- TwoRanks
  BadPriority = {}
  Deps <- NoDeps
  Factories = {t1, t2}
  EarlyFactories = {t1}
  MaxRetries = 1
  Pool = 1
  Loads = {6, 4}
  ClientOps <- NoPause
  MaxOps = 1
  MaxCrashes = 1
INVARIANTS
  OneDriver
  HandleReachesWorker
PROPERTIES
  ImplementsLifecycle
  ReadyTasksEnd
