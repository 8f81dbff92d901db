SPECIFICATION FairSpec
CONSTANTS
  t1 = t1
  t2 = t2
  t3 = t3
  None = None
  Stale = Stale
  OneLoop = TRUE
  Tasks = {t1, t2, t3}
  Insts = {i1, i2, i3, i4}
  Loops = {l1, l2}
  Rank <- EqualRanks
  BadPriority = {}
  Deps <- JoinDeps
  Factories = {}
  EarlyFactories = {}
  MaxRetries = 0
  Pool = 1
  Loads = {6}
  ClientOps = {"cancel"}
  MaxOps = 1
  MaxCrashes = 0
INVARIANT DependencyFirst
PROPERTIES
  WaitingTasksEnd
CHECK_DEADLOCK FALSE
