SPECIFICATION Spec
CONSTANTS
  t1 = t1
  t2 = t2
  t3 = t3
  None = None
  Stale = Stale
  OneLoop = FALSE
  Tasks = {t1, t2, t3}
  Insts = {i1, i2, i3}
  Loops = {l1, l2}
  Rank <- TwoRanks3
  BadPriority = {t3}
  Deps <- PairDeps3
  Factories = {t1, t2}
  EarlyFactories = {t1}
  MaxRetries = 1
  Pool = 1
  Loads = {6, 4}
  ClientOps <- AllOps
  MaxOps = 2
  MaxCrashes = 1
SYMMETRY ProcessSymmetry
INVARIANTS
  TypeOK
  StoreMatchesMemory
  NoLostTask
  PermitsAccounted
  HandleIsOwn
