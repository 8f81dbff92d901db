SPECIFICATION Spec
CONSTANTS
  runtime = runtime
  gateway = gateway
  dark = dark
  light = light
  Threads <- MCThreads
  Topics = {theme}
  Values <- MCValues
  Levels = {0, 1, 2}
  Gate = 1
  Listed = 2
  MaxId = 3
  MaxBoots = 3
SYMMETRY MCSymmetry
INVARIANTS TypeOK Recall BootRecovers
CHECK_DEADLOCK FALSE
