SPECIFICATION FairSpec
CONSTANTS
  engineLoop = engineLoop
  heartbeat = heartbeat
  tasks = tasks
  core = core
  Workers = {engineLoop, heartbeat}
  Heartbeat = heartbeat
  Component <- Keys
  Local = {websocket}
  Remote = {voice}
  Client = client
  Engine = engine
  Cycle = cycle
  Upkeep = {consolidation}
  MaxRestarts = 2
  MaxSpoken = 1
  Hour = 3
  Spacing = 1
  Horizon = 5
INVARIANTS
  TypeOK
  HonestHealth
  SlidingBudget
PROPERTIES
  WorkersComeBack
CHECK_DEADLOCK FALSE
