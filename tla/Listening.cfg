SPECIFICATION ListeningSpec
CONSTANTS
  Silence = 2
  MaxLength = 4
  MaxDelay = 1
  MaxTime = 8
INVARIANT CommandsWhole
CHECK_DEADLOCK FALSE
