SPECIFICATION MicFairSpec
CONSTANTS
  headset = headset
  laptop = laptop
  Devices = {laptop, headset}
  Transport <- Transports
  Index <- Positions
  Default = laptop
  Preferred = {}
  Fallback = Fallback
  None = None
  Captures = {1, 2, 3}
  Monitors = {1, 2}
  MaxChanges = 2
  MaxFailures = 1
INVARIANTS
  MicTypeOK
  CleanStopIsOff
  OneCapture
PROPERTIES
  SilenceComes
CHECK_DEADLOCK FALSE
