SPECIFICATION VoiceFairSpec
CONSTANTS
  Handlers = {h1, h2}
  BargeIns = {k1, k2}
  WakeWordOn = TRUE
  MicAvailable = TRUE
INVARIANTS
  VoiceTypeOK
  TransientOwned
PROPERTIES
  PrivateModesDeaf
  TransientEnds
CHECK_DEADLOCK FALSE
