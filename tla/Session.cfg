CONSTANTS
  MaxMore = 1
  SdpSize = 1
  MaxExtra = 1
  MaxConn = 2
SPECIFICATION MCSpec
INVARIANTS
  SessionSound
  InitSound
PROPERTIES
  SessionReady
CHECK_DEADLOCK FALSE
