\* One slot.  BR/EDR: two timers, one retry, two acknowledgements under way.
\* LE: three reports, two continued answers, two errors, two connections.
\* Wii: two extensions plugged, one write that fails.
CONSTANTS
  RetryMax = 1
  Timers = {t1, t2}
  NoTimer = NoTimer
  MaxAck = 2
  MaxReport = 3
  MaxMore = 2
  MaxErr = 2
  MaxConn = 2
  MaxPlug = 2
  MaxFail = 1
SPECIFICATION Spec
INVARIANTS
  Inv
  ReadySound
PROPERTIES
  InitEnds
CHECK_DEADLOCK FALSE
