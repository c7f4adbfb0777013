\* Two stored addresses, errors up to two restarts, run time commands at any time;
\* the controller completes every command.
CONSTANTS
  NKey = 2
  MaxRetry = 1
  MaxRun = 2
  MaxFail = 4
SPECIFICATION FairSpec
INVARIANTS
  Inv
PROPERTIES
  ChainEnds
