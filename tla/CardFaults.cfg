\* Writers that do not wait for mc_init, other feedback, a file system that fails or runs out of files.
CONSTANTS
  console = console  config = config
  Writers <- TwoWriters
  NBlock = 2
  QMax = 2
  MaxFiles = 3
  Ungated = TRUE
  Faults = TRUE
  Rumble = TRUE
  MaxWrite = 3
SYMMETRY WriterSymmetry
SPECIFICATION Spec
INVARIANTS
  StaleHasCause
  DirtyScheduled
CHECK_DEADLOCK FALSE
