\* Fair scheduling and a sound file system: what is written reaches the file.
CONSTANTS
  console = console  config = config
  Writers <- TwoWriters
  NBlock = 2
  QMax = 2
  MaxFiles = 5
  Ungated = FALSE
  Faults = FALSE
  Rumble = TRUE
  MaxWrite = 2
SPECIFICATION FairSpec
PROPERTIES
  EventuallyStored
  EventuallySaved
INVARIANTS
  LeakBound
