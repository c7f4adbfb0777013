SPECIFICATION Spec
CONSTANTS
  Games = {"g1"}
  OldFiles = {1}
  OldModes = {1}
  MaxEvents = 3
INVARIANTS Inv SettingsKept CoreFollows
