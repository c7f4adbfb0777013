SPECIFICATION Spec
CONSTANTS
  Addrs = {0, 1} Words = {"even", "odd"} GameIds = {"g1"} MaxPackets = 4
  Pads = {0, 1} Kinds = {"pad"} MaxEvents = 4
  Channels = {0, 1} Banks = {0, 1} Countdown = 2 MaxChange = 2
  Ports = {0} Settings = {"idle", "5s", "0", "run"}
INVARIANTS PsSound AccessorySound LinesSound
CHECK_DEADLOCK FALSE
