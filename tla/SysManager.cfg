\* Two slots and two ports, with and without hotplug, inside the console or not.
CONSTANTS
  NDev = 2
  NPort = 2
  MaxEvents = 3
SPECIFICATION ManagerFair
INVARIANTS
  ManagerSound
PROPERTIES
  WakeHasCause
  SysFollows
