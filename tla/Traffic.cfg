\* Queue: core 1 and the timer task enqueue, at the same time too; three items.
CONSTANTS
  Producers = {core1, timer}
  Msgs = {m1, m2}
  NoMsg = NoMsg
  N = 4
  MaxLate = 1
  Links = {l1, l2}
  MaxFrags = 3
  Room = 1
  Ports = {1, 2}
  Queued = 1
  MaxOld = 1
  Slots = {1, 2}
  Srcs = {"x", "y"}
  Cleared = {1}
  Keys = {1, 2}
  MaxCodes = 2
SPECIFICATION TrafficSpec
INVARIANTS
  EachItemOnce
  
  
  
PROPERTIES
  Refines
\* The calls of the queue are bounded, and the way out can stop for good
CHECK_DEADLOCK FALSE
