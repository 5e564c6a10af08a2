SPECIFICATION FairSpec
CONSTANTS
  a1 = a1
  a2 = a2
  k1 = k1
  k2 = k2
  s1 = s1
  s2 = s2
  App = {a1, a2}
  Waiter = {a1}
  Stack = {k1, k2}
  Sock = {s1}
  StackOf <- MCStackOf
  KernelStack = k2
  Modes <- LevelAndEdge
  Registered = {s1}
  Timed = TRUE
  MaxEvents = 2
  RingSize = 1
  Packets = 2
  KernelMsgs = 2
  MaxCtl = 1
  Inputs = 3
INVARIANTS NoLostWakeup ReadableUntilCtl
PROPERTIES EveryPacketRead KernelServedUnlessCovered
CHECK_DEADLOCK FALSE
