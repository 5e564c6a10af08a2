SPECIFICATION Spec
CONSTANTS
  a1 = a1
  a2 = a2
  k1 = k1
  k2 = k2
  s1 = s1
  s2 = s2
  App = {a1}
  Waiter = {a1}
  Stack = {k1}
  Sock = {s1}
  StackOf <- MCStackOf
  KernelStack = k1
  Modes <- LevelOnly
  Registered = {}
  Timed = FALSE
  MaxEvents = 2
  RingSize = 2
  Packets = 1
  KernelMsgs = 0
  MaxCtl = 1
  Inputs = 2
INVARIANTS ReadableReported
CHECK_DEADLOCK FALSE
