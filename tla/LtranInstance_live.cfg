SPECIFICATION FairSpec
CONSTANTS
  Proc = {p1}
  Thread = {t1, t2}
  Conn = {c1}
  None = None
  SlotNum = 2
  MaxInstance = 1
  MaxStack = 1
  LoopMod = 3
PROPERTIES GoneIsFreed
CHECK_DEADLOCK FALSE
