SPECIFICATION Spec
CONSTANTS
  Proc = {p1, p2}
  Thread = {t1, t2}
  Conn = {c1, c2}
  None = None
  SlotNum = 3
  MaxInstance = 2
  MaxStack = 1
  LoopMod = 2
INVARIANTS NoUseAfterFree NothingLeaked StaleEntryStaysOff
SYMMETRY Symmetry
CHECK_DEADLOCK FALSE
