SPECIFICATION FairSpec
CONSTANTS
  Uses = {"rx", "tx", "reg"}
  Size = 4
  Mod = 8
  NBuf = 5
  Burst = 4
  ReadSize = 2
  BackupSize = 2
  Watermark = 2
  MaxRx = 7
  MaxTx = 4
  MaxReg = 8
  MaxOdd = 1
INVARIANTS RefsExact DueIntact
PROPERTIES NoReuseWhileHeld EverythingLeaves
CHECK_DEADLOCK FALSE
