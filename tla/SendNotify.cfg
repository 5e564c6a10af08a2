SPECIFICATION FairSpec
CONSTANTS
  Capacity = 2
  ExpandSendRing = TRUE
  MaxWrites = 6
  CallNumMod = 8
INVARIANTS
  SkipIsSafe
  ThreeSendsAtMost
PROPERTIES
  SendGoesOn
CHECK_DEADLOCK FALSE
