SPECIFICATION FairSpec
CONSTANTS
  N = 2
INVARIANTS ParamsIntact ServesWhenAllUp ExitAfterPools
PROPERTIES StartupEnds
CHECK_DEADLOCK FALSE
