SPECIFICATION FairSpec
CONSTANTS
  App = {a1}
  Peer = {s2}
  AppPool = 4
  PeerPool = 1
  SendLimit = 1
INVARIANTS
  SyncCallProcessed
  NoUseAfterFree
PROPERTIES
  EveryCallReturns
