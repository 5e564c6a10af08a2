SPECIFICATION FairSpec
CONSTANTS
  Producer = {p1, p2}
  StackThread = st
  Node = {n1, n2}
  Stub = stub
  NULL = null
INVARIANTS
  NoStoreIntoPopped
  CountSound
PROPERTIES
  ImplementsFifo
  EveryMessagePopped
