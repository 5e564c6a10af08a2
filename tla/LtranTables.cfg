SPECIFICATION Spec
CONSTANTS
  p1 = p1
  p2 = p2
  k1 = k1
  k2 = k2
  k3 = k3
  a1 = a1
  a2 = a2
  q1 = q1
  q2 = q2
  Proc = {p1, p2}
  Stack = {k1, k2, k3}
  ProcOf <- MCProcOf
  TidOf <- MCTidOf
  Addr = {a1, a2}
  Hash <- MCHash
  Quintuple = {q1, q2}
  Dst <- MCDst
  Active = {q2}
  Cell = {c1, c2, c3}
  None = None
  MaxConn = 4
  Timeout = 1
  ConMod = 32
  MaxOps = 5
  RestartCost = 3
INVARIANTS OneLiveConn TableMatchesListeners SockAlive OwnerServed
PROPERTIES NoRemovalWhileShown
SYMMETRY Symmetry
CHECK_DEADLOCK FALSE
