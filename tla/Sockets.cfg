SPECIFICATION Spec
CONSTANTS
  a1 = a1
  a2 = a2
  App = {a1, a2}
  StackNum = 2
  FdNum = 3
  ConnMod = 3
  MaxClients = 2
  MaxQueue = 1
  Calls <- MCCalls
  MaxCall <- MCMaxCall
  Cfgs <- MCCfgs
  No = No
INVARIANTS HeldIsLive ListenCovers NoOrphan NothingMissed RouteAgrees
CHECK_DEADLOCK FALSE
