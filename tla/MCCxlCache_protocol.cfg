SPECIFICATION Spec
CONSTANTS
  a1 = a1
  a2 = a2
  Host = Host
  None = None
  NumDevices = 2
  Addrs = {a1,a2}
  Values = {v0}
  InitVal = v0
  HostWays = 1
  DeviceWays = 1
  Loads <- EveryoneLoads
  Stores <- EveryoneStores
INVARIANT TypeOK
INVARIANT RequestsPaired
INVARIANT SnoopFilterInclusive
INVARIANT DeviceOwnsAlone
INVARIANT AnswersSupported
CHECK_DEADLOCK FALSE
