SPECIFICATION Spec
CONSTANTS
  a1 = a1
  a2 = a2
  Host = Host
  None = None
  NumDevices = 1
  Addrs = {a1}
  Values = {v0}
  InitVal = v0
  HostWays = 1
  DeviceWays = 1
  Loads <- EveryoneLoads
  Stores <- EveryoneStores
INVARIANT DcohAlive
CHECK_DEADLOCK FALSE
