SPECIFICATION Spec
CONSTANTS
  a1 = a1
  a2 = a2
  Host = Host
  None = None
  NumDevices = 1
  Addrs = {a1,a2}
  Values = {v0,v1}
  InitVal = v0
  HostWays = 1
  DeviceWays = 1
  Loads <- EveryoneLoads
  Stores <- OneWriterPerLine
INVARIANT CleanMeansMemoryCurrent
CHECK_DEADLOCK FALSE
