SPECIFICATION Spec
CONSTANTS
  Host = Host
  Device = Device
  Addrs = {a1, a2, a3}
  Values = {v0, v1}
  InitVal = v0
  HostWays = 3
  DeviceWays = 3
  Ways <- WaysOf
  Loads <- ReadOne
  Stores <- AllButOne
  None = None
PROPERTIES
  CoherentMemory
CHECK_DEADLOCK FALSE
