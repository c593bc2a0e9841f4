SPECIFICATION Spec
CONSTANTS
  Host = Host
  Device = Device
  Addrs = {a1}
  Values = {v0}
  InitVal = v0
  HostWays = 1
  DeviceWays = 1
  Ways <- WaysOf
  Loads <- All
  Stores <- NoOne
  None = None
INVARIANTS
  ResponsesWhole
CHECK_DEADLOCK FALSE
