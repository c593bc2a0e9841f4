SPECIFICATION Spec
CONSTANTS
  Host = Host
  Device = Device
  Addrs = {a1, a2, a3}
  Values = {v0}
  InitVal = v0
  HostWays = 2
  DeviceWays = 2
  Ways <- WaysOf
  Loads <- All
  Stores <- HostOnly
  None = None
INVARIANTS
  MissFollowsWriteBack
CHECK_DEADLOCK FALSE
