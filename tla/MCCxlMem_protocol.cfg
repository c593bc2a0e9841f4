SPECIFICATION Spec
CONSTANTS
  Host = Host
  Device = Device
  Addrs = {a1, a2, a3}
  Values = {v0}
  InitVal = v0
  HostWays = 2
  DeviceWays = 2
  Ways <- WaysOf
  Loads <- HostOnly
  Stores <- All
  None = None
INVARIANTS
  TypeOK
  OnePacketPerChannel
  ResponsesWhole
  HaAlive
  SnoopFilterInclusive
  OwnerAlone
PROPERTIES
  Completes
CHECK_DEADLOCK FALSE
