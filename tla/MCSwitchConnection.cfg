CONSTANTS
  device = device
  stray = stray
  Clients = {device, stray}
  Kinds = {"CfgRd", "MemRd"}
  Channels = {"cfg", "mmio"}
  TypeOf <- Types
  Openings <- Opens
  Retry = {device}
  None = None
  MaxConns = 2
  MaxSent = 2
  Tags = 1
SPECIFICATION Spec
INVARIANTS
  TypeOK
  OnePerPort
  OneReader
  TagsPaired
  FieldsFit
PROPERTIES
  Freed
  HandshakeEnds
CHECK_DEADLOCK FALSE
