SPECIFICATION Spec
CONSTANTS
  Vppbs = {0, 1}
  p1 = p1
  Ports = {p1}
  Lds = {0, 1, 2}
  AllocatedLd <- AllLds
  InitialBounds <- OneBound
  None = None
  MaxBinds = 3
  MaxCommands = 4
  MaxRequests = 1
INVARIANTS
  TypeOK
  TablesAgree
  OwnLd
  OwnAnswers
  UpRoutingAlive
PROPERTIES
  CommandsEnd
  Answered
CHECK_DEADLOCK FALSE
