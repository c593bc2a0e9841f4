SPECIFICATION Spec
CONSTANTS
  TagBits = 2
  PidMax = 3
  Targets <- SomeTargets
  NumDrts = 1
  DrtSize = 2
  Edges <- OneEdge
  Events <- SomeEvents
  Entries <- SomeEntries
  CommandSets <- TwoSwitches
  PortKind <- SomePorts
  Plugged <- SomePlugged
  LdCount = 2
  NumVcss = 1
  NumVppbs = 2
  None = None
  MaxEvents = 2
  MaxTurns = 1
INVARIANTS
  TypeOK
  PidOwner
  OwnAnswers
PROPERTIES
  Answered
CHECK_DEADLOCK FALSE
