SPECIFICATION Spec
CONSTANTS
  VppbCount = 2
  d1 = d1
  d2 = d2
  d3 = d3
  Devices = {d1, d2, d3}
  DeviceSize <- Sizes
  RangeUnit = 256
  InitialSlots <- Bounds
  IwChoices = {0, 1}
  UspDecoders = 4
  MaxCommands = 4
  None = None
  Dummy = Dummy
INVARIANTS
  TypeOK
  Reaches
  RoutedOnce
  Tracked
  BiReturns
PROPERTIES
  HandlersEnd
CHECK_DEADLOCK FALSE
