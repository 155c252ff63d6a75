SPECIFICATION Spec
CONSTANTS
  MaxPackets = 2
  MaxFaults = 1
  CanCancel = FALSE
  Schedules <- OneWindow
  ErrorLimit = 0
  CanStop = TRUE
  ClientOps = {}
  MaxCalls = 0
  MaxRetries = 0
INVARIANTS
  TypeOK
  
  ParamsOnRecord
  StopTakesEffect
PROPERTIES
  PacketsSurface
CHECK_DEADLOCK FALSE
