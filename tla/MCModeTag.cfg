SPECIFICATION Spec
CONSTANTS
  MaxPackets = 1
  MaxFaults = 0
  CanCancel = FALSE
  Schedules <- OneWindow
  ErrorLimit = 0
  CanStop = FALSE
  ClientOps = {}
  MaxCalls = 0
  MaxRetries = 1
INVARIANTS
  TagIsModemReceivedUnder
CHECK_DEADLOCK FALSE
