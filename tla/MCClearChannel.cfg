SPECIFICATION Spec
CONSTANTS
  MaxPackets = 1
  MaxFaults = 0
  CanCancel = FALSE
  Schedules <- NoWindows
  ErrorLimit = 0
  CanStop = FALSE
  ClientOps = {"send_frame"}
  MaxCalls = 1
  MaxRetries = 1
PROPERTIES
  ClearChannelTransmits
CHECK_DEADLOCK FALSE
