SPECIFICATION Spec
CONSTANTS
  MaxPackets = 1
  MaxFaults = 1
  CanCancel = FALSE
  Schedules <- OneWindow
  ErrorLimit = 0
  CanStop = FALSE
  ClientOps = {"send_frame", "transmit", "sleep", "wake_up", "get_radio_status"}
  MaxCalls = 2
  MaxRetries = 1
PROPERTIES
  OkMeansSent
  OnAirUndisturbed
  CallsReturn
