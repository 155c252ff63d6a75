SPECIFICATION SchedSpec
CONSTANTS
  MaxPackets = 0
  MaxFaults = 2
  CanCancel = TRUE
  Schedules <- MCSchedules
INVARIANTS
  SchedTypeOK
  HoldsProfile
  ReturnsInBase
  CancelStopsWindows
  OutcomeTruthful
PROPERTIES
  RunReturns
  ImplementsLease
CHECK_DEADLOCK FALSE
