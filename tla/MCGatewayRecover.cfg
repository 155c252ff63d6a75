SPECIFICATION Spec
CONSTANTS
  MaxFrames = 1
  MaxFaults = 1
  FifoUnits = 3
  DrainUnits = 4
  MaxQueue = 1
  MaxAttempts = 1
PROPERTIES
  RecoverRestoresRx
CHECK_DEADLOCK FALSE
