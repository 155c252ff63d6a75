SPECIFICATION Spec
CONSTANTS
  MaxFrames = 2
  MaxFaults = 1
  FifoUnits = 3
  DrainUnits = 4
  MaxQueue = 1
  MaxAttempts = 1
INVARIANTS
  TypeOK
  WholeFrames
  QueueHoldsNewest
  ParkedAtStop
  FramesAccounted
PROPERTIES
  DeafRadioReplaced
CHECK_DEADLOCK FALSE
