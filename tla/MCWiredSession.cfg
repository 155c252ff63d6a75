SPECIFICATION Spec
CONSTANTS
  Addresses = 3
  Telegrams <- MCTelegrams
  Embedded = {2}
  Ops = {"send_request", "send_request_with_adaptation", "scan_devices"}
  MaxCalls = 3
  MaxNoise = 1
  MaxPayload = 4
INVARIANTS
  TypeOK
  AddressedMeterOnly
  ContiguousReadout
  ScanTruthful
PROPERTIES
  CallsReturn
CHECK_DEADLOCK FALSE
