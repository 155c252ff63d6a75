SPECIFICATION Spec
CONSTANTS
  Addresses = 3
  Telegrams <- MCTelegrams
  Embedded = {}
  Ops = {"send_request"}
  MaxCalls = 2
  MaxNoise = 1
  MaxPayload = 4
INVARIANTS
  WholeReadout
CHECK_DEADLOCK FALSE
