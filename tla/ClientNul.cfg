SPECIFICATION Spec
CONSTANTS
  base1 = base1
  base2 = base2
  NoCallback = NoCallback
  Bases <- OneBase
  WireModulus = 4
  HighModulus = 2
  Payloads <- TextAndBinary
  HookIds <- FirstIds
  MaxCalls = 1
  MaxResults = 1
CHECK_DEADLOCK FALSE
INVARIANT
  ResultDeliveredWhole
