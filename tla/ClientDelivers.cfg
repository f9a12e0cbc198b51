SPECIFICATION FairSpec
CONSTANTS
  base1 = base1
  base2 = base2
  NoCallback = NoCallback
  Bases <- OneBase
  WireModulus = 3
  HighModulus = 2
  Payloads <- TextOnly
  HookIds <- FirstIds
  MaxCalls = 3
  MaxResults = 2
CHECK_DEADLOCK FALSE
PROPERTIES
  SuccessRunsCallback
