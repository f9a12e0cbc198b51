SPECIFICATION Spec
CONSTANTS
  base1 = base1
  base2 = base2
  NoCallback = NoCallback
  Bases <- OneBase
  WireModulus = 2
  HighModulus = 2
  Payloads <- TextOnly
  HookIds <- NoIds
  MaxCalls = 3
  MaxResults = 1
CHECK_DEADLOCK FALSE
INVARIANT
  EveryRunIsOwn
