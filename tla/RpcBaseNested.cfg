SPECIFICATION FairSpec
CONSTANTS
  base1 = base1
  base2 = base2
  NoCallback = NoCallback
  NoHandler = NoHandler
  Bases <- OneBase
  WireModulus = 3
  HighModulus = 2
  Payloads <- Text
  HookIds <- FirstId
  MaxCalls = 3
  MaxResults = 1
  Types <- OneType
  Kinds <- FreeAndMember
  MaxDepth = 3
INVARIANTS
  AnswerableWhileSending
  RunningIsRegistered
PROPERTIES
  CallsGoOut
