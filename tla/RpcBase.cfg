SPECIFICATION Spec
CONSTANTS
  base1 = base1
  base2 = base2
  NoCallback = NoCallback
  NoHandler = NoHandler
  Bases <- TwoBases
  WireModulus = 3
  HighModulus = 2
  Payloads <- Text
  HookIds <- NoIds
  MaxCalls = 3
  MaxResults = 1
  Types <- OneType
  Kinds <- FreeAndMember
  MaxDepth = 2
SYMMETRY BaseSymmetry
INVARIANTS
  TypeOK
  SentStaysAnswerable
PROPERTIES
  ImplementsClient
