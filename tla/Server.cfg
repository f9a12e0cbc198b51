SPECIFICATION Spec
CONSTANTS
  session = session
  sessionMem = sessionMem
  NoHandler = NoHandler
  Types <- TwoTypes
  Handlers <- AllHandlers
  Messages <- AllMessages
  IntMin <- NegativeOne
  IntMax = 1
  MaxDepth = 2
SYMMETRY TypeSymmetry
INVARIANTS
  TypeOK
  NothingTruncated
  ApplyContains
