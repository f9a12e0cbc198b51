SPECIFICATION Spec
CONSTANTS
  session = session
  sessionMem = sessionMem
  NoHandler = NoHandler
  Types <- TwoTypes
  Handlers <- UnpackingHandlers
  Messages <- AllMessages
  IntMin <- NegativeOne
  IntMax = 1
  MaxDepth = 1
INVARIANT
  RunsOnlyOnMatchingArgs
