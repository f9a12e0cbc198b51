SPECIFICATION Spec
CONSTANTS
  base1 = base1
  base2 = base2
  NoCallback = NoCallback
  Bases <- TwoBases
  WireModulus = 3
  HighModulus = 2
  Payloads <- TextOnly
  HookIds <- FirstId
  MaxCalls = 4
  MaxResults = 2
CHECK_DEADLOCK FALSE
SYMMETRY BaseSymmetry
INVARIANTS
  TypeOK
  RunsAgreeOnWire
  NoCrossTalk
  RegisteredBeforeSent
PROPERTIES
  RegistrationSticks
  ImplementsLedger
