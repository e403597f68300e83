SPECIFICATION TypedSpec
CONSTANTS
  Codes <- MCTypedCodes
  InitialRegisters <- MCRegisters
  Numbers <- MCNumbers
  Contents <- MCContents
  MAX_SIZE = 4
  MaxIterations = 30
  CHAR_BIT = 2
  FirstArgumentOffset = 3
  RegisterBits = 22
  AddressBits = 4
  FrameBase = 4
  IntSize = 4
  PointerSize = 4
  PrintedLimit = 5
  FactorLimit = 16
  FirstAddress = 4
INVARIANTS
  TypedTypeOK
  CastsKeepValues
  RewritingKeepsValues
PROPERTY
  EveryRoundLearns
