SPECIFICATION Spec
CONSTANTS
  Codes <- MCCodes
  InitialRegisters <- MCRegisters
  MAX_SIZE = 4
  MaxIterations = 8
  CHAR_BIT = 4
  FirstArgumentOffset = 4
  RegisterBits = 18
  AddressBits = 4
  FrameBase = 6
INVARIANTS
  AnalysisTypeOK
  ReadsAreRight
  DefinitionsReach
  OnlyKnownRewritesGoAstray
  
