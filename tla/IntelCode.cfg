SPECIFICATION Spec
CONSTANTS
  Traces <- MCTraces
  Machines <- MCMachines
  NextAddress = 6
  MAX_SIZE = 4
  CHAR_BIT = 2
  Bitness = 4
  RegisterBits = 56
  AddressBits = 4
  FrameBase = 0
INVARIANTS
  IntelTypeOK
  OnlyKnownInstructionsGoAstray
  PseudoFlagsAreFresh
