SPECIFICATION Spec
CONSTANTS
    Codes <- MCCodes
INVARIANTS
    StructureTypeOK
    NoAssertionFails
    EdgesStandForJumps
    OnlyKnownJumpsGoAstray
PROPERTIES
    EveryRoundTakesWorkAway
