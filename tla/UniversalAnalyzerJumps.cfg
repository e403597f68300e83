SPECIFICATION Spec
CONSTANTS
    Size = 3
    Codes <- MCCodes
INVARIANTS
    JumpsEndBlocks
