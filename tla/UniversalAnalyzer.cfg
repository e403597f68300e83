SPECIFICATION Spec
CONSTANTS
    Size = 3
    Codes <- MCCodes
INVARIANTS
    ProgramTypeOK
    RangesMatchBlocks
    StatementsAreKept
    JumpsEndBlocksWithoutOverlap
    ControlFlowIsPreserved
    EveryStatementIsInAFunction
    FunctionsMatchCalls
PROPERTIES
    AnalysisEnds
