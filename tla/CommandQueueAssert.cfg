SPECIFICATION Spec
CONSTANTS
    sync1 = sync1
    sync2 = sync2
    single = single
    double = double
    NoCommand = NoCommand
    Commands <- MCCommands
    Delegated <- MCDelegated
    MaxThreads = 2
    MaxClears = 2
INVARIANTS
    FrontAssertionHolds
CHECK_DEADLOCK FALSE
