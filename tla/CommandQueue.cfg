SPECIFICATION Spec
CONSTANTS
    sync1 = sync1
    sync2 = sync2
    single = single
    double = double
    NoCommand = NoCommand
    Commands <- MCCommands
    Delegated <- MCDelegated
    MaxThreads = 2
    MaxClears = 2
INVARIANTS
    TypeOK
    ActivityCountMatches
    AbandonedAreCancelled
    FinishIsAnnounced
    ExecutedInOrder
    StatusBarShowsFront
    OnlyFrontWorks
PROPERTIES
    EveryCommandSettles
    SerialSpec
CHECK_DEADLOCK FALSE
