SPECIFICATION ProjectSpec
CONSTANTS
    dis1 = dis1
    dis2 = dis2
    del = del
    sub = sub
    all1 = all1
    all2 = all2
    NoCommand = NoCommand
    Addresses = {1, 2}
    Disassembles = {dis1, dis2}
    Deletes = {del}
    DecompileSubsets = {sub}
    DecompileAlls = {all1}
    Commands <- MCCommands
    Delegated <- MCDelegated
    RangeOf <- MCRangeOf
    CodeSections <- MCCodeSections
    MaxThreads = 2
    MaxClears = 2
PROPERTIES
    OnlyDeletionRemoves
CHECK_DEADLOCK FALSE
