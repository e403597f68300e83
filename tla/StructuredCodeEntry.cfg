SPECIFICATION Spec
CONSTANTS
    Codes <- MCEntryCodes
INVARIANTS
    AssertionsHold
