SPECIFICATION Spec
CONSTANTS
    MaxItems = 2
    MaxCalls = 4
INVARIANTS
    WalksTheTree
    Replaced
    RefusalEndsIt
CHECK_DEADLOCK FALSE
