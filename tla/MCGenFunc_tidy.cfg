\* every function of up to 4 statements in which jumps end their blocks
SPECIFICATION RunSpec
CONSTANTS
    MaxStmts = 4
    Untidy = {}
INVARIANTS
    LoopsMatch
    OneTerminator
    Closed
    InSync
\* the function has returned
CHECK_DEADLOCK FALSE
