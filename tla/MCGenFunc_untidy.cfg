\* functions in which statements may follow a break or return, and a for body
\* may end in one
SPECIFICATION RunSpec
CONSTANTS
    MaxStmts = 3
    Untidy = {"after jump", "for tail"}
INVARIANTS
    OneTerminator
CHECK_DEADLOCK FALSE
