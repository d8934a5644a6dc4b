\* 4-bit integers, every range
SPECIFICATION LoopSpec
CONSTANTS
    MaxInt = 7
    Requests <- AllRequests
INVARIANTS
    LoopInv
PROPERTIES
    Implements
    Terminates
\* the loop is over at loop.end
CHECK_DEADLOCK FALSE
