SPECIFICATION FormatSpec
CONSTANTS
    MaxIndentation = 3
    MaxCalls = 8
INVARIANTS
    Faithful
    StopsOnlyThere
PROPERTIES
    LaidOut
CHECK_DEADLOCK FALSE
