\* each opening with up to 4 more tokens
SPECIFICATION Spec
CONSTANTS
    Openings <- Beginnings
    Supply <- Representatives
    MaxTokens = 4
INVARIANTS
    NoHole
PROPERTIES
    ErrorReported
    Implements
    RefusesOnlyErrors
    Terminates
\* the file has been read
CHECK_DEADLOCK FALSE
