\* all of the texts
SPECIFICATION Spec
CONSTANTS
    Texts <- MCTexts
INVARIANTS
    Window
    UnknownReported
    QuotesItsLine
PROPERTIES
    Implements
    Returns
\* the assertion about binary numbers stops the lexer
CHECK_DEADLOCK FALSE
