SPECIFICATION Spec
CONSTANTS
    Sig <- Functions
    SizeOf <- Sizes
    Huge = 999
    Number = {0, 1}
    Given <- Declarations
    Values <- Literals
    Local = {"x"}
    Undeclared = "z"
    Returns <- Results
    None = None
    MaxNodes <- Long
    MaxDepth = 3
    MaxStmts = 2
    ErrNodes = 2
    MaxItems = 2
INVARIANTS
    WellTyped
    Sound
    Survives
    EffectsKept
    ConstantsKept
CHECK_DEADLOCK FALSE
