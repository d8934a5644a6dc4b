SPECIFICATION Spec
CONSTANTS
    Proc = {1, 2}
    MaxEdits = 1
    MaxRuns = 2
    None = None
INVARIANTS
    NoRefusedCode
    FailureTold
PROPERTIES
    BuildsWhatItRead
    RunsEnd
CHECK_DEADLOCK FALSE
