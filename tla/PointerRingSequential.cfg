CONSTANTS
    Rows <- TlbRows
    WarmSteps = 40
    Samples = 2
SPECIFICATION Spec
INVARIANTS
    NotSequential
CHECK_DEADLOCK FALSE
