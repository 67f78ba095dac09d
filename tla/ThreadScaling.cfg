SPECIFICATION FairSpec
CONSTANTS
    Counts <- MCCounts
    MaxThreads = 4
    Blocks = 2
    HeapVariant = TRUE
INVARIANTS
    TypeOK
    NoUseAfterFree
    RowsHonest
    WorkOnlyInWindow
    EveryResultSunk
    IInv
PROPERTIES
    Refinement
    Termination
CHECK_DEADLOCK FALSE
