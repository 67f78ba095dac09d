SPECIFICATION Spec
CONSTANTS
    Rows <- MCRows
    Samples = 4
    Wrap = 64
    BootTicks <- MCBootTicks
    LoopTicks = 1
    ColdTicks = 3
    GrowTicks = 5
    Disturbances = {0, 7}
INVARIANTS
    TypeOK
    SamplesClean
    RowExact
    MInv
CHECK_DEADLOCK FALSE
