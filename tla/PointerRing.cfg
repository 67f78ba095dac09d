CONSTANTS
    Rows <- AllRows
    WarmSteps = 40
    Samples = 2
SPECIFICATION Spec
INVARIANTS
    TypeOK
    EvenWalks
    OnlyFirstCold
    OpsCounted
    RingClosed
    RInv
CHECK_DEADLOCK FALSE
