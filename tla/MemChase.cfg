CONSTANTS
    Sizes <- MCSizes
    Iterations = 13
    Word = 32
SPECIFICATION Spec
INVARIANTS
    TypeOK
    OneRing
    TimedIsWarm
    RowsCover
    ChaseInv
CHECK_DEADLOCK FALSE
