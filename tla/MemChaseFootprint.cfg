CONSTANTS
    Sizes <- LargeSizes
    Iterations = 13
    Word = 32
SPECIFICATION Spec
INVARIANTS
    WholeWorkingSet
CHECK_DEADLOCK FALSE
