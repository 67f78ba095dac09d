SPECIFICATION Spec
CONSTANTS
    Programs = {"deep", "advanced", "first", "nvidia"}
    Words <- MCWords
    Args <- MCArgs
    MaxArgs <- MCMaxArgs
    Word = 1073741824
    Word32 = 134217728
    IntMax = 1000000001
INVARIANTS
    TypeOK
    OptionsFit
    LastWins
    NothingSwallowed
CHECK_DEADLOCK FALSE
