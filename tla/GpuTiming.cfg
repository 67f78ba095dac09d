CONSTANTS
    Gpus <- MCGpus
    gpu = 0
    Pairs <- MCPairs
    kSamples = 2
    Cost <- MCCost
    Noise = {0, 2}
    kThreads = 2
    kMaxBlocks = 2
    Elements <- MCElements
SPECIFICATION Spec
INVARIANTS
    TypeOK
    TimedWhole
    KernelAlone
    SamplesFresh
    CorrectionPaired
    MemoryOrdered
    ElementsOnce
CHECK_DEADLOCK FALSE
