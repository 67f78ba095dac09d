CONSTANTS
    Gpus <- MCGpus
    gpu = 0
    Pairs <- MCPairs
    kSamples = 2
    Cost <- MCCost
    Noise = {0, 2}
    kThreads = 2
    kMaxBlocks = 2
    Elements <- MCElements
SPECIFICATION Spec
INVARIANTS
    CopyAlone
CHECK_DEADLOCK FALSE
