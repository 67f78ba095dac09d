CONSTANTS
    NumGpus = 2
    Requests <- MCRequests
SPECIFICATION Spec
INVARIANTS
    WroteMeansWritten
CHECK_DEADLOCK FALSE
