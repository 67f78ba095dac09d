CONSTANTS
    NumGpus = 2
    Requests <- MCRequests
SPECIFICATION Spec
INVARIANTS
    QueryFailureTolerated
CHECK_DEADLOCK FALSE
