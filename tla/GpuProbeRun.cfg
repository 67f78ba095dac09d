CONSTANTS
    NumGpus = 3
    Requests <- MCRequests
SPECIFICATION Spec
INVARIANTS
    TypeOK
    ReportComplete
    StaleOnlyFromEnv
    CopiedWithAccess
    RunInv
PROPERTIES
    Refinement
CHECK_DEADLOCK FALSE
