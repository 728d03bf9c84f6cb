CONSTANTS
    Deadlines = {900, 3600}
    Overruns = {200}
    PutSeconds = {10}
SPECIFICATION Spec
INVARIANTS
    TypeOK
    KilledOnlyWhenOverrun
    FundedWhenOnEstimate
    TroubleReachesTheExitCode
CHECK_DEADLOCK FALSE
