SPECIFICATION Spec
CONSTANTS
    IntMax = 1
    MaxRuns = 1
    MaxSize = 4
    Jobs <- MCJobs
    Inputs <- MCInputs
INVARIANTS
    TypeOK
    StackMatchesVerifier
    NoInternalFault
    OperandsInRange
    CleanHalt
    VerdictExact
CHECK_DEADLOCK FALSE
