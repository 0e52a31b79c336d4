SPECIFICATION Spec
CONSTANTS
    IntMax = 3
    MaxRuns = 3
    Jobs <- MCJobs
    Inputs <- MCInputs
INVARIANTS
    StackMatchesVerifier
    OneDiagnosticPerFailure
    BudgetExact
PROPERTIES
    VerifyTerminates
    LimitedRunTerminates
CHECK_DEADLOCK FALSE
