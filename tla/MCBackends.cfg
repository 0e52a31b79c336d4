SPECIFICATION BackendsSpec
CONSTANTS
    IntMax = 3
    MaxRuns = 1
    MaxSteps = 60
    MaxNodes = 160
    MaxHeight = 5
    Jobs <- NoJobs
    Inputs <- MCInputs
    Programs <- MCPrograms
INVARIANTS
    CompiledVerifies
    JumpErrorsExact
    GlobalsDeclared
    StoragesAgree
    BackendsAgree
PROPERTIES
    ImplementsLanguage
CHECK_DEADLOCK FALSE
