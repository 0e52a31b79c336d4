SPECIFICATION Spec
CONSTANTS
    IntMax = 3
    MaxRuns = 1
    Jobs <- MCJobs
    Inputs <- MCInputs
INVARIANTS
    IntsFit
PROPERTIES
    DivisionTruncates
CHECK_DEADLOCK FALSE
