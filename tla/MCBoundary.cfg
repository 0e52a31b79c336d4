SPECIFICATION PipelineSpec
CONSTANTS
    IntMax = 15
    MaxRuns = 1
    MaxSteps = 60
    MaxHeight = 5
    Jobs <- NoJobs
    Inputs <- MCInputs
    Programs <- MCPrograms
INVARIANTS
    PrintsAsBoundaryTestExpects
CHECK_DEADLOCK FALSE
