SPECIFICATION DriverSpec
CONSTANTS
    CommandLines <- MCCommandLines
    Files <- MCFiles
    Refusing <- MCRefusing
    Throwing <- MCThrowing
    ReadTimes <- MCReadTimes
INVARIANT
    MeasuresAsDeclared
CHECK_DEADLOCK FALSE
