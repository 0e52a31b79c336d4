SPECIFICATION DriverSpec
CONSTANTS
    CommandLines <- MCCommandLines
    Files <- MCFiles
    Refusing <- MCRefusing
    Throwing <- MCThrowing
    ReadTimes <- MCReadTimes
INVARIANTS
    StagesExact
    ExitTells
    TimesOfThisRun
CHECK_DEADLOCK FALSE
