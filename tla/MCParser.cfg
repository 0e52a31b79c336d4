SPECIFICATION ParserSpec
CONSTANTS
    IntMax = 3
    MAX_NESTING_DEPTH = 2
    MAX_EXPR_DEPTH = 4
    MAX_ELSE_CHAIN = 1
    Canonical <- MCCanonical
    Inputs <- MCInputs
INVARIANTS
    ParserTypeOK
    GuardsBalanced
    RecursionBounded
    ReportsInOrder
    AnchorOnOneLine
    RoundTrip
    LimitsExact
    NothingLost
    PlacesTrue
PROPERTIES
    EveryTurnConsumes
    Terminates
CHECK_DEADLOCK FALSE
