SPECIFICATION ParserSpec
CONSTANTS
    IntMax = 7
    MAX_NESTING_DEPTH = 5
    MAX_EXPR_DEPTH = 64
    MAX_ELSE_CHAIN = 256
    Inputs <- MinimumInputs
INVARIANTS
    MinimumRefusedAsTestExpects
CHECK_DEADLOCK FALSE
