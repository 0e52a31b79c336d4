SPECIFICATION LexerSpec
CONSTANTS
    Char <- MCChar
    Letter <- MCLetter
    Digit <- MCDigit
    KEYWORDS <- MCKeywords
    Texts <- MCTexts
INVARIANTS
    LexerTypeOK
    TokensAreTheText
    MaximalMunch
    RefusalExact
    CaretUnderPlace
PROPERTY
    LexerEnds
CHECK_DEADLOCK FALSE
