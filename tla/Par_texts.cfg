SPECIFICATION Spec
CONSTANTS
    MaxInt = 180
    NoArg = NoArg
    ParInputs <- MCInputs
INVARIANTS
    BestBreaks
    WordsKept
    ParagraphsKept
PROPERTIES
    ParProgress
CHECK_DEADLOCK FALSE
