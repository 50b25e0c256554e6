SPECIFICATION Spec
CONSTANTS
    Digits = 9
    NumValues = 12
    ArgoRuns <- MCArgoRuns
INVARIANTS
    TextKept
    ListsSound
    PositionsExact
    NumberKept
    RoundTrip
CHECK_DEADLOCK FALSE
