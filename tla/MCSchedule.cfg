SPECIFICATION Spec
CONSTANTS
    MaxI64 = 536870911
    Tokens <- MCTokens
    Starts <- MCStarts
    Delays <- MCDelays
    MaxFires = 2
INVARIANTS
    DueAtOnce
    NoMinuteSkipped
    YearlyExpressionMatches
CHECK_DEADLOCK FALSE
