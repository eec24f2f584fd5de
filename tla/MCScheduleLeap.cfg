SPECIFICATION Spec
CONSTANTS
    MaxI64 = 536870911
    Tokens <- LeapTokens
    Starts <- MCStarts
    Delays <- MCDelays
    MaxFires = 1
INVARIANT
    NextMatchesExpression
CHECK_DEADLOCK FALSE
