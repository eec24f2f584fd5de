SPECIFICATION Spec
CONSTANTS
    Keys = {k}
    NoKey = NoKey
    MaxCalls = 2
    MaxRollbacks = 1
    MaxFaults = 0
    MaxCrashes = 0
INVARIANT
    OneEffectPerKey
CHECK_DEADLOCK FALSE
