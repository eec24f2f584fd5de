SPECIFICATION Spec
CONSTANTS
    Keys = {k}
    NoKey = NoKey
    MaxCalls = 2
    MaxRollbacks = 2
    MaxFaults = 1
    MaxCrashes = 1
INVARIANTS
    TypeOK
    OnlyEffectsAreUndone
    RolledBackIsUndone
    EffectIsRecorded
    RetryAfterReturnRunsOnce
    UndoneOnceWhenAlone
    RollbackCoversScope
    IrreversibleIsAnnounced
CHECK_DEADLOCK FALSE
