SPECIFICATION Spec
CONSTANTS
    MaxI64 = 536870911
    Jobs = {j1}
    Schedules <- MCSchedules
    MaxFires = 2
    MaxConcurrent = 1
    TickSecs = 60
    MaxNow = 120
    MaxEdits = 1
    MaxFailures = 1
INVARIANTS
    TypeOK
    PermitsConserved
    RunCountExact
    LastTaskIsOwn
    RunningStatusIsLive
    OneShotRetires
PROPERTIES
    OnlyOperatorsEnable
    FireConsumesDue
    DispatchCloses
    DueJobFires
CHECK_DEADLOCK FALSE
