SPECIFICATION SafetySpec
CONSTANTS
    MaxI64 = 536870911
    Jobs = {j1, j2}
    Schedules <- MCSchedules
    MaxFires = 2
    MaxConcurrent = 1
    TickSecs = 60
    MaxNow = 60
    MaxEdits = 0
    MaxFailures = 0
INVARIANT
    NoPileUp
CHECK_DEADLOCK FALSE
