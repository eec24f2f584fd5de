CONSTANTS
    Tasks <- MCTasks
    Orchs <- MCOrchs
    NoOrch = "none"
    OrchOf <- MCOrchOf
    Deps <- MCDeps
    Concurrency = 2
    Budget = 3
    MaxActiveJobs = 1
    MaxTransient = 1
    MaxPerTick = 1
    Results = {"ok", "transient", "unsupported"}
    SyncInWindow = TRUE
    MaxRuns = 2
    MaxUpsets = 1
SPECIFICATION Spec
INVARIANT NoDoubleExecution
CHECK_DEADLOCK FALSE
