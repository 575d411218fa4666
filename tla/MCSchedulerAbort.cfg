SPECIFICATION SchedulerSafety
CONSTANTS
    Worker = {w1, w2}
    NoWorker = none
    MaxTasks = 1
    MaxClaims = 2
    MaxTime = 2
    TTLs = {1}
    AttemptLimits = {2}
    MaxCommands = 1
    MaxReadings = 1
    MaxConcurrentRuns = 1
    ClaimTimeout = 1
    HasController = TRUE
    ContextStore = FALSE
    MaxFaults = 0
PROPERTY
    AbortFailsOnlyItsRun
