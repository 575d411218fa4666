SPECIFICATION SchedulerSafety
CONSTANTS
    Worker = {w1}
    NoWorker = none
    MaxTasks = 1
    MaxClaims = 2
    MaxTime = 2
    TTLs = {1}
    AttemptLimits = {2}
    MaxCommands = 0
    MaxReadings = 0
    MaxConcurrentRuns = 1
    ClaimTimeout = 1
    HasController = TRUE
    ContextStore = TRUE
    MaxFaults = 1
PROPERTY
    ShutdownRequeues
