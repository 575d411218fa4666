SPECIFICATION SchedulerSpec
CONSTANTS
    Worker = {w1}
    NoWorker = none
    MaxTasks = 1
    MaxClaims = 2
    MaxTime = 2
    TTLs = {1}
    AttemptLimits = {1}
    MaxCommands = 1
    MaxReadings = 2
    MaxConcurrentRuns = 1
    ClaimTimeout = 1
    HasController = TRUE
    ContextStore = FALSE
    MaxFaults = 1
INVARIANTS
    RegistryIsExact
    ClaimedCommandIsWorkedOn
PROPERTIES
    CommandsGetHandled
    TasksSettle
    ShutdownCompletes
    ShutdownRequeues
