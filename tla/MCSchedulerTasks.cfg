SPECIFICATION SchedulerSafety
CONSTANTS
    Worker = {w1, w2}
    NoWorker = none
    MaxTasks = 1
    MaxClaims = 2
    MaxTime = 2
    TTLs = {1}
    AttemptLimits = {2}
    MaxCommands = 0
    MaxReadings = 0
    MaxConcurrentRuns = 2
    ClaimTimeout = 1
    HasController = FALSE
    ContextStore = TRUE
    MaxFaults = 1
SYMMETRY WorkerSymmetry
INVARIANTS
    SlotsAccountedFor
    LiveLeaseIsWorkedOn
