SPECIFICATION SqliteSpec
CONSTANTS
    Worker = {w1}
    NoWorker = none
    MaxTasks = 2
    MaxClaims = 2
    MaxTime = 2
    TTLs = {1}
    AttemptLimits = {1, 2}
    MaxCommands = 1
    MaxReadings = 1
    MaxEvents = 8
PROPERTY
    FailureEventsAreFailures
