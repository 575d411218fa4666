SPECIFICATION Spec
CONSTANTS
    Worker = {w1, w2}
    NoWorker = none
    MaxTasks = 1
    MaxClaims = 2
    MaxTime = 1
    TTLs = {1}
    AttemptLimits = {2}
    MaxCommands = 2
    MaxReadings = 2
SYMMETRY WorkerSymmetry
CONSTRAINT PlainTasks
INVARIANTS
    OnlyClaimantHandles
    AbortPinnedToItsRun
PROPERTIES
    CancelReachesRunner
