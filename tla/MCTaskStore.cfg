SPECIFICATION StoreSpec
CONSTANTS
    Worker = {w1}
    NoWorker = none
    MaxTasks = 2
    MaxClaims = 2
    MaxTime = 2
    TTLs = {1}
    AttemptLimits = {0, 2}
INVARIANTS
    LeaseFencesRun
    AttemptsInBudget
    DependenciesMirrored
    BlockersStayCompleted
    OutcomesFromCompletingRun
PROPERTIES
    LostLeaseStaysLost
    ImplementsLifecycle
