SPECIFICATION Spec
CONSTANTS
    Scope = {thread}
    NoScope = none
    Limit = 2
    QueueLimit = 1
    MaxRequests = 2
    MaxFaults = 2
INVARIANTS
    SchedulerIsExact
    QuestionsReachClient
PROPERTIES
    RequestsGetAnswered
    ServeReturns
CHECK_DEADLOCK FALSE
