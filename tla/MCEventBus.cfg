SPECIFICATION Spec
CONSTANTS
    Client = {c1, c2}
    EventType = {started, ended}
    MaxSubs = 2
    MaxEvents = 2
INVARIANTS
    DeliveredInOrder
    NothingSkipped
    ExactAudience
    ExitDrains
PROPERTIES
    EventsGetDelivered
    CloseCompletes
CHECK_DEADLOCK FALSE
