SPECIFICATION TeamSpec
CONSTANTS
    Name = {alice, bob}
    NoName = nobody
    MaxSpawns = 2
    MaxTasks = 2
    MaxFaults = 1
SYMMETRY NameSymmetry
INVARIANTS
    IdleIsFree
    ShutdownLeavesNobody
    TasksAreReleased
    RequestIsHeeded
CHECK_DEADLOCK FALSE
