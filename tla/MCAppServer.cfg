CONSTANTS
    c1 = c1
    c2 = c2
    NoConn = NoConn
    k1 = k1
    k2 = k2
    r1 = r1
    e1 = e1
    e2 = e2
    Conn = {c1, c2}
    Key = {k1, k2}
    RetryKey = {r1}
    Edit = {e1, e2}
    MaxEdits = 2
    MaxFaults = 1
    MaxTurns = 2
    MaxCrashes = 2
SYMMETRY ServerSymmetry
SPECIFICATION ServerSpec
CHECK_DEADLOCK FALSE
INVARIANTS RevertExcludesTurns TurnsAreOwned RevertIsAllOrNothing
PROPERTIES EditsSurvive
