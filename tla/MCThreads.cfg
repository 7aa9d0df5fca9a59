CONSTANTS
    Thread = {t1, t2}
    Level = {1, 2}
    NULL = NULL
    MaxCalls = 2
    MaxCaches = 3
    Slab = {s1, s2}
    MaxMoves = 4
SPECIFICATION MCSpec
CHECK_DEADLOCK FALSE
INVARIANTS
    OneWriter
    RegistryLocked
    FaultNeedsRace
    RegistryExact
    OneDefaultLog
PROPERTIES
    CallsReturn
