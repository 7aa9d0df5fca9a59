CONSTANTS
    Rank = {1, 2, 3, 4}
    Copy = {c1, c2}
    Val = {v1, v2}
    NULL = NULL
    FewestNodes = 2
    Item = {1, 2, 3, 4, 5, 6, 7}
    Weight <- MCWeight
    Capacity = {0, 1, 2, 3, 4, 7}
SPECIFICATION MCSpec
CHECK_DEADLOCK FALSE
INVARIANTS
    DumpDescending
    NothingDropped
    CrashOnlyTiny
    MinKeyAlive
    MinKeyNearMinimum
PROPERTIES
    ImplementsMap
    EvictsSmallest
