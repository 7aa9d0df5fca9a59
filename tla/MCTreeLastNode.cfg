CONSTANTS
    Rank = {1, 2, 3}
    Copy = {c1}
    Val = {v1}
    NULL = NULL
    FewestNodes = 1
SPECIFICATION Spec
CHECK_DEADLOCK FALSE
INVARIANTS
    NeverCrashes
