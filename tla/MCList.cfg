CONSTANTS
    ListId = {l1, l2}
    Data = {1, 2}
    NULL = NULL
    MaxNodes = 3
SPECIFICATION Spec
CHECK_DEADLOCK FALSE
INVARIANTS
    KeepsPromise
    LengthExact
    FreedNodesUnread
SYMMETRY MCSymmetry
