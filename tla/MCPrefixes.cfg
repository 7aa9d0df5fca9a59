CONSTANTS
    Width = 3
    NULL = NULL
    MISSING = MISSING
    NOTHING = NOTHING
    Long = {5, 7}
    Text <- MCText
    ListText <- MCListText
    MaxSegs = 2
SPECIFICATION MCSpec
CHECK_DEADLOCK FALSE
INVARIANTS
    SegmentsOrdered
    PrintsLargestPrefixes
    ListsExact
PROPERTIES
    InsertExact
    LoadingEnds
