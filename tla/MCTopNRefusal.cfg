CONSTANTS
    Item = {1, 2, 3, 4, 5, 6, 7}
    Weight <- MCWeight
    Capacity = {3}
    NULL = NULL
SPECIFICATION TopNSpec
CHECK_DEADLOCK FALSE
PROPERTIES
    RefusesOnlySmaller
