CONSTANTS
    ListId = {l1}
    Data = {1, 2}
    NULL = NULL
    MaxNodes = 3
SPECIFICATION Spec
CHECK_DEADLOCK FALSE
PROPERTIES
    AscendingKept
