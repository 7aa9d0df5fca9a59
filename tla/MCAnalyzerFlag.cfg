CONSTANTS
    AList = {"us"}
    BytesPerMB = 4
    Addr = {"us", "p1", "p2", "p3"}
    Line <- MCOneLine
    WBList = {"p3"}
    Answer <- MCAnswer
    UINT_LIMIT = 2000000000
    NEVER = NEVER
    TimeoutOption = {ABSENT}
    MAX_LINE_COUNT = 7
    MaxRuns = 3
    MaxFaults = 0
    ABSENT = ABSENT
SPECIFICATION Spec
CHECK_DEADLOCK FALSE
INVARIANTS
    FlagIsProtocol
