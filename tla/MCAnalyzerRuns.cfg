CONSTANTS
    AList = {"us"}
    BytesPerMB = 4
    Addr = {"us", "p1", "p2", "p3"}
    Line <- MCLines
    WBList = {"p3"}
    Answer <- MCAnswer
    UINT_LIMIT = 2000000000
    NEVER = NEVER
    TimeoutOption = {ABSENT, 300, 1200}
    MAX_LINE_COUNT = 3
    MaxRuns = 3
    MaxFaults = 2
    ABSENT = ABSENT
SPECIFICATION Spec
VIEW MCView
CHECK_DEADLOCK FALSE
INVARIANTS
    NothingLost
    HistoryAccounted
    CommonDominates
    PeersAnswered
PROPERTIES
    FailureRestores
