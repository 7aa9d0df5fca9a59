CONSTANTS
    Rank = {1, 2, 3, 4, 5, 6, 7, 8, 9, 10, 11, 12}
    Copy = {c1}
    Val = {v1}
    NULL = NULL
    FewestNodes = 2
SPECIFICATION ShapeSpec
VIEW ShapeView
INVARIANTS
    NothingLost
    BalancesExact
    ThreadsExact
