CONSTANTS
    Rank = {1, 2, 3, 4, 5}
    Copy = {"a", "b"}
    Val = {v1}
    HashOf <- MCHashFew
    MinShift = 1
    NULL = NULL
SPECIFICATION MCSpec
VIEW TableView
INVARIANTS
    SearchEnds
    CountsExact
    EntriesFound
PROPERTIES
    ImplementsDictionary
