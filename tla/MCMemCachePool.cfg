CONSTANTS
    Slab = {s1, s2, s3}
    NULL = NULL
    CacheSize = 2
    ObjSize = 3
    Word = 8
SPECIFICATION Spec
SYMMETRY SlabSymmetry
INVARIANTS
    FreeChainSound
    LiveBacked
    GrowthMakesRoom
    SlabsAccounted
    NoIdleSlab
PROPERTIES
    ImplementsPool
