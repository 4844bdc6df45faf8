SPECIFICATION Spec
CONSTANTS
    Ids <- ThreeIds
    Sizes <- SmallSizes
    CHUNKSIZE = 48
    MAX_HEAP = 136
    SizeRange = 512
INVARIANTS
    TypeOK
    WellFormed
    FreeListExact
    Coalesced
    NoLeak
    DataIntact
PROPERTIES
    GrowsWhenNeeded
    ImplementsAllocator
VIEW View
CHECK_DEADLOCK FALSE
