SPECIFICATION FairSpec
CONSTANTS
    MemSize = 12
    Hdr = 1
    MinSize = 2
    Sizes = {1, 3, 4}
    TimeSize = 1
    TimeFields = 2
    NULL = NULL
INVARIANTS
    TypeOK
    BlocksLinked
    NoTwoFreeInARow
    LfreeIsLowest
    NullOnlyWithoutRoom
    RoomAsAsked
PROPERTIES
    ImplementsAllocator
    HeapRunsOut
