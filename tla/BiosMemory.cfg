SPECIFICATION BiosSpec
CONSTANTS
    PAGE_SIZE = 2
    E820Lists <- AllLists
    UsedLists <- PlainLists
    PageCounts = {0, 1, 2}
    Ceilings = {10, 31}
    Addresses = {6, 8}
    AllocTypes = {10, 11}
    MaxAllocs = 4
    ProtocolTypes <- UltraTypes
    Capacities = {0, 8}
    STAGE2_BASE_PAGE = 2
    STAGE2_PAGES = 1
    BUFFER_CAPACITY = 6
    Wrap = 32
CHECK_DEADLOCK FALSE
INVARIANTS
    MapIsCanonical
    MapIsExact
    ReservedIsNeverFree
    LiveIsOwned
    KernelGetsLiveMemory
PROPERTY
    FixupEnds
