SPECIFICATION BiosSpec
CONSTANTS
    PAGE_SIZE = 2
    E820Lists <- PlainLists
    UsedLists <- PlainLists
    PageCounts = {1}
    Ceilings = {31}
    Addresses = {}
    AllocTypes = {10}
    MaxAllocs = 3
    ProtocolTypes <- UltraTypes
    Capacities = {0, 8}
    STAGE2_BASE_PAGE = 2
    STAGE2_PAGES = 1
    BUFFER_CAPACITY = 8
    Wrap = 32
CHECK_DEADLOCK FALSE
INVARIANTS
    EveryKernelGetsLiveMemory
