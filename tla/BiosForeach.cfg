SPECIFICATION BiosSpec
CONSTANTS
    PAGE_SIZE = 2
    E820Lists <- PlainLists
    UsedLists <- PlainLists
    PageCounts = {1}
    Ceilings = {2, 31}
    Addresses = {}
    AllocTypes = {10}
    MaxAllocs = 4
    ProtocolTypes = {}
    Capacities = {}
    STAGE2_BASE_PAGE = 2
    STAGE2_PAGES = 1
    BUFFER_CAPACITY = 8
    Wrap = 32
CHECK_DEADLOCK FALSE
INVARIANTS
    ForeachVisitsAll
