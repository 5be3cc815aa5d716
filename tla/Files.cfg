SPECIFICATION Spec
CONSTANTS
    FatViewCells = 16
    InPlaceRangeCap = 1
    RangesPerPage = 2
    ChainSlack = 2
    Fat16MinClusters = 6
    Fat32MinClusters = 10
    Name1Chars = 1
    Name2Chars = 2
    Name3Chars = 1
    MaxSequenceNumber = 2
    MaxNameLength = 7
    SectorSize = 32
    RecordHeader = 3
    U8Range = 16
    U32Range = 4096
    CacheUnits = 64
    SueMinLen = 2
    SueCeLen = 4
    SueNmMinLen = 2
    RrMaxNameLen = 7
    MaxSaneChainLen = 3
    Volumes <- Vols
    Handles <- TwoHandles
    U16Range = 64
    PageUnits = 4
    MaxOps = 3
    MaxFaults = 1
INVARIANTS
    PathsOpenTheirFiles
    
    ViewIsTheTable
    PagesAreOwned
    
    
PROPERTY
    OperationsEnd
