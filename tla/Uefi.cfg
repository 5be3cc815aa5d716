SPECIFICATION UefiSpec
CONSTANTS
    PAGE_SIZE = 1
    BUFFER_CAPACITY = 12
    Wrap = 64
    Pages = 8
    Firmware <- MCFirmware
    PageUnits = 4
    DescUnits = 2
    Increment = 2
    Sizes = {1}
    Limits = {8}
    Places = {2}
    ClientTypes = {10,11}
    MaxLive = 2
    ReleaseSizes = {0, 12}
    Protocols <- MCProtocols
CHECK_DEADLOCK FALSE
INVARIANTS
    KernelMapIsExact
    CaptureIsFinal
    ForeachSeesRam
    AcquireProgresses
