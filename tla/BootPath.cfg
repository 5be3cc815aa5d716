SPECIFICATION BootSpec
CONSTANTS
    PAGE_SIZE = 16
    Wrap = 16384
    ENTRY_SIZE = 1
    FixedSizes <- MCFixedSizes
    MaxEntries = 60
    Growth = 4
    MAX_DEPTH = 5
    Unsigned <- Numbers
    Signed = {"-1"}
    NarrowWidth = 4
    WideWidth = 8
    GB = 16
    UpperHalf4 = 128
    UpperHalf5 = 512
    EHDR_SIZE = 4
    PHDR_SIZE = 4
    PN_XNUM = 9
    MB = 32
    MODE_BUFFER_CAPACITY = 3
    ModeIndexSpan = 8
    Machines <- BootMachines
    SizeOf <- MCSizeOf
    AttrAlign = 2
    NAME_SIZE = 3
    MAX_CMDLINE_LEN = 3
    MAX_MODULE_DESCRIPTION_LEN = 3
    DefaultStack = 16
    BufferIncrement = 2
    MaxFaults = 1
INVARIANT
    KernelPathIsHanded
