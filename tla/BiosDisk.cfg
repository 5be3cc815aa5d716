SPECIFICATION DiskSpec
CONSTANTS
    hd = hd
    cd = cd
    Devices <- MCDevices
    BlockSizeOf <- MCBlockSizeOf
    DeviceBlocks <- MCDeviceBlocks
    BufBytes = 4
    DirectIO = FALSE
    RefIds = {}
    MaxBytes = 4
    ByteReads <- MCByteReads
    MaxBlock = 2
    Junk = junk
    NULL = null
    Files = {file}
    MaxPacket = 2
    FileSizes = {2, 3}
INVARIANTS
    
    WindowIsOwned
PROPERTIES
    CallsReturn
