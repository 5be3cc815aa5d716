SPECIFICATION Spec
CONSTANTS
    hd = hd
    cd = cd
    junk = junk
    null = null
    Devices <- MCDevices
    BlockSizeOf <- MCBlockSizeOf
    DeviceBlocks <- MCDeviceBlocks
    BufBytes = 4
    DirectIO = TRUE
    RefIds = {r1, r2}
    MaxBytes = 6
    ByteReads <- MCExactByteReads
    MaxBlock = 4
    Junk = junk
    NULL = null
CHECK_DEADLOCK FALSE
INVARIANTS
    TypeOK
    ReadDelivers
    RefsPointAtTheirData

    
