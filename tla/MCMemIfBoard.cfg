SPECIFICATION Spec
CONSTANTS
    CmdBits = 2
    AddrBits = 2
    ByteBits = 2
    DataBytes = 4
    Sizes = {1, 2, 4}
    WData <- MCWData
    Memories <- MCMemories
    SyncStages = 2
INVARIANTS MisoIsSettled
