CONSTANTS
    ByteBits = 3
    IMax = 8388607
    UMax32 = 4095
    StackSize = 64
    Gap = 128
    NoBytes = NoBytes
    NoLen = NoLen
    MapTable <- MCTable
    Regs <- MCRegs
    FramePtr = 10
    StackBytes = 64
    Fds <- MCFds
    PacketStart = 256
    RodataStart = 640
    XdpMdBytes = 8
    Catalogues <- MCCatalogues
    Packets <- MCPackets
    Datas <- MCDatas
    Recorded <- MCRecorded
    MaxSteps = 10
    OnlyPrecise = TRUE
SPECIFICATION Spec
INVARIANTS
    NoMemoryFault
    Tracks
CHECK_DEADLOCK FALSE
