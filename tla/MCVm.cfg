CONSTANTS
    ByteBits = 3
    IMax = 8388607
    UMax32 = 4095
    StackSize = 64
    Gap = 128
    NoBytes = NoBytes
    MapTable <- MCTable
    Programs <- MCPrograms
    Packets <- MCPackets
    MaxSteps = 14
SPECIFICATION Spec
INVARIANTS
    TypeOK
    StoresWellFormed
PROPERTIES
    ImplementsSlotFlow
    FaultsLeaveStateAlone
    Terminates
CHECK_DEADLOCK FALSE
