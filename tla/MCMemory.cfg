CONSTANTS
    Radix = 256
    StackSize = 128
    Gap = 256
    Addrs <- MCAddrs
    Widths = {1, 4}
    Words <- MCWords
    Lens = {0, 3}
    Payloads <- MCPayloads
    NoBytes = NoBytes
SPECIFICATION Spec
INVARIANTS
    TypeOK
    ContextMatchesPacket
PROPERTIES
    ImplementsFlatMemory
