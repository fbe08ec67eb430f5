CONSTANTS
    ByteBits = 1
    IMax = 127
    UMax32 = 15
    NoState = NoState
    MaxLoopSteps = 40
    OnlyPrecise = TRUE
    Ops = {"Eq", "Ne", "Lt", "Ge", "Gt", "Slt", "Sle", "Sgt", "Set"}
    Strides <- MCStrides
    Codes <- MCCodes
    Entries <- MCEntries
SPECIFICATION Spec
INVARIANTS
    WithinBound
PROPERTIES
    Terminates
CHECK_DEADLOCK FALSE
