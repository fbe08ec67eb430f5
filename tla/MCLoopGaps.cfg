CONSTANTS
    ByteBits = 1
    IMax = 127
    UMax32 = 15
    NoState = NoState
    MaxLoopSteps = 40
    OnlyPrecise = FALSE
    Ops = {"Eq", "Ne", "Lt", "Ge", "Gt", "Slt", "Sle", "Sgt", "Set"}
    Strides <- MCStrides
    Codes <- GapCodes
    Entries <- OneEntry
SPECIFICATION Spec
INVARIANTS
    EndsInBudget
CHECK_DEADLOCK FALSE
