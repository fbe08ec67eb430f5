CONSTANTS
    IMax = 127
    UMax32 = 15
    ByteBits = 1
    AluOps = {"Add", "Sub", "Mul", "Div", "Mod", "Neg", "Or", "And", "Xor", "Mov", "Lsh", "Rsh", "Arsh", "EndLe", "EndBe"}
    Jumps = {"Eq", "Ne", "Lt", "Le", "Gt", "Ge", "Slt", "Sle", "Sgt", "Sge", "Set"}
    Operands <- SomeRanges
    MaxLength = 3
    OnlyPrecise = TRUE
SPECIFICATION ScalarSpec
INVARIANTS
    Covered
CHECK_DEADLOCK FALSE
