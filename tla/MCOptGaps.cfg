CONSTANTS
    IMax = 127
    UMax32 = 15
    ByteBits = 1
    Pool <- MCPool
    MaxOffset = 100
    Fuel = 60
    Runs = {0, 1, 2}
    Codes <- GapCodes
SPECIFICATION Spec
INVARIANTS
    LoweringPreserves
CHECK_DEADLOCK FALSE
