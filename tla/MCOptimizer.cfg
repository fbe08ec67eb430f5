CONSTANTS
    IMax = 127
    UMax32 = 15
    ByteBits = 1
    Pool <- MCPool
    MaxOffset = 100
    Fuel = 60
    Runs = {0, 1, 2}
    Codes <- MCCodes
SPECIFICATION Spec
INVARIANTS
    PassesPreserve
    LoweringPreserves
    OptimizeEnds
CHECK_DEADLOCK FALSE
