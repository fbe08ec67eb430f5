CONSTANTS
    Codes <- MCCodes
SPECIFICATION Spec
INVARIANTS
    BlocksPartition
    EdgesMirrorVm
    RpoOrdersBlocks
PROPERTIES
    BuildsEventually
CHECK_DEADLOCK FALSE
