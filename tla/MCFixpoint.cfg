CONSTANTS
    IMax = 4
    UMax32 = 1
    Regs = {0, 10}
    FramePtr = 10
    StackBytes = 1
    Fds = {}
    Threshold = 1
    NoState = NoState
    Bodies = {"mov", "add1", "store", "load"}
    Programs <- MCPrograms
    State <- MCState
    EntryState <- MCEntryState
    Checks <- MCChecks
    BlockExit <- MCBlockExit
    RefineEdge <- MCRefineEdge
    Join <- StateJoin
    Widen <- StateWiden
    Leq <- StateLeq
    Rank <- MCRank
    Height <- MCHeight
    Bounded <- MCBounded
SPECIFICATION Spec
INVARIANTS
    TypeOK
    FlagsMatchQueue
    ChangedIsQueued
    QueuedIsChanged
    PostFixpoint
    AcceptedCountsReachable
    DominatorsFirst
    AscentBounded
PROPERTIES
    Ascending
    Drains
CHECK_DEADLOCK FALSE
