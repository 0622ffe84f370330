CONSTANTS
    r1 = r1
    r2 = r2
    Requests <- TwoRequests
    MaxJobs = 2

SPECIFICATION FairSpec
INVARIANTS
    OrderlyReturn
    LeftOpenExplained
    NothingUsedAfterClose
    CutOffExplained
PROPERTIES
    ShutdownEnds
CHECK_DEADLOCK FALSE
