CONSTANTS
    c1 = c1
    c2 = c2
    c3 = c3
    user = user
    job = job
    Callers <- MCCallers
    Rows <- MCRows
    PoolMax = 2

SPECIFICATION FairSpec
INVARIANTS
    OutcomeHonest
PROPERTIES
    EveryCallEnds
CHECK_DEADLOCK FALSE
