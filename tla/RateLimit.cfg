CONSTANTS
    c1 = c1
    c2 = c2
    d1 = d1
    bucket = bucket
    plain = plain
    Keys <- BothKeys
    Buckets <- OneBucket
    Callers <- TwoCallers
    Sweepers <- OneSweeper
    Second = 2
    Windows <- MCWindows
    TTLs <- MCTTLs
    MaxTTL = 2
    Limit = 1
    MaxInt = 3
    Values <- MCValues
    Skews <- MCSkews
    Lag = 1
    MaxClock = 6
    NonInteger = NonInteger
    Never = Never
    NoRow = NoRow
    NoWindow = NoWindow

SPECIFICATION Spec
CONSTRAINT OneKeyAtATime
INVARIANTS
    FirstLimitGranted
    RetryAfterSuffices
PROPERTIES
    PenaltyNotExtended
    WindowsDoNotOverlap
    PurgeInvisible
CHECK_DEADLOCK FALSE
