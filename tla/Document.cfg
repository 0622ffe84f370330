CONSTANTS
    none = none
    original = original
    t1 = t1
    t2 = t2
    t3 = t3
    n1 = n1
    n2 = n2
    Fields <- MCFields
    Tokens <- MCTokens
    Values <- MCValues
    Depth = 3
    MaxTokens = 3
    Types <- MCTypes
    Graphs <- MCGraphs
    Documents <- MCDocuments
    Words <- MCWords
    Namings <- MCNamings
    Runs <- MCRuns
    TempNames <- MCNames
    Original = original
    Nothing = none

SPECIFICATION MCSpec
INVARIANTS
    AcceptedIsDocumented
    EnforcedIsVisible
    DirectionsKept
    FailuresExplained
    CollapseIsGreatest
    PublishedWhole
    NoLitter
PROPERTY
    DocumentEnds
CHECK_DEADLOCK FALSE
