CONSTANTS
    k1 = k1
    k2 = k2
    e1 = e1
    da = da
    db = db
    b1 = b1
    tag1 = tag1
    KnownTypes <- MCKnownTypes
    EnumTypes <- MCEnumTypes
    Defs <- MCDefs
    Defaults <- MCDefaults
    Tags <- MCTags
    Builders <- OneBuilder
    Absent = Absent
    Unread = Unread
    Nothing = Nothing
    Mixed = Mixed

SPECIFICATION FairSpec
INVARIANTS
    DocumentedTagsEnforced
PROPERTIES
    ImplementsStableSnapshot
    BuildReturns
CHECK_DEADLOCK FALSE
