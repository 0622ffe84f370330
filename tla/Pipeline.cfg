CONSTANTS
    r1 = r1
    r2 = r2
    Requests <- TwoRequests
    Operations <- Declarations
    Errors <- AllErrors
    SharedKind = "NotFound"
    Sent <- AllSent
    CookieSets <- AllCookies
    Rows = {1, 2, 3, 4, 5, 6}
    Limit = 2
    MaxEdits = 2

SPECIFICATION MCSpec
INVARIANTS
    ServedIsDocumented
    AnsweredOnce
    HandlerRunsGuarded
    CookiesOnlyOnSuccess
    OwnInstance
    WalkMeetsAll
    TurnsBack
CHECK_DEADLOCK FALSE
