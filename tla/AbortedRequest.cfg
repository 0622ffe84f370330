CONSTANTS
    r1 = r1
    r2 = r2
    Requests <- OneRequest
    Operations <- TwoOperations
    Errors <- FewErrors
    SharedKind = "NotFound"
    Sent <- FewSent
    CookieSets <- FewCookies
    Rows = {}
    Limit = 1
    MaxEdits = 0

SPECIFICATION LoneSpec
INVARIANTS
    PanicsAnswered
CHECK_DEADLOCK FALSE
