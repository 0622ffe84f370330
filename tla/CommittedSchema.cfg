CONSTANTS
    c1 = c1
    c2 = c2
    i1 = i1
    i2 = i2
    email = email
    p1 = p1
    p2 = p2
    None = None
    NotAHash = NotAHash
    Emails <- OneEmail
    Passwords <- TwoPasswords
    Seeds <- BothSeeds
    Clients <- TwoClients
    Instances <- TwoInstances
    Second = 2
    AccessTime = 3
    RefreshTime = 5
    ConfiguredSkew = 3
    Drift = 1
    MaxId = 3
    MaxPairs = 2
    MaxNow = 8
    MaxEdits = 1
    FirstId = 3

SPECIFICATION MCSpec
INVARIANT
    RegistrationAnswered
CHECK_DEADLOCK FALSE
