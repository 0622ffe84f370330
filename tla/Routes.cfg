CONSTANTS
    r = r
    c1 = c1
    c2 = c2
    gr = gr
    g1 = g1
    g2 = g2
    own = own
    zero = zero
    nil = nil
    Groups = {r, c1, c2}
    Root = r
    Nil = nil
    Guards = {gr, g1, g2, own}
    ZeroGuard = zero
    Requirement <- MCRequirement
    Schemes = {"bearer", "basic", "cookie"}
    Placeholders <- MCPlaceholders
    Segments = {"a", "w"}
    Patterns <- MCPatterns
    Words <- MCWords
    Endpoints <- AllEndpoints
    Infra <- MCInfra
    MaxPath = 3
    MaxDeclared = 2
    Hosts = {"u1", "u2", "t1", "t2"}
    Trusted = {"t1", "t2"}
    Spellings <- MCSpellings
    Forwarded <- MCForwarded
    MaxHops = 3

SPECIFICATION MCSpec
INVARIANTS
    CompileIsComplete
    GuardedAsDocumented
    NoBypass
    ServedAsDocumented
    ParametersBound
    SecurityHonest
    AddressIsVouched
CHECK_DEADLOCK FALSE
