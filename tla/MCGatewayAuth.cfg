\* Two principals, a rotation, renewals, restarts, failed call records.
CONSTANTS
    t1 = t1  t2 = t2  t3 = t3  d1 = d1  d2 = d2  b1 = b1  b2 = b2  b3 = b3
    NoToken = NoToken  NoBundle = NoBundle  NoId = NoId
    Tokens = {t1, t2, t3}
    Delegations = {d1, d2}
    DelegOf <- MCDelegOf
    KidOf <- MCKidOf
    BadTokens = {t3}
    Bundles = {b1, b2, b3}
    KeysOf <- MCKeysOf
    Unsigned = {b3}
    ActIds = {}
    MachineryIds = {}
    ServerIds = {}
    Labelled = {d2}
    Transports = {"stdio", "http"}
    TwoTier = TRUE
    Deployment = TRUE
    RogueServer = FALSE
    MaxCalls = 2
    MaxAsked = 1
    MaxRelayed = 1
    MaxGeneration = 2
    MaxReloads = 2
    MaxRestarts = 1
    FailAt = {"call"}
    MaxFails = 1
SPECIFICATION Spec
INVARIANTS
    AttributedToBearer
    TrustFollowsReloads
    ParentsAbove
PROPERTIES
    NoActUnderExpired
CHECK_DEADLOCK FALSE
