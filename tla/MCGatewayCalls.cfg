\* A server that answers what it is asked: every call ends in its own effect.
CONSTANTS
    t1 = t1  t2 = t2  t3 = t3  d1 = d1  d2 = d2  b1 = b1  b2 = b2  b3 = b3
    NoToken = NoToken  NoBundle = NoBundle  NoId = NoId
    Tokens = {t1}
    Delegations = {d1}
    DelegOf <- MCDelegOf
    KidOf <- MCKidOf
    BadTokens = {}
    Bundles = {b1}
    KeysOf <- MCKeysOf
    Unsigned = {}
    ActIds = {1, 2}
    MachineryIds = {3}
    ServerIds = {}
    Labelled = {}
    Transports = {"stdio", "http"}
    TwoTier = FALSE
    Deployment = FALSE
    RogueServer = FALSE
    MaxCalls = 2
    MaxAsked = 1
    MaxRelayed = 1
    MaxGeneration = 2
    MaxReloads = 2
    MaxRestarts = 0
    FailAt = {}
    MaxFails = 0
SPECIFICATION FairSpec
INVARIANTS
    EffectClosedByOwnAnswer
PROPERTIES
    CallsEnd
CHECK_DEADLOCK FALSE
