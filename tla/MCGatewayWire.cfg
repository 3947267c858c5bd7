\* Ids reused in both directions, a server that makes answers up.
CONSTANTS
    t1 = t1  t2 = t2  t3 = t3  d1 = d1  d2 = d2  b1 = b1  b2 = b2  b3 = b3
    NoToken = NoToken  NoBundle = NoBundle  NoId = NoId
    Tokens = {t1}
    Delegations = {d1}
    DelegOf <- MCDelegOf
    KidOf <- MCKidOf
    BadTokens = {}
    Bundles = {b1}
    KeysOf <- MCKeysOf
    Unsigned = {}
    ActIds = {1}
    MachineryIds = {1}
    ServerIds = {7, 8}
    Labelled = {}
    Transports = {"stdio"}
    TwoTier = FALSE
    Deployment = FALSE
    RogueServer = TRUE
    MaxCalls = 2
    MaxAsked = 1
    MaxRelayed = 1
    MaxGeneration = 2
    MaxReloads = 2
    MaxRestarts = 0
    FailAt = {"call", "dec", "eff"}
    MaxFails = 1
SPECIFICATION Spec
INVARIANTS
    ForwardedIsRecorded
    EffectsAreSound
    AnswersAreSolicited
CHECK_DEADLOCK FALSE
