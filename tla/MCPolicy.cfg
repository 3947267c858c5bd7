SPECIFICATION Spec
CONSTANTS
    ServicePrefix = {"service-account-job"}
    MaxActDepth = 2
    Rules <- MCRules
    Catalogues <- MCCatalogues
    Tools = {"send", "read", "ghost"}
    Targets = {"in", "out", "odd"}
    Raw <- MCRaw
    FailModes <- MCFailModes
    IdentityBundles <- MCIdentityBundles
    Edited <- MCEdited
    Tokens <- MCTokens
    Faults = {"rewrite"}
    MaxRules = 2
    MaxEdits = 1
    MaxTokens = 2
    MaxEvents = 1
INVARIANTS
    EnforcedAsSigned
    FailOpenNotSteered
    ListingAgrees
CHECK_DEADLOCK FALSE
