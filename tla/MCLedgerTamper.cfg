\* A log that loses its tail or is rewritten, records of two origins, packs
\* exported meanwhile, and power losses that undo the writing of keys.json.
CONSTANTS
    Ledgers = {L1}
    SealKeys <- OneKey
    Origins = {"trusted", "unsigned"}
    Require = TRUE
    MinNew = 1
    Faults = {"peek", "rename"}
    MaxRecords = 3
    MaxSeals = 2
    MaxExports = 1
    MaxCrashes = 1
    MaxLosses = 1
    MaxRewrites = 1
SPECIFICATION Spec
INVARIANTS
    SealsFormOneHistory
    OnlyAuthenticSealed
    ValidPackHoldsSealed
CHECK_DEADLOCK FALSE
