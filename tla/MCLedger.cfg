\* One ledger that crashes, a key rotation, an honest log.
CONSTANTS
    Ledgers = {L1}
    SealKeys <- RotatedKeys
    Origins = {"trusted"}
    Require = TRUE
    MinNew = 2
    Faults = {"torn", "power"}
    MaxRecords = 4
    MaxSeals = 4
    MaxExports = 0
    MaxCrashes = 2
    MaxLosses = 0
    MaxRewrites = 0
SPECIFICATION FairSpec
INVARIANTS
    AckedSealsKept
    StoreNeverBroken
    NoFalseIncident
PROPERTIES
    AckedGetsSealed
CHECK_DEADLOCK FALSE
