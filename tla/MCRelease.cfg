\* One publisher: commits, rollbacks, a checkout that lies, labels, crashes, tampering.
SPECIFICATION Spec
CONSTANTS
    Publishers = {p1}
    OpsKeys <- MCOpsKeys
    Forger <- MCForger
    Labels <- MCShaLabels
    Contents = {"a", "b"}
    Broken = {}
    Authored = {"policies", "identity", "deployment"}
    Flags = {"intent"}
    Faults = {"reset", "notree", "tamper"}
    MaxEdits = 1
    MaxCommits = 2
    MaxPublishes = 3
    MaxCrashes = 1
    MaxForged = 1
INVARIANTS
    
    OneContentPerVersion
    ManifestHolds
    RollbackSucceeds
CHECK_DEADLOCK FALSE
