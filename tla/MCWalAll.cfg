\* Every fault, and somebody else writing to the log meanwhile.
CONSTANTS
    MaxRecords = 4
    MaxCrashes = 3
    MaxOther = 1
    Authenticated = TRUE
    Faults = {"power", "torn", "gap", "utf8", "create", "io", "sign", "carry_on"}
SPECIFICATION Spec
INVARIANTS
    NoLaundering
PROPERTIES
    RefusalKeepsEvidence
CHECK_DEADLOCK FALSE
