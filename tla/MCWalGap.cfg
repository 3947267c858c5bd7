\* A kill between a line and its newline.
CONSTANTS
    MaxRecords = 3
    MaxCrashes = 2
    MaxOther = 0
    Authenticated = TRUE
    Faults = {"gap"}
SPECIFICATION Spec
INVARIANTS
    AckedReplay
CHECK_DEADLOCK FALSE
