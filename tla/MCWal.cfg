\* Crashes, torn lines, power losses and errors that stop the process.
CONSTANTS
    MaxRecords = 5
    MaxCrashes = 4
    MaxOther = 0
    Authenticated = TRUE
    Faults = {"power", "torn", "io", "sign"}
SPECIFICATION FairSpec
INVARIANTS
    TypeOK
    AckedReplay
    HonestLogReplays
    WriterAtTail
PROPERTIES
    Recovers
    ImplementsAuditLog
CHECK_DEADLOCK FALSE
