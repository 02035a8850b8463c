SPECIFICATION FairSpec
CONSTANTS
    Readers = {r1, r2}
    QueueLimit = 1
    MaxReports = 4
INVARIANTS
    HidTypeOK
    ThreadScope
    SleepersWoken
PROPERTIES
    ImplementsQueue
    CloseReturns
    UnplugEndsReads
