SPECIFICATION Spec
CONSTANTS
    Readers = {}
    QueueLimit = 1
    MaxReports = 5
INVARIANTS
    FreedAfterUse
