SPECIFICATION Spec
CONSTANTS
    Readers = {r1, r2}
    QueueLimit = 1
    MaxReports = 5
INVARIANTS
    NoLostWakeup
