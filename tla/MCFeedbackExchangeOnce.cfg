SPECIFICATION Spec
CONSTANTS
    CounterLimit = 100
    OverflowChecks = TRUE
    NoAck = NoAck
    MaxPackets = 6
    MaxQuanta = 3
    MaxWriteErrors = 0
INVARIANTS
    ReportedOnce
CHECK_DEADLOCK FALSE
