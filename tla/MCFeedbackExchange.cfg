SPECIFICATION Spec
CONSTANTS
    CounterLimit = 4
    OverflowChecks = TRUE
    NoAck = NoAck
    MaxPackets = 5
    MaxQuanta = 3
    MaxWriteErrors = 1
INVARIANTS
    ReportConsistent
    ReportedAtMostTwice
    CountersSpanTwoQuanta
CHECK_DEADLOCK FALSE
