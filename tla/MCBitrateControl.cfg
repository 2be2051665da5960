SPECIFICATION LiveSpec
CONSTANTS
    InitialBitrate = 900000
    SharedBitrate = 80000
    MinimumBitrate = 20000
    BitrateStep = 100000
    BitrateLimit = 1095000
    InitialTicks = 3
    TicksLimit = 12
    AccumulatorLimit = 3
    Builds = {TRUE, FALSE}
    Reports <- MCReports
    MaxQuanta = 12
    MaxEncoderErrors = 1
INVARIANTS
    TicksBelowTarget
    FailuresNeverAccumulate
    BitrateFloor
PROPERTIES
    EncoderCatchesUp
CHECK_DEADLOCK FALSE
