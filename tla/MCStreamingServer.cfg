SPECIFICATION LiveSpec
CONSTANTS
    Encoding = Encoding
    PacketSending = PacketSending
    QueueOccupancy = QueueOccupancy
    OoBlocks = OoBlocks
    Keys <- MCKeys
    FrameQueueSize = 2
    MaxBacklog = 3
    MaxCtrlC = 2
INVARIANTS
    PointsKept
    LagBounded
    StatisticsBeforeQuit
PROPERTIES
    EventuallyQuits
CHECK_DEADLOCK FALSE
