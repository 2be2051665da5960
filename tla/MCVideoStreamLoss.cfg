SPECIFICATION LiveSpec
CONSTANTS
    Regular = 4
    Recovery = 2
    Sizes = {1}
    BlockIdLimit = 100
    OverflowChecks = TRUE
    NoPacket = NoPacket
    Damaged = Damaged
    MaxSeq = 9
    MaxFrame = 1
    MaxFragmentErrors = 0
    MaxRecoveryErrors = 0
    Window = 1
    MaxDuplicates = 1
    MaxRestarts = 0
    MaxRecvErrors = 0
    MaxFaults = 1
INVARIANTS
    DecoderTypeOK
    DecodedFromMinimum
    DecoderSurvives
PROPERTIES
    ImplementsRtpStream
    EventuallyDelivered
CHECK_DEADLOCK FALSE
