SPECIFICATION Spec
CONSTANTS
    Regular = 2
    Recovery = 1
    Sizes = {1, 2}
    BlockIdLimit = 100
    OverflowChecks = FALSE
    NoPacket = NoPacket
    Damaged = Damaged
    MaxSeq = 5
    MaxFrame = 1
    MaxFragmentErrors = 1
    MaxRecoveryErrors = 1
    Window = 2
    MaxDuplicates = 1
    MaxRestarts = 1
    MaxRecvErrors = 1
    MaxFaults = 2
INVARIANTS
    DecodedFromMinimum
    DecoderSurvives
PROPERTIES
    ImplementsRtpStream
CHECK_DEADLOCK FALSE
