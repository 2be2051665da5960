SPECIFICATION Spec
CONSTANTS
    Regular = 4
    Recovery = 2
    Sizes = {1}
    BlockIdLimit = 100
    OverflowChecks = FALSE
    NoPacket = NoPacket
    Damaged = Damaged
    MaxSeq = 6
    MaxFrame = 1
    MaxFragmentErrors = 0
    MaxRecoveryErrors = 0
    Window = 2
    MaxDuplicates = 0
    MaxRestarts = 0
    MaxRecvErrors = 0
    MaxFaults = 1
INVARIANTS
    MinimumSuffices
CHECK_DEADLOCK FALSE
