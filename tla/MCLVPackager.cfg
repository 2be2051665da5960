SPECIFICATION Spec
CONSTANTS
    Regular = 2
    Recovery = 2
    Sizes = {1, 2}
    BlockIdLimit = 3
    Builds = {TRUE, FALSE}
    MaxSeq = 12
    MaxFrame = 2
    MaxFragmentErrors = 1
    MaxRecoveryErrors = 1
INVARIANTS
    EncoderInStep
    RecoveryCoversBlock
    WireOrdered
    EarlierBlocksComplete
    WrapConfined
CHECK_DEADLOCK FALSE
