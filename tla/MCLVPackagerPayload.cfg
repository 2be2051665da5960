SPECIFICATION Spec
CONSTANTS
    Regular = 4
    Recovery = 2
    Sizes = {1, 2}
    BlockIdLimit = 100
    Builds = {TRUE}
    MaxSeq = 12
    MaxFrame = 2
    MaxFragmentErrors = 1
    MaxRecoveryErrors = 1
PROPERTIES
    GivesPayload
CHECK_DEADLOCK FALSE
