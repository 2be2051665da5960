SPECIFICATION ConnectionLiveSpec
CONSTANTS
    FeedbackBytes = 2
    AckBytes = 4
    Checked = TRUE
    Zero = Zero
    MaxMessages = 4
    MaxShortWrites = 1
    MaxHandled = 2
INVARIANTS
    ConnectionTypeOK
    GarbledNeedsSplit
    SplitNeedsBacklog
    ActedOnOnce
PROPERTIES
    ResynchronisesAtBoundary
    EventuallyActedOn
CHECK_DEADLOCK FALSE
