SPECIFICATION LiveSpec
CONSTANTS
    QueueLimit = 2
    Details = {1}
    Left = 1
    Window = 0
    MaxEvents = 4
    MaxResends = 1
INVARIANTS
    RequestsFaithful
    RequestsInOrder
    NothingLostInClient
PROPERTIES
    EventuallySent
CHECK_DEADLOCK FALSE
