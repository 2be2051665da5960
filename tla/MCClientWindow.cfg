SPECIFICATION WindowLiveSpec
CONSTANTS
    NoFrame = NoFrame
    Torn = Torn
    MaxFrames = 3
    MaxConversionErrors = 2
    MaxSurfaceErrors = 1
    DecodePacket = DecodePacket
    FailedDecode = FailedDecode
    Keys <- MCKeys
    MaxBacklog = 4
    MaxCtrlC = 1
    MaxDecodeErrors = 1
INVARIANTS
    BuffersNeverContended
    QuitKeepsStatistics
PROPERTIES
    FrontStableDuringUpload
    ImplementsFrameRegister
    EventuallyDrawn
    CtrlCEnds
CHECK_DEADLOCK FALSE
