SPECIFICATION Spec
CONSTANTS
    Capacity = 4
    FrameSizes = {1, 3}
    Gaps = {0, 2}
    FrameSize = 2
    MaxDelay = 1
    MaxTotal = 7
    StartTimes <- MCStartTimes
INVARIANTS
    TypeOK
    RingHoldsNewest
    EncoderFresh
    FramesInOrder
    SentOnTime
PROPERTIES
    WindowSpec
    WriteReturns
