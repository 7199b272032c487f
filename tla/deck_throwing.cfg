SPECIFICATION ThrowingSpec
CONSTANTS
    FrameLen = 12
    Padding = {6, 9}
    NoDecoder = NoDecoder
    NoDelivery = NoDelivery
    DataFrames <- Patterns
    MaxFaults = 0
INVARIANT
    BufferWithinFrame
