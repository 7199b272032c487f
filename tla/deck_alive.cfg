SPECIFICATION LinkSpec
CONSTANTS
    FrameLen = 12
    Padding = {6, 9}
    NoDecoder = NoDecoder
    NoDelivery = NoDelivery
    DataFrames <- Patterns
    MaxFaults = 1
INVARIANT
    DataDecoderUsedAlive
