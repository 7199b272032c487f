SPECIFICATION LinkSpec
CONSTANTS
    FrameLen = 12
    Padding = {6, 9}
    NoDecoder = NoDecoder
    NoDelivery = NoDelivery
    DataFrames <- Patterns
    MaxFaults = 2
INVARIANTS
    FramingTypeOK
    BufferWithinFrame
    RecoversInTwoSyncs
PROPERTIES
    DeliversEveryFrame
