SPECIFICATION SlowBitsSpec
CONSTANTS
    WordBits = 4
    kOOTXMaxPayloadLength = 4
    Crc <- Checksum
    Payloads <- AllPayloads
    MaxLosses = 2
INVARIANTS
    OotxTypeOK
    BufferBounded
    DecodesWholeFrames
