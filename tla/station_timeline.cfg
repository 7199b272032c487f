SPECIFICATION TimelineSpec
CONSTANTS
    CounterSize = 59
    Sensor = {0, 1}
    Npoly = {4, 5, 6, 32}
    SyncOffset = {0, 4, 5, 6, 7, 8, 9, 12, 13, 14, 15, 16, 17}
    kMaxTimestampDiffForSweep = 2
    NoFrame = NoFrame
    NoSweep = NoSweep
    Station = {3, 4}
    MaxTimestamp0Diff = 1
    NoBearing = NoBearing
    kDeckLighthouseMaxNBs = 4
    kMinTicksBetweenSlowBits = 16
    NoBit = NoBit
    Period <- Periods
    Phase <- Phases
    Offset <- Offsets
    PowerUp = 30
    Rotations <- RotationsOf
    Unidentified = 32
INVARIANT
    ProtocolTypeOK
PROPERTIES
    BearingsAreOneRotation
    WholeRotationsReported
    OneSlowBitPerRotation
