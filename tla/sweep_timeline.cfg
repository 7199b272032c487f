SPECIFICATION TimelineSpec
CONSTANTS
    CounterSize = 8
    Sensor = {s0, s1}
    Npoly = {0, 2, 32}
    SyncOffset = {0, 1}
    kMaxTimestampDiffForSweep = 1
    NoFrame = NoFrame
    NoSweep = NoSweep
    Delay <- Delays
    MaxTime = 14
    MaxReceived = 3
SYMMETRY SensorSymmetry
INVARIANTS
    SweepTypeOK
    FramesShareWindow
PROPERTIES
    ImplementsAssembly
    SweepsAreSimultaneous
