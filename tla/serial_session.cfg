SPECIFICATION SessionSpec
CONSTANTS
    Baud = {b115200, b230400}
    NoPort = NoPort
    BOOTLOADER_BAUDRATE = b115200
    Baudrate = b230400
    BaseStation = {s1}
    MaxStarts = 2
    MaxChunks = 3
INVARIANTS
    SerialTypeOK
    OneReadChain
    DecoderOutlivesCallback
    SnapshotsAreWhole
PROPERTIES
    ImplementsChannel
    StartupEnds
    CloseReturns
    ArrivedIsDelivered
CHECK_DEADLOCK FALSE
