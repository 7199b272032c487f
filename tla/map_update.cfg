SPECIFICATION FairSessionSpec
CONSTANTS
    Station = {b1, b2}
    Angles = {0, 1}
    buffer_duration = 1
    min_samples_per_station = 1
    NoFuture = NoFuture
    NoShownPose = NoShownPose
    NoAnswer = NoAnswer
    time_tolerance = 1
    min_solve_interval = 0
    NoDeckPose = NoDeckPose
    InitialMaps <- NoMap
    StartTime = 10
    MaxTime = 10
    MaxMoves = 0
    MaxPresses = 4
    MaxFiles = 5
    MaxMisses = 1
    MaxRestarts = 1
INVARIANTS
    OkMeansUpdated
    LocalizesInOneFrame
PROPERTIES
    UpdatesSettle
\* The session ends when its bounds are used up.
CHECK_DEADLOCK FALSE
