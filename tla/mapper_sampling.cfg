SPECIFICATION SessionSpec
CONSTANTS
    Station = {b1, b2}
    Angles = {0, 1}
    buffer_duration = 1
    min_samples_per_station = 1
    NoFuture = NoFuture
    NoShownPose = NoShownPose
    NoAnswer = NoAnswer
    time_tolerance = 1
    min_solve_interval = 1
    NoDeckPose = NoDeckPose
    InitialMaps <- EarlierMap
    StartTime = 10
    MaxTime = 12
    MaxMoves = 1
    MaxPresses = 3
    MaxFiles = 1
    MaxMisses = 0
    MaxRestarts = 0
SYMMETRY StationSymmetry
INVARIANTS
    MapperTypeOK
    PoseIdsUnused
    SolutionOfSamples
    ShownPoseOfSolution
PROPERTIES
    StillDeckSampled
    StillDeckLocated
\* The session ends when its bounds are used up.
CHECK_DEADLOCK FALSE
