SPECIFICATION OptimizerSpec
CONSTANTS
    Station = {b1, b2}
    DeckPose = {p1, p2}
    Cost = {1, 4}
    NoDeckPose = NoDeckPose
    MaxSamples = 4
INVARIANTS
    GraphTypeOK
    OptimizesKnownNodes
    PosesAlongCheapestPaths
PROPERTIES
    SolveAnswers
