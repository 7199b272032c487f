SPECIFICATION ThreadsSpec
CONSTANT
    MaxPresses = 3
INVARIANTS
    ThreadsTypeOK
    NoLockCycle
PROPERTIES
    EveryPressRuns
    QuitStops
\* The program stops when the operator quits.
CHECK_DEADLOCK FALSE
