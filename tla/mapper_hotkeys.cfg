SPECIFICATION HotkeySpec
CONSTANT
    MaxPresses = 3
INVARIANT
    NoLockCycle
CHECK_DEADLOCK FALSE
