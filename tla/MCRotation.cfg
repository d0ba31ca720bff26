CONSTANTS
    a = a
    b = b
    Sides <- MCSides
    Window = 1
    MaxEpoch = 3
    MaxKeys = 2
    MaxSends = 3
    MaxTime = 2
SPECIFICATION Spec
SYMMETRY Swap
INVARIANTS EpochsStayClose OneSideRotates OnlyRestartSplits
CHECK_DEADLOCK FALSE
