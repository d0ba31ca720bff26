CONSTANTS
    Scripts <- MCScripts
    Peer = 2
    TTL = 1
    MaxReactions = 1
    MaxSeqGap = 2
    MaxTime = 2
SPECIFICATION Spec
INVARIANTS
    MissingIsTracked
    RebuildKeepsHiddenAndMissing
    RebuildAgrees
PROPERTY HiddenStaysHidden
CHECK_DEADLOCK FALSE
