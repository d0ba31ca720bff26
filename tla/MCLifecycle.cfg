CONSTANTS
    Established <- MCEstablished
    MaxAttempts = 2
    Repos = {repo}
    Invites = {invite1}
    MaxCommands = 4
SPECIFICATION MCSpec
INVARIANTS PairedIsCompared SealedKeyIsHeld KeysFollowRows DeadTeardownCanResume OthersKeepTheirRelay
CHECK_DEADLOCK FALSE
