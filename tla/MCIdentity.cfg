CONSTANTS
    Commands = {rotate, receive1, receive2}
    Rotators = {rotate}
    Peers = {peer1, peer2}
    MaxIdentities = 4
    FailPoints <- MCFailPoints
    Scenarios <- MCScenarios
SPECIFICATION FairSpec
INVARIANTS PairConverges UsedIsAccounted
PROPERTIES CommittedRotates
CHECK_DEADLOCK FALSE
