\* A stream cap of one object: every poll that lists two of them is truncated.
SPECIFICATION FairSpec
CONSTANTS
    Names = {1, 2, 3}
    FetchMax = 1
    PushMaxAttempts = 2
    MaxPushes = 3
    MaxFaults = 1
INVARIANTS
    OnlyRacedIsSkipped
PROPERTIES
    OnlyJudgedIsRemoved
    EveryListedObjectIsJudged
    EveryConsumeIsDone
\* Everything consumed and nothing new: the branch and the watcher are at rest.
CHECK_DEADLOCK FALSE
