\* A prepare driven again and again, a message that is held for it, and objects refused
\* into a full quarantine table, under fair polling.
SPECIFICATION FairSpec
CONSTANTS
    Envelopes <- HookEnvelopes
    Header <- HookHeader
    Oversize = {"huge"}
    Names = {n1, n2}
    Empty = Empty
    Identities = {"old", "new", "other"}
    FirstPeer = "old"
    NoIdentity = NoIdentity
    NoTime = NoTime
    ReceiptsPermitted = TRUE
    MaxSeqGap = 2
    MaxSightings = 1
    MaxFailures = 2
    DailyQuota = 8
    QuotaWindow = 0
    AcceptWindow = 1
    EpochWindow = 0
    GraceWindow = 0
    QuarantineCap = 1
    QuarantineTTL = 2
    MaxTime = 1
    MaxUploads = 2
    MaxFaults = 1
INVARIANTS
    OneAckPerPrepare
PROPERTIES
    ConsumedIsSettled
    EveryObjectSettles
    EveryPrepareIsHooked
