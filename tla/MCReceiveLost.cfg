\* A storage failure after the commit loses the projection.
SPECIFICATION Spec
CONSTANTS
    Envelopes <- LogEnvelopes
    Header <- LogHeader
    Oversize = {}
    Names = {n1}
    Empty = Empty
    Identities = {"old", "new", "other"}
    FirstPeer = "old"
    NoIdentity = NoIdentity
    NoTime = NoTime
    ReceiptsPermitted = TRUE
    MaxSeqGap = 2
    MaxSightings = 1
    MaxFailures = 2
    DailyQuota = 8
    QuotaWindow = 0
    AcceptWindow = 1
    EpochWindow = 0
    GraceWindow = 0
    QuarantineCap = 1
    QuarantineTTL = 1
    MaxTime = 0
    MaxUploads = 1
    MaxFaults = 1
INVARIANTS
    QueuedIsRedelivered
