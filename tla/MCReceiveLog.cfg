\* Messages and identity announcements that reuse ids, numbers and nonces, with the
\* guard expiring, one poll after the other.
SPECIFICATION Spec
CONSTANTS
    Envelopes <- LogEnvelopes
    Header <- LogHeader
    Oversize = {}
    Names = {n1}
    Empty = Empty
    Identities = {"old", "new", "other"}
    FirstPeer = "old"
    NoIdentity = NoIdentity
    NoTime = NoTime
    ReceiptsPermitted = TRUE
    MaxSeqGap = 2
    MaxSightings = 1
    MaxFailures = 2
    DailyQuota = 3
    QuotaWindow = 0
    AcceptWindow = 0
    EpochWindow = 1
    GraceWindow = 1
    QuarantineCap = 1
    QuarantineTTL = 1
    MaxTime = 1
    MaxUploads = 3
    MaxFaults = 1
INVARIANTS
    LogIsUnforked
    StoredIsTracked
    OneReceiptPerEvent
    AcceptedIsDrained
PROPERTIES
    IdentityFollowsPeer
    ImplementsInbox
