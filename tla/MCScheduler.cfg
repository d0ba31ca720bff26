\* Two rows, two racing processes, one approval.
SPECIFICATION Spec
CONSTANTS
    Rows = {r1, r2}
    Procs = {p1, p2}
    Approvals = {a1}
    NoApproval = NoApproval
    NoExpiry = NoExpiry
    NoRow = NoRow
    MaxAttempts = 2
    LateWindow = 1
    ApprovalTTL = 2
    Horizon = 1
    Deliveries = {0, 1}
    Expiries = {NoExpiry}
    MaxTime = 1
    MaxCrashes = 1
SYMMETRY Symmetry
INVARIANTS
    NeverSentTwice
    OnlyReleasedIsSent
    NeverEarly
    NoStuckRow
    UndeliveredIsReported
    ApprovalSharedOnlyIfReported
PROPERTIES
    TerminalIsFinal
