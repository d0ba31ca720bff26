\* One row, every delivery window, two processes: each row is resolved.
SPECIFICATION FairSpec
CONSTANTS
    Rows = {r1}
    Procs = {p1, p2}
    Approvals = {a1}
    NoApproval = NoApproval
    NoExpiry = NoExpiry
    NoRow = NoRow
    MaxAttempts = 2
    LateWindow = 1
    ApprovalTTL = 2
    Horizon = 1
    Deliveries = {0, 1}
    Expiries = {NoExpiry, 1}
    MaxTime = 1
    MaxCrashes = 1
PROPERTIES
    EveryRowResolves
