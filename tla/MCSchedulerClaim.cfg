\* The claim is durable before the enqueue.
SPECIFICATION Spec
CONSTANTS
    Rows = {r1}
    Procs = {p1}
    Approvals = {a1}
    NoApproval = NoApproval
    NoExpiry = NoExpiry
    NoRow = NoRow
    MaxAttempts = 2
    LateWindow = 1
    ApprovalTTL = 2
    Horizon = 1
    Deliveries = {0, 1}
    Expiries = {NoExpiry}
    MaxTime = 1
    MaxCrashes = 1
INVARIANTS
    ReleasedIsEnqueued
