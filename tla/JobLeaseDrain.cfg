SPECIFICATION FairSpec
CONSTANTS
    Jobs = {j1, j2}
    ResidentJobs = {j1}
    Unplaceable = {}
    Clogged = {j2}
    Workers = {w1}
    Eligible <- AllEligible
    Leases = {l1, l2}
    Requests = {r1}
    Operations = {}
    Shutdowns = {s1, s2}
    StopScopes <- OneScope
    MaxAttempts = 1
    LeaseSeconds = {2}
    DrainSeconds = {1}
    Capacities = {1}
    QueuedJobMaxAge = 0
    OfflineAfter = 0
    None = None
INVARIANT DrainCaptures
PROPERTY CancelledLeasesEnd
PROPERTY DrainsFinish
