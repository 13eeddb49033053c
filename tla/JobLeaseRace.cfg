SPECIFICATION Spec
CONSTANTS
    Jobs = {j1}
    ResidentJobs = {j1}
    Unplaceable = {j1}
    Clogged = {}
    Workers = {w1, w2}
    Eligible <- AllEligible
    Leases = {l1, l2}
    Requests = {r1, r2}
    Operations = {}
    Shutdowns = {}
    StopScopes <- OneScope
    MaxAttempts = 2
    LeaseSeconds = {1}
    DrainSeconds = {1, 2}
    Capacities = {1}
    QueuedJobMaxAge = 1
    OfflineAfter = 1
    None = None
SYMMETRY IdSymmetry
INVARIANT LeaseAuthority
PROPERTY TerminalJobsFinal
