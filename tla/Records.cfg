SPECIFICATION RecordsSpec
CONSTANTS
    id1 = id1
    id2 = id2
    other = other
    \* JobLease
    Jobs = {id1, id2}
    ResidentJobs = {}
    Unplaceable = {id1, id2}
    Clogged = {}
    Workers = {w1}
    Eligible <- MCEligible
    Leases = {l1, l2}
    Requests = {r1, r2}
    Operations = {o1}
    Shutdowns = {}
    StopScopes <- MCScopes
    MaxAttempts = 2
    LeaseSeconds = {1}
    DrainSeconds = {1, 2}
    Capacities = {1}
    QueuedJobMaxAge = 0
    OfflineAfter = 0
    None = None
    \* RequestGate
    GateRequests = {id1, id2, other}
    PrintOf <- MCPrintOf
    QuotaMax = 1
    NoRequest = NoRequest
    NoPrint = NoPrint
    \* InstructionRead
    ReadCalls = {1, 2, 3}
    \* ObservationSink
    SinkKeys = {id1, id2}
    SinkCapacity = 3
    SinkBatch = 2
    SinkTotal = 6
    \* HomeMounts
    HomeBoxes = {id1, id2}
    HomeAttempts = 2
    \* LifetimeReaper
    ReapCount = 2
    ReapBatch = 1
    MaxLifetime = 2
    IdleTtl = 2
    BumpThrottle = 1
    \* RuntimeInventory
    InvBoxes = {id1, id2}
    InvSnaps = {s1}
    NoSnap = NoSnap
    NoVolume = NoVolume
    Inventories = {i1, i2}
SYMMETRY Symmetry
INVARIANT WithinCapacity
INVARIANT OneLeasePerOperation
INVARIANT OneKeyOneMutation
INVARIANT AcknowledgementsHold
INVARIANT NothingErasedSilently
INVARIANT DeleteSparesMounted
PROPERTY IdleMeansUnused
INVARIANT LineageIsTrue
CHECK_DEADLOCK FALSE
