SPECIFICATION ResidentsSpec
CONSTANTS
    \* ResidentBootstrap
    Replicas = {r1, r2}
    Leases = {l1, l2}
    NoLease = NoLease
    MaxGeneration = 2
    MaxAttempts = 2
    Capacity = 1
    Reports = {"failed"}
    SidecarConfigured = FALSE
    Shared = TRUE
    MaxHandlers = 2
    \* PlacementProof
    ProofLeases = 2
    ProofGenerations = 1
    ProofPlacements = 2
    ProofWorkers = {l1, l2}
    ProofKeys = {r1, r2}
    Activations = {a1}
    NoKey = NoKey
    NoWorker = NoWorker
SYMMETRY Symmetry
INVARIANT OneReader
INVARIANT StoreFollowsRow
PROPERTY ProofIsLive
PROPERTY ProofUsedOnce
CHECK_DEADLOCK FALSE
