SPECIFICATION SandboxAgentSpec
CONSTANTS
    \* SandboxLifecycle
    Builds = {b1, b2}
    MaxAttempts = 2
    CleanupMaxAttempts = 2
    Origins = {"create", "fork"}
    DirectJobs = {"provision", "fork", "resume", "stop"}
    QueuedJobsExpire = TRUE
    RecordsExpire = TRUE
    LateEffects = FALSE
    \* GuestAgent
    GuestModes = {"gated", "candidate"}
    GuestLeases = {g1, g2}
    GuestBundles = {n1, n2}
    GuestSlots = 2
    GuestAttempts = 1
    NoBundle = NoBundle
SYMMETRY BuildSymmetry
INVARIANT ReadyHasRows
INVARIANT PendingHasJob
INVARIANT HandedBackDead
INVARIANT OwnMaestro
PROPERTY NoResurrection
CHECK_DEADLOCK FALSE
