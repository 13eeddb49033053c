CONSTANTS
    Builds = {b1, b2}
    MaxAttempts = 1
    CleanupMaxAttempts = 2
    Origins = {"create", "fork"}
    DirectJobs = {"provision"}
    QueuedJobsExpire = TRUE
    RecordsExpire = TRUE
    LateEffects = TRUE
SPECIFICATION FairSpec
PROPERTY ArchivedRowsRetired
CHECK_DEADLOCK FALSE
