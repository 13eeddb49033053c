SPECIFICATION SweepSpec
CONSTANTS
    OutKeys = {o1}
    OutAttempts = 2
    OutChunks = 1
    OutBytes = 2
    OutChunk = 2
    NoOperation = NoOperation
PROPERTY DueLeasesExpire
CHECK_DEADLOCK FALSE
