SPECIFICATION WorkerSideSpec
CONSTANTS
    Ids = {id1, id2}
    Names = {n1, n2}
    command = command
    \* CommandBridge
    Requests = {id1, id2}
    Commands = {command}
    Intents = {n1, n2}
    CommandOf <- MCCommandOf
    ExitCodes = {0, 1}
    NoExit = NoExit
    NoIntent = NoIntent
    MaxCrashes = 1
    \* WorkerLoop
    Leases = {id1, id2}
    JobKinds = {"provision", "resident", "misfit", "file", "control", "instructions"}
    OrdinarySlots = 1
    ResidentSlots = 1
    ResidentAttempts = 1
    NoLease = NoLease
    \* CommandOutput
    OutKeys = {id1, id2}
    OutAttempts = 2
    OutChunks = 2
    OutBytes = 3
    OutChunk = 2
    NoOperation = NoOperation
    \* NetworkReach
    ReachBits = 2
    ReachHosts = {"h"}
    MaxNets = 1
    MaxResolvers = 1
SYMMETRY Symmetry
INVARIANT StartedOnce
INVARIANT CompletedIsWhole
INVARIANT AnswersHold
INVARIANT CompletionIsEarned
INVARIANT RunningIsRenewedOrTold
INVARIANT CountersMatchRows
INVARIANT OneChunkPerOperation
INVARIANT TrafficIsGranted
CHECK_DEADLOCK FALSE
