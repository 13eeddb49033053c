SPECIFICATION ProvidersSpec
CONSTANTS
    \* KubernetesProvider
    Cases <- Core
    MaxAttempts = 2
    MaxDeleted = 2
    \* AgentSandbox
    AgentCalls = 3
    AgentPods = 2
    \* CloudflareProvider
    CloudCreates = {d1, d2}
    CloudAttempts = 2
    OutputCap = 1
    LineCap = 2
    OutputMax = 3
 
PROPERTY PassSparesTheLiving
INVARIANT CustodyIsProven
INVARIANT HandleHasHome
INVARIANT ResultIsWhole
CHECK_DEADLOCK FALSE
