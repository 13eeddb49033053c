\* The claim that drops the routing scope of a Cloudflare sandbox.
CONSTANTS
  RefreshWorkers = {w1, w2}
  RefreshTries = 3
SPECIFICATION RefreshSpec
INVARIANT ScopeReachesProvider
CHECK_DEADLOCK FALSE
