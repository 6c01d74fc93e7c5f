\* Two goroutines on a route with a pool of two connections, every balancer,
\* with and without a breaker, two attempts per request, and invokers that may panic.
SPECIFICATION Spec
CONSTANTS
    Goroutine = {g1, g2}
    WithBreaker = {TRUE, FALSE}
    CfgMinRequests = 1
    CfgRatioNum = 1
    CfgRatioDen = 2
    CfgWindow = 2
    CfgOpenTimeout = 1
    CfgHalfOpenMaxCalls = 1
    MaxRequests = 2
    MaxGeneration = 3
    PoolSize = 2
    LoadBalance = {"", "least_conn", "random"}
    CounterRange = 4
    Targets = {}
    NoTarget = none
    MaxDials = 3
    CfgMaxAttempts = 2
    CfgBackoff = 1
    CfgRetryOn = {}
    HasDeadline = TRUE
    Outcome = {"nil", "Unavailable", "NotFound"}
    CanPanic = {TRUE, FALSE}
SYMMETRY Symmetry
INVARIANTS
    OneOutcomePerRequest
    ConnectionsReturned
PROPERTY
    OnlyServerFailuresCount
