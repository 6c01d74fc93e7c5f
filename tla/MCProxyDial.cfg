\* A route without a pool, which dials on demand.
SPECIFICATION FairSpec
CONSTANTS
    Goroutine = {g1, g2}
    WithBreaker = {TRUE}
    CfgMinRequests = 1
    CfgRatioNum = 1
    CfgRatioDen = 2
    CfgWindow = 2
    CfgOpenTimeout = 1
    CfgHalfOpenMaxCalls = 1
    MaxRequests = 2
    MaxGeneration = 3
    PoolSize = 0
    LoadBalance = {""}
    CounterRange = 4
    Targets = {t1}
    NoTarget = none
    MaxDials = 3
    CfgMaxAttempts = 2
    CfgBackoff = 1
    CfgRetryOn = {}
    HasDeadline = FALSE
    Outcome = {"nil", "Unavailable"}
    CanPanic = {FALSE}
INVARIANT
    DialsBounded
PROPERTIES
    EveryRequestAnswered
