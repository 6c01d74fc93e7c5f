\* Three callers on one route; the breaker trips at half failures out of at
\* least two calls and needs two successful trial calls to close.
SPECIFICATION FairSpec
CONSTANTS
    Caller = {c1, c2, c3}
    CfgMinRequests = 2
    CfgRatioNum = 1
    CfgRatioDen = 2
    CfgWindow = 2
    CfgOpenTimeout = 2
    CfgHalfOpenMaxCalls = 2
    MaxRequests = 4
    MaxGeneration = 5
INVARIANTS
    CallsAccounted
    ProbeLimit
    AlwaysBalanced
PROPERTIES
    ImplementsContract
    NeverStuck
