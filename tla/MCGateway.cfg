SPECIFICATION FairSpec
CONSTANTS
    Configs <- MCConfigs
    Registrations <- MCRegistrations
    OwnCodes <- MCOwnCodes
    Requests <- MCRequests
    Covers <- MCCovers
    Clients = {c1, c2}
    NoConn = NoConn
    MaxMsgs = 1
INVARIANTS
    NothingLeaked
    FullChain
    EndpointsExempt
    ClaimsVerified
    StatusSurvives
PROPERTIES
    LeavingEndsStream
    StopEndsStreams
CHECK_DEADLOCK FALSE
