\* Four layers of configuration, up to four modules, one health report; the process
\* ends.
SPECIFICATION FairSpec
CONSTANTS
    Lists <- MCLists
    Contents <- MCContents
    MaxReports = 1
    MaxHandlers = 2
INVARIANTS
    DiscoverableIsListening
    DependenciesOutliveServer
    CleanShutdownStopsAll
    UpIsAnnounced
    OkMeansStarted
PROPERTIES
    LastFileDecides
    ShutdownCompletes
CHECK_DEADLOCK FALSE
