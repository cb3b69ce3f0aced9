SPECIFICATION FairSpec
CONSTANTS
    File <- MCFiles
    Edge <- MCEdge
    Test = {}
    DefaultTimeout = 90
    MaxTimeout = 100
    MinHangFiles = 0
    MaxReports = 2
    MaxTests = 0
    MaxIndex = 0
    MaxCrashes = 2
    MaxStops = 1
    Torn = Torn
CHECK_DEADLOCK FALSE
INVARIANTS
    HungNotRerun
    ReportsOncePerCrash
PROPERTIES
    EveryFileRun
