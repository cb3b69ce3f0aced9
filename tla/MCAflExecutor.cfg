SPECIFICATION Spec
CONSTANTS
    File <- MCFile
    Edge <- MCEdge
    Test <- MCTest
    DefaultTimeout = 90
    MaxTimeout = 100
    MinHangFiles = 0
    MaxReports = 1
    MaxTests = 2
    MaxIndex = 3
    MaxCrashes = 0
    MaxStops = 2
    Torn = Torn
CHECK_DEADLOCK FALSE
INVARIANTS
    QueueInBitmap
    BitmapInQueue
    OverwriteOnlyAfterKill
    RefusesOnlyIfCut
