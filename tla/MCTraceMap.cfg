SPECIFICATION Spec
CONSTANTS
    Pc <- MCPc
    MapSize = 4
    CharBit = 2
    HashPc <- MCHashPc
    ContextHash <- MCContextHash
    MaxBranches = 4
    MaxRuns = 2
    NoFile = NoFile
    Torn = Torn
CHECK_DEADLOCK FALSE
INVARIANTS
    VirginCountsHits
    DiskCurrent
    RerunQuiet
