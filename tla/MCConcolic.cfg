SPECIFICATION Spec
CONSTANTS
    CharBit = 2
    Inputs = {0, 1, 2, 3}
    Gpr = {"RAX", "RBX", "RCX", "RDX", "RSI", "RDI", "RSP", "RBP"}
    Vector = {"XMM0", "XMM1"}
    MemSize = 16
    Tainted <- MCTainted
    Start <- MCStart
    Programs <- MCPrograms
    Unaries <- MCUnaries
    Binaries <- MCBinaries
    Widenings <- MCWidenings
    Memories <- MCMemories
    Counts <- MCCounts
    Lanes16 <- MCLanes16
INVARIANTS
    DataSound
    ConditionsSound
    InputOnPath
    PathFollows
CHECK_DEADLOCK FALSE
