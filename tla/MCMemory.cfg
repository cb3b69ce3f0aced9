SPECIFICATION Spec
CONSTANTS
    PageSize = 2
    Page <- MCPage
    ImageLow = 0
    ImageHigh = 0
    HeapStart = 1
    HeapPages = 2
    MmapPage <- MCMmap
    VdsoPage = 5
    StackPages = 2
    InputLen = 3
    Fd = {0, 1}
    Buffer = {0, 3, 7}
    Size = {1, 2, 4}
    MaxCalls = 5
CONSTRAINT Undecided
INVARIANTS
    ShadowIsInput
    InputIsTracked
    PagesBacked
CHECK_DEADLOCK FALSE
