SPECIFICATION Spec
CONSTANTS
    CharBit = 2
    Inputs = {0, 1, 2, 3, 4, 5, 6, 7, 8, 9, 10, 11, 12, 13, 14, 15}
    Block = {0}
    Return = {1, 2}
    Hash <- MCHash
    Entry = {0, 1, 2, 3, 4, 5, 6}
    CounterBits = 4
    Stride = 1
    MaxCalls = 2
    MaxBits = 4
    Plans <- MCPlans
INVARIANTS
    MeaningKept
    ConcreteKept
    PrunedOnlyIfFrequent
    AssertionsHold
CHECK_DEADLOCK FALSE
