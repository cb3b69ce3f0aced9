SPECIFICATION FairSpec
CONSTANTS
    addr = addr
    sum = sum
    byte = byte
    konst = konst
    Byte <- MCByte
    Value <- MCValue
    Input <- MCInput
    Expr <- MCExpr
    Deps <- MCDeps
    Result <- MCResult
    Denote <- MCDenote
    Tests <- MCTests
    MaxAdds = 2
    None = None
CHECK_DEADLOCK FALSE
INVARIANTS
    SavedFollowsPath
    SavedLeavesPath
    OptimisticOnlyIfNeeded
    BoundsExact
    SolveAllComplete
    TroubleOnlyAfterUnknown
PROPERTIES
    CallsReturn
