SPECIFICATION Spec
CONSTANTS
    Op <- MCOp
    CacheSize = 2
    SweepFactor = 2
    MaxExprs = 6
    Leaf = Leaf
    Expired = Expired
CHECK_DEADLOCK FALSE
INVARIANTS
    OneLivePerForm
    SetIsQueue
    Bounded
    SharedUnlessEvicted
