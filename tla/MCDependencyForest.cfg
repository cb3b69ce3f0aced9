SPECIFICATION Spec
CONSTANTS
    n1 = n1
    n2 = n2
    n3 = n3
    n4 = n4
    n5 = n5
    Index <- MCIndex
    Node <- MCNode
    Deps <- MCDeps
    MaxAdds = 2
    None = None
INVARIANTS
    SliceComplete
    SliceClosed
    NoNullTree
PROPERTIES
    ImplementsSlices
