SPECIFICATION Spec
CONSTANTS
    SetKinds <- MCAllKinds
    Jcc <- MCAllJcc
    MaxSets = 4
INVARIANTS
    JccFromLastWriters
