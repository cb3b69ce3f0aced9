SPECIFICATION Spec
CONSTANTS
    SetKinds <- MCAllKinds
    Jcc <- MCJccNotZ
    MaxSets = 19
CONSTRAINT MCRing
INVARIANTS
    ValidIsSymbolic
    JccFromLastWriters
