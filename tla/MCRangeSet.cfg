SPECIFICATION Spec
CONSTANTS
    Half = 2
    Null = Null
INVARIANTS
    ConstraintExact
    RangesDisjoint
