SPECIFICATION WarmFairSpec
CONSTANTS
    Slot = {s1, s2, s3}
    NoSlot = NoSlot
    KeptMax = 1
INVARIANTS
    RefsExact
    ReferenceIsFindable
PROPERTIES
    SpeculationEnds
CHECK_DEADLOCK FALSE
