SPECIFICATION FairSpec
CONSTANTS
    Phys = {p1, p2}
    Image = {i1, i2}
    QueueCap = 2
    StateCap = 2
    TriedCap = 1
    CandCap = 2
    NoJob = NoJob
INVARIANTS
    InFlightOnce
    NoLostPublish
PROPERTIES
    QueuedIsDecided
    StopReturns
CHECK_DEADLOCK FALSE
