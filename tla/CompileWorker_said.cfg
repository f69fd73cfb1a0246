SPECIFICATION Spec
CONSTANTS
    Phys = {p1, p2}
    Image = {i1, i2}
    QueueCap = 2
    StateCap = 2
    TriedCap = 1
    CandCap = 2
    NoJob = NoJob
INVARIANTS
    OkIsPublished
    PublishedIsPickedUp
PROPERTIES
    UntrackedMissIsQueued
CHECK_DEADLOCK FALSE
