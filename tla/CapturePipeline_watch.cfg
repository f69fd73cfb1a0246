SPECIFICATION Spec
CONSTANTS
    Image = {i1, i2}
    None = None
    Previous = i1
    BackoffMax = 2
    Procs = {p1, p2}
    Sessions <- JustStrained
INVARIANTS
    BusyExact
    NoTornRead
