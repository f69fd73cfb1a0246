SPECIFICATION FairSpec
CONSTANTS
    Image = {i1, i2}
    None = None
    Previous = i1
    BackoffMax = 2
    Procs = {p1, p2}
    Sessions <- AllSessions
INVARIANTS
    WholeManifest
    NoLostCompile
    BusyWhileCompiling
PROPERTIES
    GoesNative
