SPECIFICATION FairSpec
CONSTANTS
    Threads = {a, b}
    Loop = 3
    Kernel = {1}
    KernelPumps = FALSE
    Nested = TRUE
    None = None
    Sentinel = Sentinel
INVARIANTS ResumesWhereItLeft SuspendedContext
PROPERTIES DeferredRuns
CHECK_DEADLOCK FALSE
