SPECIFICATION FairSpec
CONSTANTS
    Threads = {a, b}
    Loop = 2
    Kernel = {1}
    KernelPumps = TRUE
    Nested = TRUE
    None = None
    Sentinel = Sentinel
INVARIANT ResumesWhereItLeft
PROPERTY DeferredRuns
CHECK_DEADLOCK FALSE
