SPECIFICATION Spec
CONSTANTS
    Threads = {a, b}
    Loop = 2
    Kernel = {1}
    KernelPumps = FALSE
    Nested = TRUE
    None = None
    Sentinel = Sentinel
INVARIANTS NestingSafe NeverInside NeverHalts
CHECK_DEADLOCK FALSE
