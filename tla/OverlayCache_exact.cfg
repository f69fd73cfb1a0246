SPECIFICATION Spec
CONSTANTS
    Cells = {0, 1}
    Bytes = {0, 1}
    LastPage = 1
    KernelEnd = 0
    OverlayFloor = 0
    PageOf <- MCPageOf
    Fns = {1, 2, 3}
    Dlls = {"whole", "parts"}
    Entry <- MCEntry
    Ranges <- MCRanges
    Code <- MCCode
    DllOf <- MCDllOf
    Region <- MCRegion
    BadDlls = {}
    Blocked = {}
    CpsMode = TRUE
    SaveStates = FALSE
    ActiveCap = 3
    CandCap = 3
    MaxNest = 2
    MaxLeak = 1
    GenLimit = 1
    None = None
PROPERTY ExactNotMasked
