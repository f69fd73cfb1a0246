SPECIFICATION FairSpec
CONSTANTS
    Cells = {0}
    Bytes = {0, 1}
    LastPage = 0
    KernelEnd = 0
    OverlayFloor = 1
    PageOf <- OnePageOf
    Fns = {1, 2, 3}
    Dlls = {"old", "new", "stale"}
    Entry <- OneEntry
    Ranges <- OneRanges
    Code <- OneCode
    DllOf <- OneDllOf
    Region <- OneRegion
    BadDlls = {"stale"}
    Blocked = {}
    CpsMode = FALSE
    SaveStates = TRUE
    ActiveCap = 3
    CandCap = 1
    MaxNest = 1
    MaxLeak = 1
    GenLimit = 2
    None = None
PROPERTIES DispatchTerminates
