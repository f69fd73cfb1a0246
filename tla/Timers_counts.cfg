SPECIFICATION TimersSpec
CONSTANTS
    Width = 4
    Dividers = {1, 3}
    MaxAdvance = 14
INVARIANTS
    BatchEqualsTicks
    SliceIsExact
    OneShotFiresOnce
