SPECIFICATION Spec
CONSTANTS
    Channels = {0, 1, 2}
    PerWord <- MCPerWord
    Masks <- MCMasks
    Bcr = {2}
    WrapWords = 3
    SectorWords = 1
    MaxStep = 2
    MaxAvail = 1
    MaxWrites = 5
    Rekick = FALSE
INVARIANTS
    StartsWhenEnabled
    MasterFlagFormula
    AlwaysUnderEstimate
