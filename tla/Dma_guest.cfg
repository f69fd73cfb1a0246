SPECIFICATION FairSpec
CONSTANTS
    Channels = {1, 2, 3, 6}
    PerWord <- MCPerWord
    Masks <- MCMasks
    Bcr = {0, 3}
    WrapWords = 2
    SectorWords = 2
    MaxStep = 2
    MaxAvail = 1
    MaxWrites = 4
    Rekick = FALSE
INVARIANTS
    SliceStopsInTime
PROPERTIES
    IrqOnMasterEdge
    KickIsFresh
    TransferFinishes
