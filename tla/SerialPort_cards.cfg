SPECIFICATION Spec
CONSTANTS
    left = left
    right = right
    Byte <- MCByte
    ByteXor <- MCXor
    Sectors <- MCSectors
    DataLen = 2
    Blank <- MCBlank
    Slots = {left, right}
    Enabled = {left, right}
    OnDisk = {right}
    Programs <- MCPrograms
    Strays = {0, 1, 129}
    Sessions <- MCSessions
    CtrlWords <- MCCtrlWords
    SlotFlips = FALSE
INVARIANTS CleanIsSaved NeverStalls
PROPERTIES WholeWrites WholeReads
CHECK_DEADLOCK TRUE
