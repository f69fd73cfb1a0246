SPECIFICATION Spec
CONSTANTS
    left = left
    right = right
    Byte <- MCByte
    ByteXor <- MCXor
    Sectors <- MCSectors
    DataLen = 2
    Blank <- MCBlank
    Slots = {left, right}
    Enabled = {left, right}
    OnDisk = {right}
    Programs <- MCPrograms
    Strays = {0, 1, 129}
    Sessions <- MCTwice
    CtrlWords <- MCCtrlWords
    SlotFlips = TRUE
PROPERTY WholeWrites
CHECK_DEADLOCK TRUE
