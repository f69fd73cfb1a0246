SPECIFICATION Spec
CONSTANTS
    serial = serial
    stream = stream
    drive = drive
    Dev = {serial, stream, drive}
    Serial = {serial}
    Reload <- MCReload
    Delays = {1, 5}
    Period = 7
    Stale = 3
    Cap = 5
    MaxCharge = 3
    MaxSince = 9
    StreakMin = 2
    QuantumMax = 3
    Transitions = 8
    Sessions <- JustPlaying
PROPERTIES SkipStopsAtEvent
