SPECIFICATION Spec
CONSTANTS
    serial = serial
    stream = stream
    drive = drive
    Dev = {serial, stream, drive}
    Serial = {serial}
    Reload <- MCReload
    Delays = {1, 3}
    Period = 4
    Stale = 3
    Cap = 3
    MaxCharge = 4
    MaxSince = 7
    StreakMin = 2
    QuantumMax = 2
    Transitions = 8
    Sessions <- JustPlaying
INVARIANTS DistanceUnderEstimates
