SPECIFICATION FairSpec
CONSTANTS
    Cmds = {"Read", "Pause", "Stop", "MotorOn"}
    Disc = TRUE
    PresentDelay = 2
    Delays = {2}
    Periods = {1}
    Enables <- MCEnables
    MaxStep = 2
    Latency = 1
    HandlerMax = 1
    None = None
PROPERTIES FastPeriodIsEnough
