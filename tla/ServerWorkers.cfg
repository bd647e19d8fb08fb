SPECIFICATION WorkersSpec
CONSTANTS
    MaxTask = 2
    Issue = {i1, i2}
    MaxConcurrent = 2
    Worker = {w1, w2}
    Branch = {b1}
    None = None
    MaxAttempts = 2
    MaxRun = 2
    MaxJob = 2
    MaxTurns = 1
    MaxFaults = 1
INVARIANTS
    DaemonGivesBack
    DaemonRunsAlone
    PullTold
    PullDelivered
PROPERTIES
    CancelledRunStops
CHECK_DEADLOCK FALSE
