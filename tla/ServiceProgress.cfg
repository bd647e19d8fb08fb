SPECIFICATION ServiceFairSpec
CONSTANTS
    a1 = a1
    a2 = a2
    MaxTask = 2
    Agent = {a1}
    Issue = {i1, i2}
    Runtime = {r1}
    Mode = {"plan", "build"}
    Priority = {0}
    Session = {s1, s2}
    None = None
    MaxConcurrent <- OneEach
    FanOuts <- NoFanOuts
    Inputs = {"poll", "report", "mention", "timeout"}
PROPERTIES
    QueuedTasksLeave
    ActiveTasksEnd
CHECK_DEADLOCK FALSE
