SPECIFICATION ServiceSpec
CONSTANTS
    a1 = a1
    a2 = a2
    MaxTask = 2
    Agent = {a1, a2}
    Issue = {i1, i2}
    Runtime = {r1}
    Mode = {"plan", "build"}
    Priority = {0}
    Session = {s1, s2}
    None = None
    MaxConcurrent <- OneEach
    FanOuts <- NoFanOuts
    Inputs = {"poll", "comment"}
SYMMETRY Sessions
INVARIANT RespectsCapacity
CHECK_DEADLOCK FALSE
