SPECIFICATION ServiceSpec
CONSTANTS
    a1 = a1
    a2 = a2
    MaxTask = 1
    Agent = {a1, a2}
    Issue = {i1}
    Runtime = {r1}
    Mode = {"plan", "build"}
    Priority = {0}
    Session = {s1}
    None = None
    MaxConcurrent <- OneEach
    FanOuts <- NoFanOuts
    Inputs = {"comment", "unassign"}
INVARIANTS
    WorkFollowsAssignee
CHECK_DEADLOCK FALSE
