SPECIFICATION ServiceSpec
CONSTANTS
    a1 = a1
    a2 = a2
    MaxTask = 3
    Agent = {a1, a2}
    Issue = {i1}
    Runtime = {r1}
    Mode = {"plan", "build"}
    Priority = {0}
    Session = {s1, s2}
    None = None
    MaxConcurrent <- OneEach
    FanOuts <- NoFanOuts
    Inputs = {"poll", "report", "comment", "mention", "confirm", "hangUp"}
SYMMETRY Sessions
INVARIANTS
    ServiceTypeOK
    BuildAfterPlan
    StageSettles
PROPERTIES
    ImplementsQueue
CHECK_DEADLOCK FALSE
