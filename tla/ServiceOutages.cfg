SPECIFICATION ServiceSpec
CONSTANTS
    a1 = a1
    a2 = a2
    MaxTask = 2
    Agent = {a1, a2}
    Issue = {i1, i2}
    Runtime = {r1}
    Mode = {"plan", "build"}
    Priority = {0}
    Session = {s1}
    None = None
    MaxConcurrent <- OneEach
    FanOuts <- FanBoth
    Inputs = {"poll", "report", "comment", "assign", "edit", "confirm", "fanOut", "cancel", "archive", "runtime", "timeout"}
INVARIANTS
    ArchivedAgentHasNoTasks
    WorkFollowsAssignee
CHECK_DEADLOCK FALSE
