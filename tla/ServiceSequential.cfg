SPECIFICATION ServiceSpec
CONSTANTS
    a1 = a1
    a2 = a2
    MaxTask = 3
    Agent = {a1, a2}
    Issue = {i1}
    Runtime = {r1, r2}
    Mode = {"plan", "build"}
    Priority = {0}
    Session = {s1}
    None = None
    MaxConcurrent <- OneEach
    FanOuts <- FanBoth
    Inputs = {"poll", "report", "cancel", "comment", "mention", "confirm", "fanOut", "move"}
INVARIANTS
    StatusSettles
    OrphanedOnlyByMove

    
CHECK_DEADLOCK FALSE
