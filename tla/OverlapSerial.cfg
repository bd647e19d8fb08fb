SPECIFICATION Spec
CONSTANTS
    MaxTask = 3
    Agent = {a1, a2}
    Issue = {i1}
    Runtime = {r1}
    Mode = {"plan"}
    Priority = {0}
    Session = {s1, s2}
    None = None

INVARIANT PerIssueSerialization
CHECK_DEADLOCK FALSE
