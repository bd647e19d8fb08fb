SPECIFICATION SyncSpec
CONSTANTS
    i1 = i1
    i2 = i2
    Workspace = {1, 2}
    Issue = {i1, i2}
    Home <- OneInEach
    MaxRev = 2
    MaxCalls = 2
    MaxQueue = 1
    MaxSteps = 4
INVARIANTS
    SyncTypeOK
    OneWorkspace
    LoadingEnds
PROPERTY
    ForeignOnlyLate
CHECK_DEADLOCK FALSE
