SPECIFICATION PagesSpec
CONSTANTS
    Agent = {a1, a2}
    Runtime = {r1}
    Skill = {s1, s2}
    Path = {p1, p2}
    Inside <- MCInside
    Item = {1, 2, 3}
    IssueOf <- MCIssueOf
    Entry = {1, 2, 3, 4}
    Own = {2, 3}
    Activity = {4}
    Parent <- MCParent
    Session = {1, 2}
    Jobs = {1, 2}
    Task = {1, 2}
    MaxMsg = 1
    Text = {0, 1, 2}
    Card = {1, 2, 3}
    MyCards = {1, 2, 3}
    StartRows <- MCStartRows
    Unit = 8
    MaxRev = 2
    Idea = {j1, j2}
    Rootless = {j2}
    None = None
    Slots <- MCSlots
    MaxWire <- MCMaxWire
    MaxSteps <- MCMaxSteps
INVARIANTS
    AgentsNoCrossWrite
    InboxSettledAgrees
    
    
    ThreadAgrees
    LiveCardIsLive
    RuntimesBusyIsPolled
    TerminalConnectionShown
    IdeasNoEditForgotten
    
    DialogTypedIsKept
PROPERTIES
    SkillsFilesKept
    BoardDropsLand
CHECK_DEADLOCK FALSE
