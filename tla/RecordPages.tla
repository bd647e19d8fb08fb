----------------------------- MODULE RecordPages -----------------------------
(* The pages of the web client that know the server's rows by their ids alone:     *)
(* agents, skills, inbox, the fields and the live card of an issue, runtimes with  *)
(* their terminal, ideas, and the dialog of a new issue.  WebPages adds those that *)
(* keep their rows in an order, and says how the router mounts them.  One set of   *)
(* variables stands for the state of all pages: what a variable holds depends on   *)
(* the page, as each INSTANCE says.                                                *)
EXTENDS Integers, FiniteSets

CONSTANTS
    Agent, Runtime, Item, IssueOf, Session, Jobs, Task, MaxMsg, Text, MaxRev, Idea,
    Rootless, Skill, Path, Inside, None,
    Slots,     \* bound, by page: requests in flight
    MaxWire,   \* bound, by page: events on their way
    MaxSteps   \* bound, by page: clicks, background changes and failures, together

\* Tasks are numbered in the order of their creation: some of them have a newest one.
ASSUME TasksInOrder ==
    \A S \in SUBSET Task : S # {} => \E t \in S : \A u \in S : u <= t

\* A skill has finitely many files.
ASSUME PathsFinite == IsFiniteSet(Path)

VARIABLES
    screen,    \* the page that is mounted
    store,     \* what it reads of the stores, or what it fetches for itself
    view,      \* the state of its main component
    part1, part2, part3, part4, part5, \* the rest of its state
    call,      \* requests in flight
    wire,      \* events on their way to this client
    row,       \* server: the rows it shows
    left       \* what is left of MaxSteps

pageVars == <<screen, store, view, part1, part2, part3, part4, part5, call, wire, row, left>>

\* The value of a variable that the page does not have.
Unused == "unused"

-----------------------------------------------------------------------------
Agents == INSTANCE AgentsPage WITH
    detail <- part1, dialog <- part2, runtimes <- part3,
    Slots <- Slots["agents"], MaxSteps <- MaxSteps["agents"]

Skills == INSTANCE SkillsPage WITH
    detail <- part1, dialog <- part2, Slots <- Slots["skills"],
    MaxSteps <- MaxSteps["skills"]

Inbox == INSTANCE InboxPage WITH
    loading <- part1, selected <- view, panel <- part2, mobile <- part3,
    done <- part4, clean <- part5, Slots <- Slots["inbox"],
    MaxSteps <- MaxSteps["inbox"]

Fields == INSTANCE IssueFields WITH
    runs <- part1, plan <- part2, broken <- part3, Slots <- Slots["fields"],
    MaxWire <- MaxWire["fields"], MaxSteps <- MaxSteps["fields"]

Live == INSTANCE IssueLive WITH
    card <- view, seen <- part1, history <- store, task <- row, late <- part2,
    Slots <- Slots["live"], MaxWire <- MaxWire["live"],
    MaxSteps <- MaxSteps["live"]

Runtimes == INSTANCE RuntimesPage WITH
    page <- store, inst <- view, sec <- part1, usage <- part2,
    ticking <- part3, job <- part4, Slots <- Slots["runtimes"],
    MaxSteps <- MaxSteps["runtimes"]

Terminal == INSTANCE RuntimeTerminal WITH
    term <- part1, stored <- store, sock <- part2, adrift <- part3,
    rt <- part4, ses <- row, Slots <- Slots["terminal"],
    MaxSteps <- MaxSteps["terminal"]

Ideas == INSTANCE IdeaPages WITH
    at <- part1, list <- part2, form <- part3, ed <- view, held <- store,
    idea <- row, file <- part4, Slots <- Slots["ideas"],
    MaxSteps <- MaxSteps["ideas"]

Dialog == INSTANCE NewIssue WITH
    modal <- part1, form <- view, draft <- part2, typed <- part3, excused <- part4,
    Slots <- Slots["dialog"], MaxSteps <- MaxSteps["dialog"]

-----------------------------------------------------------------------------
AgentsMounted == screen = "agents" /\ Agents!Init
    /\ wire = Unused /\ part4 = Unused /\ part5 = Unused
AgentsStep == screen = "agents" /\ Agents!Next /\ UNCHANGED <<screen, wire, part4, part5>>

SkillsMounted == screen = "skills" /\ Skills!Init
    /\ wire = Unused /\ part3 = Unused /\ part4 = Unused /\ part5 = Unused
SkillsStep == screen = "skills" /\ Skills!Next /\ UNCHANGED <<screen, wire, part3, part4, part5>>

InboxMounted == screen = "inbox" /\ Inbox!Init
    /\ wire = Unused
InboxStep == screen = "inbox" /\ Inbox!Next /\ UNCHANGED <<screen, wire>>

FieldsMounted == screen = "fields" /\ Fields!Init
    /\ part4 = Unused /\ part5 = Unused
FieldsStep == screen = "fields" /\ Fields!Next /\ UNCHANGED <<screen, part4, part5>>

LiveMounted == screen = "live" /\ Live!Init
    /\ part3 = Unused /\ part4 = Unused /\ part5 = Unused
LiveStep == screen = "live" /\ Live!Next /\ UNCHANGED <<screen, part3, part4, part5>>

RuntimesMounted == screen = "runtimes" /\ Runtimes!Init
    /\ wire = Unused /\ part5 = Unused
RuntimesStep == screen = "runtimes" /\ Runtimes!Next /\ UNCHANGED <<screen, wire, part5>>

TerminalMounted == screen = "terminal" /\ Terminal!Init
    /\ wire = Unused /\ part5 = Unused
TerminalStep == screen = "terminal" /\ Terminal!Next /\ UNCHANGED <<screen, wire, part5>>

IdeasMounted == screen = "ideas" /\ Ideas!Init
    /\ wire = Unused /\ part5 = Unused
IdeasStep == screen = "ideas" /\ Ideas!Next /\ UNCHANGED <<screen, wire, part5>>

DialogMounted == screen = "dialog" /\ Dialog!Init
    /\ wire = Unused /\ part5 = Unused
DialogStep == screen = "dialog" /\ Dialog!Next /\ UNCHANGED <<screen, wire, part5>>
=============================================================================
