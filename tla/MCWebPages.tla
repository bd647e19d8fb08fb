----------------------------- MODULE MCWebPages -----------------------------
(* WebPages for TLC.                                                         *)
EXTENDS WebPages, Sequences

\* One path is a directory of the other.
MCInside == LET p == CHOOSE q \in Path : TRUE
            IN  [q \in Path |-> IF q = p THEN {} ELSE {p}]

\* Two notifications of one issue and one without an issue.
MCIssueOf == <<11, 11, None>>

\* Entry 2 answers entry 1.
MCParent == <<0, 1, 0, 0>>

Issue(c, s, p, w) == [id |-> c, status |-> s, pos |-> p, who |-> w]

\* A column of three; columns of one and two; equal positions and a card to come.
MCStartRows ==
    {<<Issue(1, "todo", 0, "me"), Issue(2, "todo", 8, "me"), Issue(3, "todo", 16, "me")>>,
     <<Issue(1, "todo", 0, "me"), Issue(2, "done", 8, "me"), Issue(3, "done", 16, "me")>>,
     <<Issue(1, "todo", 0, "me"), Issue(2, "todo", 0, "agent"), Issue(3, "absent", 0, "nobody")>>}

Screens == {"agents", "skills", "inbox", "board", "fields", "thread", "live",
            "runtimes", "terminal", "ideas", "sets", "dialog"}

MCSlots == [s \in Screens |-> IF s \in {"fields", "sets"} THEN 1..3 ELSE 1..2]

MCMaxWire == [s \in Screens |-> IF s \in {"board", "sets"} THEN 3 ELSE 2]

MCMaxSteps == [s \in Screens |->
                 CASE s = "terminal" -> 5
                   [] s \in {"ideas", "sets"} -> 4
                   [] s \in {"fields", "thread", "runtimes", "board"} -> 2
                   [] OTHER -> 3]
=============================================================================
