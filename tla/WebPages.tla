------------------------------- MODULE WebPages -------------------------------
(* The pages of the web client (src/apps/web/app/(dashboard)), one at a time: the  *)
(* router mounts one page, its state is created with it, and the modules of the    *)
(* pages say what happens from then on.  The pages keep no state in common but     *)
(* the stores, which WebSync follows from page to page; here each page is started  *)
(* in the states it can be mounted in.                                             *)
EXTENDS RecordPages

CONSTANTS
    Entry, Own, Activity, Parent, Card, MyCards, StartRows, Unit

\* Comments and activities have numbers.
ASSUME EntriesNumbered ==
    IsFiniteSet(Entry) /\ Entry = 1..Cardinality(Entry) /\ Own \subseteq Entry

\* A row of the board is that of its issue.
ASSUME RowsOfCards ==
    /\ IsFiniteSet(Card) /\ \A r \in StartRows : r = [c \in Card |-> r[c]]
    /\ \A r \in StartRows, c \in Card :
         r[c] = [id |-> c, status |-> r[c].status, pos |-> r[c].pos, who |-> r[c].who]

\* There is a slot for what a page fetches when it is mounted.
ASSUME FirstRequests == \A s \in {"board", "thread", "sets"} : 1 \in Slots[s]

-----------------------------------------------------------------------------
Board == INSTANCE IssuesBoard WITH
    loading <- part1, page <- part2, views <- view, selected <- part3,
    toolbar <- part4, astray <- part5, Slots <- Slots["board"],
    MaxWire <- MaxWire["board"], MaxSteps <- MaxSteps["board"]

Thread == INSTANCE IssueThread WITH
    timeline <- store, loading <- part1, input <- view, card <- part2,
    restored <- part3, lost <- part4, Slots <- Slots["thread"],
    MaxWire <- MaxWire["thread"], MaxSteps <- MaxSteps["thread"]

Sets == INSTANCE IssueSets WITH
    of <- view, list <- store, loading <- part1, ids <- part2, astray <- part3,
    Slots <- Slots["sets"], MaxWire <- MaxWire["sets"],
    MaxSteps <- MaxSteps["sets"]

-----------------------------------------------------------------------------
BoardMounted == screen = "board" /\ Board!Init
BoardStep == screen = "board" /\ Board!Next /\ UNCHANGED <<screen>>

ThreadMounted == screen = "thread" /\ Thread!Init
    /\ part5 = Unused
ThreadStep == screen = "thread" /\ Thread!Next /\ UNCHANGED <<screen, part5>>

SetsMounted == screen = "sets" /\ Sets!Init
    /\ part4 = Unused /\ part5 = Unused
SetsStep == screen = "sets" /\ Sets!Next /\ UNCHANGED <<screen, part4, part5>>

PagesInit ==
    \/ AgentsMounted
    \/ SkillsMounted
    \/ InboxMounted
    \/ BoardMounted
    \/ FieldsMounted
    \/ ThreadMounted
    \/ LiveMounted
    \/ RuntimesMounted
    \/ TerminalMounted
    \/ IdeasMounted
    \/ SetsMounted
    \/ DialogMounted

PagesNext ==
    \/ AgentsStep
    \/ SkillsStep
    \/ InboxStep
    \/ BoardStep
    \/ FieldsStep
    \/ ThreadStep
    \/ LiveStep
    \/ RuntimesStep
    \/ TerminalStep
    \/ IdeasStep
    \/ SetsStep
    \/ DialogStep

PagesSpec == PagesInit /\ [][PagesNext]_pageVars

-----------------------------------------------------------------------------
\* What is typed for one agent is never stored with another, whatever is
\* selected, archived or refreshed while drafts are open and saves in flight.
AgentsNoCrossWrite == screen = "agents" => Agents!NoCrossWrite

\* A supporting file disappears from a skill only because the user removed it in the
\* editor, or because the editor was saved before it had the files (once it has been, the
\* late files may undo that save in the editor), or because two editors of the skill, one
\* after another, crossed: the second read the files, or saved, with a save of the first
\* still under way.
SkillsFilesKept == [][screen = "skills" => Skills!FileLostUnloaded]_pageVars

\* When the calls are over and none of them overlapped another or a change made
\* elsewhere, the list shows what the server has: every optimistic operation that
\* failed was followed by a fetch.  The notifications of a deleted issue are
\* left out: the server deletes them with it and the list keeps them.
InboxSettledAgrees == screen = "inbox" => Inbox!SettledAgrees

\* When nothing is asked any more, the events on their way will bring the store to
\* the issues of the server, whatever moves, batches and events crossed.  The
\* exceptions: an answer that overwrote what had been heard, and a fetch that failed.
BoardStoreAgrees == screen = "board" => Board!BoardAgrees

\* A card that is dropped on another shows up where the board showed it during the
\* drag: for issues at different positions on a board in its manual order.
BoardDropsLand == [][screen = "board" => Board!DropLands]_pageVars

\* When nothing is on its way the store shows the issue of the server, in whatever
\* order the server took the updates: the last event wins.  The exceptions are a
\* rollback and an answer that carried an older row than the server had (broken).
FieldsStoreConverges == screen = "fields" => Fields!FieldsConverge

\* A comment that exists is on the screen exactly once.  It is listed twice only after a
\* deletion of it failed: then the rollback appends it although a list fetched meanwhile
\* already holds it.  It is missing, when nothing is on its way, only if its event was
\* overtaken by an older list or its answer got lost: own comments are not taken from events.
ThreadAgrees == screen = "thread" => Thread!ListedOnce /\ Thread!NothingMissing

\* When nothing is under way, the card says that an agent works only while it does,
\* unless the end of the task was never told, was lost with the connection, or was
\* heard before an answer that still named the task.
LiveCardIsLive == screen = "live" => Live!LiveMeansLive

\* A section that says it is testing or updating has asked, or is asking every two
\* seconds: then a result that the server has will be shown.
RuntimesBusyIsPolled == screen = "runtimes" => Runtimes!BusyIsPolled

\* "Live" is shown only while there is a socket, "Connecting" only while a request or a
\* socket that has not opened yet will end it, "Restoring" only while a session is asked
\* for: nothing else enables the button again.
TerminalConnectionShown == screen = "terminal" => Terminal!ConnectionShown

\* What stands in the editor is committed, or waits for the timer or for a save under
\* way, or the editor says that it could not; a commit by another, or by an editor that was
\* left before, may have replaced it.  After a save whose answer was lost, an undo to the
\* text known before is committed by nobody, but the editor says "Unsaved changes".
IdeasNoEditForgotten == screen = "ideas" => Ideas!NoEditForgotten

\* When nothing is asked any more, the events on their way will bring the reactions and
\* the subscribers to the rows of the server, each actor once, however toggles, temporary
\* ids and events crossed; astray remembers the answers that got lost, the rollbacks and
\* the lists that crossed another change.
SetsShownAgree == screen = "sets" => Sets!SetsAgree

\* What was typed last into the dialog of a new issue is in the draft, or waits for its
\* timer, or is in an issue, whatever is closed, reloaded, submitted or refused, and it is
\* in one issue only.  The exceptions: the description of the last half second before the
\* dialog is closed, what was typed, in whichever dialog, while a request was under way, and
\* a request that is tried again because its answer got lost.
DialogTypedIsKept == screen = "dialog" => Dialog!TypedIsKept /\ Dialog!OneIssue
=============================================================================
