------------------------------ MODULE IdeaPages -----------------------------
(***************************************************************************)
(* The pages of the ideas (src/apps/web/features/ideas/pages): the list,   *)
(* the form of a new idea with its suggested names, and the editor, which  *)
(* commits the text to GitHub after three quiet seconds, names the version *)
(* it is based on, and saves again what was typed during a save.           *)
(***************************************************************************)
EXTENDS Integers, FiniteSets

CONSTANTS
    Text,      \* contents of the idea, 0 the first
    Slots,     \* bound: requests in flight
    MaxSteps   \* bound: clicks, background changes and failures, together

VARIABLES
    at,     \* the page: "list", "new", "edit"
    list,   \* IdeasPage
    form,   \* NewIdeaPage
    ed,     \* IdeaEditorPage
    held,   \* issue store: which issues of the idea it holds
    call,   \* requests in flight
    idea,   \* server: is there the idea, its issues, its repository
    file,   \* GitHub: the content, its version, and who committed it: this editor or another
    left    \* what is left of MaxSteps

vars == <<at, list, form, ed, held, call, idea, file, left>>

Issues == {"root", "child"}

Idle == [kind |-> "idle", status |-> "idle", old |-> FALSE, text |-> 0, base |-> 0,
         sha |-> 0, issues |-> {}, repo |-> "none", rest |-> 0, again |-> FALSE]
Request(kind) == [Idle EXCEPT !.kind = kind, !.status = "sent"]
Free(c) == {n \in Slots : c[n].kind = "idle" /\ \A m \in Slots : m < n => c[m].kind # "idle"}
Send(n, r) == n \in Free(call) /\ call' = [call EXCEPT ![n] = r]
Spend == left > 0 /\ left' = left - 1
Ended(n, kind) == call[n].kind = kind /\ call[n].status \in {"ok", "error"}
Freed(n) == call' = [call EXCEPT ![n] = Idle]
Saving == \E n \in Slots : call[n].kind = "save" /\ ~call[n].old

NoList == [loading |-> TRUE, configured |-> FALSE, there |-> FALSE, search |-> ""]
NoForm == [loading |-> TRUE, configured |-> FALSE, raw |-> 0, name |-> "", shown |-> 0,
           timer |-> FALSE, creating |-> FALSE]
NoEd   == [loading |-> TRUE, there |-> FALSE, draft |-> 0, synced |-> 0, sha |-> 0,
           save |-> "idle", timer |-> FALSE, queued |-> FALSE, repo |-> "none",
           retrying |-> FALSE, dialog |-> FALSE, deleting |-> FALSE]

Editing == at = "edit" /\ ~ed.loading /\ ed.there

-----------------------------------------------------------------------------
(* Navigation: the page that is left is unmounted, its timers are cleared, *)
(* and its answers are ignored but for the saves of the editor.            *)

\* A save keeps the refs of its editor: the draft, and whether it is to save again.
Open(p, n) ==
    /\ at' = p /\ list' = NoList /\ form' = NoForm /\ ed' = NoEd
    /\ call' = [m \in Slots |->
                  IF m = n THEN Request(p)
                  ELSE IF call[m].kind = "idle" \/ call[m].old THEN call[m]
                  ELSE [call[m] EXCEPT !.old = TRUE, !.rest = ed.draft, !.again = ed.queued]]

\* IdeasPage lists what the search matches, once the configuration has come.
IdeaShown == list.configured /\ ~list.loading /\ list.there /\ list.search # "miss"

Search(v) ==
    /\ at = "list" /\ list.search # v /\ Spend /\ list' = [list EXCEPT !.search = v]
    /\ UNCHANGED <<at, form, ed, held, call, idea, file>>

\* The sidebar and "Back to Ideas", "New Idea", the card of the idea.
Visit(p, n) ==
    /\ at # p /\ (p # "list" => at = "list") /\ (p = "edit" => IdeaShown)
    /\ Spend /\ n \in Free(call) /\ Open(p, n)
    /\ UNCHANGED <<held, idea, file>>

-----------------------------------------------------------------------------
(* The form of a new idea.                                                 *)

FormShown == at = "new" /\ (form.configured \/ form.loading)

\* The effect on the text and the name: the timer starts again, or all is emptied.
Effect(f) == IF f.raw = 0 \/ ~f.configured THEN [f EXCEPT !.shown = 0, !.timer = FALSE]
             ELSE [f EXCEPT !.timer = TRUE]

Describe(r) ==
    /\ FormShown /\ form.raw # r /\ Spend
    /\ form' = Effect([form EXCEPT !.raw = r])
    /\ UNCHANGED <<at, list, ed, held, call, idea, file>>

\* Typed into the field, or a click on a suggestion.
ChooseName(v) ==
    /\ FormShown /\ form.name # v /\ (v = "suggested" => form.shown # 0) /\ Spend
    /\ form' = Effect([form EXCEPT !.name = v])
    /\ UNCHANGED <<at, list, ed, held, call, idea, file>>

\* 400 ms later; the handler keeps the name of now.
AskNames(n) ==
    /\ form.timer /\ form' = [form EXCEPT !.timer = FALSE]
    /\ Send(n, [Request("names") EXCEPT !.text = form.raw, !.base = IF form.name = "" THEN 0 ELSE 1])
    /\ UNCHANGED <<at, list, ed, held, idea, file, left>>

\* Whichever answer comes last is shown; a name chosen meanwhile gives way.
NamesArrive(n) ==
    /\ Ended(n, "names") /\ Freed(n)
    /\ form' = (IF call[n].old \/ call[n].status = "error" THEN form
                ELSE LET f == [form EXCEPT !.shown = call[n].text] IN
                     IF call[n].base = 0 /\ f.name # "suggested"
                     THEN Effect([f EXCEPT !.name = "suggested"]) ELSE f)
    /\ UNCHANGED <<at, list, ed, held, idea, file, left>>

Create(n) ==
    /\ FormShown /\ form.raw # 0 /\ form.name # "" /\ ~form.creating /\ Spend
    /\ form' = [form EXCEPT !.creating = TRUE] /\ Send(n, Request("create"))
    /\ UNCHANGED <<at, list, ed, held, idea, file>>

\* A success opens the editor, from wherever the user is by then.
CreateEnds(n) ==
    /\ Ended(n, "create")
    /\ IF call[n].status = "ok" /\ at # "edit" THEN Open("edit", n)
       ELSE /\ Freed(n) /\ UNCHANGED <<at, list, ed>>
            /\ form' = (IF call[n].old THEN form ELSE [form EXCEPT !.creating = FALSE])
    /\ UNCHANGED <<held, idea, file, left>>

-----------------------------------------------------------------------------
(* The editor.                                                             *)

\* The effect on the draft and the idea.
Waiting(e) == IF e.there /\ e.draft # e.synced
              THEN [e EXCEPT !.save = "dirty", !.timer = TRUE]
              ELSE [e EXCEPT !.timer = FALSE]

TypeText(t) ==
    /\ Editing /\ ed.draft # t /\ Spend
    /\ ed' = Waiting([ed EXCEPT !.draft = t])
    /\ UNCHANGED <<at, list, form, held, call, idea, file>>

\* saveDraft, with its early returns.
SaveOf(e) == [Request("save") EXCEPT !.text = e.draft, !.base = e.synced, !.sha = e.sha]

SaveTimer(n) ==
    /\ ed.timer
    /\ LET e == [ed EXCEPT !.timer = FALSE] IN
         IF Saving THEN ed' = [e EXCEPT !.queued = TRUE] /\ UNCHANGED call
         ELSE ed' = [e EXCEPT !.save = "saving"] /\ Send(n, SaveOf(ed))
    /\ UNCHANGED <<at, list, form, held, idea, file, left>>

RetryRepo(n) ==
    /\ Editing /\ ed.repo = "failed" /\ ~ed.retrying /\ Spend
    /\ ed' = [ed EXCEPT !.retrying = TRUE] /\ Send(n, Request("retry"))
    /\ UNCHANGED <<at, list, form, held, idea, file>>

CanDelete == held = {}

DeleteDialog(open) ==
    /\ Editing /\ ed.dialog # open /\ (open => CanDelete)
    /\ ed' = [ed EXCEPT !.dialog = open]
    /\ UNCHANGED <<at, list, form, held, call, idea, file, left>>

ConfirmDelete(n) ==
    /\ Editing /\ ed.dialog /\ CanDelete /\ ~ed.deleting /\ Spend
    /\ ed' = [ed EXCEPT !.deleting = TRUE] /\ Send(n, Request("delete"))
    /\ UNCHANGED <<at, list, form, held, idea, file>>

-----------------------------------------------------------------------------
(* The server and GitHub.                                                  *)

SomeoneCommits(t) ==
    /\ idea.there /\ file.text # t /\ Spend
    /\ file' = [text |-> t, sha |-> file.sha + 1, by |-> "other"]
    /\ UNCHANGED <<at, list, form, ed, held, call, idea>>

\* The repository job ends.
RepoChanges(s) ==
    /\ idea.there /\ idea.repo = "creating" /\ Spend
    /\ idea' = [idea EXCEPT !.repo = s]
    /\ UNCHANGED <<at, list, form, ed, held, call, file>>

\* Child issues come from the buttons of the editor, and issues are deleted; the
\* issue store hears of it.
IssueComes ==
    /\ Editing /\ "root" \in idea.issues /\ "child" \notin idea.issues /\ Spend
    /\ idea' = [idea EXCEPT !.issues = @ \cup {"child"}] /\ held' = held \cup {"child"}
    /\ UNCHANGED <<at, list, form, ed, call, file>>
IssueGoes(i) ==
    /\ i \in idea.issues /\ Spend
    /\ idea' = [idea EXCEPT !.issues = @ \ {i}] /\ held' = held \ {i}
    /\ UNCHANGED <<at, list, form, ed, call, file>>

\* An update needs the version it names, or the content it is based on.
Answer(n) ==
    LET r == call[n]  ok == [call EXCEPT ![n].status = "ok"] IN
    /\ r.status = "sent"
    /\ \/ /\ r.kind \in {"new", "names"} /\ call' = ok /\ UNCHANGED <<idea, file, left>>
       \/ /\ r.kind = "list" /\ UNCHANGED <<idea, file, left>>
          /\ call' = [ok EXCEPT ![n].text = IF idea.there THEN 1 ELSE 0]
       \/ /\ r.kind = "edit" /\ idea.there /\ UNCHANGED <<idea, file, left>>
          /\ \E is \in {{}, idea.issues} :       \* the list of issues may fail alone
               call' = [ok EXCEPT ![n].text = file.text, ![n].sha = file.sha,
                                  ![n].issues = is, ![n].repo = idea.repo]
       \/ /\ r.kind = "create" /\ ~idea.there /\ UNCHANGED left   \* no editor holds it yet
          /\ idea' = [there |-> TRUE, issues |-> {"root"}, repo |-> "creating"]
          /\ file' = [text |-> 0, sha |-> file.sha + 1, by |-> "other"] /\ call' = ok
       \/ /\ r.kind = "save" /\ idea.there /\ (r.sha = file.sha \/ r.base = file.text)
          /\ file' = [text |-> r.text, sha |-> file.sha + 1,
                      by |-> IF r.old THEN "other" ELSE "me"]
          /\ \/ call' = [ok EXCEPT ![n].sha = file'.sha] /\ UNCHANGED left
             \/ call' = [call EXCEPT ![n].status = "error"] /\ Spend
          /\ UNCHANGED idea
       \/ /\ r.kind = "retry" /\ idea.there /\ call' = ok
          /\ idea' = [idea EXCEPT !.repo = "creating"] /\ UNCHANGED <<file, left>>
       \/ /\ r.kind = "delete" /\ idea.there /\ idea.issues = {}
          /\ idea' = [idea EXCEPT !.there = FALSE] /\ call' = ok /\ UNCHANGED <<file, left>>
       \/ /\ IF \/ r.kind = "save" /\ ~(idea.there /\ (r.sha = file.sha \/ r.base = file.text))
                \/ r.kind = "delete" /\ idea.issues # {}
                \/ r.kind \in {"edit", "retry"} /\ ~idea.there
             THEN UNCHANGED left ELSE Spend
          /\ call' = [call EXCEPT ![n].status = "error"] /\ UNCHANGED <<idea, file>>
    /\ UNCHANGED <<at, list, form, ed, held>>

-----------------------------------------------------------------------------
(* Answers.                                                                *)

\* IdeasPage and NewIdeaPage: the configuration, and the list with it.
PageArrives(n) ==
    /\ Ended(n, "list") \/ Ended(n, "new")
    /\ Freed(n)
    /\ LET ok == call[n].status = "ok" IN
         IF call[n].old THEN UNCHANGED <<list, form>>
         ELSE IF at = "list"
         THEN /\ list' = [list EXCEPT !.loading = FALSE, !.configured = ok,
                                      !.there = ok /\ call[n].text = 1]
              /\ UNCHANGED form
         ELSE /\ form' = Effect([form EXCEPT !.loading = FALSE, !.configured = ok])
              /\ UNCHANGED list
    /\ UNCHANGED <<at, ed, held, idea, file, left>>

Loaded(n) ==
    /\ Ended(n, "edit") /\ Freed(n)
    /\ LET r == call[n] IN
         IF r.old THEN UNCHANGED <<ed, held>>
         ELSE IF r.status = "error" THEN ed' = [ed EXCEPT !.loading = FALSE] /\ UNCHANGED held
         ELSE /\ held' = held \cup r.issues
              /\ ed' = [NoEd EXCEPT !.loading = FALSE, !.there = TRUE, !.draft = r.text,
                                    !.synced = r.text, !.sha = r.sha, !.save = "saved",
                                    !.repo = r.repo]
    /\ UNCHANGED <<at, list, form, idea, file, left>>

\* Mutation: what is in the editor now counts as saved.
SavedAsTyped(n) ==
    /\ Ended(n, "save") /\ call[n].status = "ok" /\ ~call[n].old
    /\ LET e == Waiting([ed EXCEPT !.synced = ed.draft, !.sha = call[n].sha,
                                   !.save = "saved", !.queued = FALSE])
       IN  Freed(n) /\ ed' = e
    /\ UNCHANGED <<at, list, form, held, idea, file, left>>

\* The text that was sent is the base of the next save; what was typed meanwhile is
\* saved at once, and again by the timer that the new idea starts.
Saved(n) ==
    /\ Ended(n, "save") /\ call[n].status = "ok" /\ ~call[n].old
    /\ LET e == Waiting([ed EXCEPT !.synced = call[n].text, !.sha = call[n].sha,
                                   !.save = "saved", !.queued = FALSE])
       IN  IF ed.draft = call[n].text THEN Freed(n) /\ ed' = e
           ELSE call' = [call EXCEPT ![n] = SaveOf(e)] /\ ed' = e
    /\ UNCHANGED <<at, list, form, held, idea, file, left>>

\* Only a save that was queued meanwhile tries again.
SaveFailed(n) ==
    /\ Ended(n, "save") /\ call[n].status = "error" /\ ~call[n].old
    /\ IF ed.queued /\ ed.draft # ed.synced
       THEN call' = [call EXCEPT ![n] = SaveOf(ed)]
            /\ ed' = [ed EXCEPT !.save = "saving", !.queued = FALSE]
       ELSE Freed(n) /\ ed' = [ed EXCEPT !.save = "error", !.queued = FALSE]
    /\ UNCHANGED <<at, list, form, held, idea, file, left>>

\* The editor was left during the save: its refs live on for a save of the rest.
SavedAway(n) ==
    /\ Ended(n, "save") /\ call[n].old
    /\ LET r == call[n]
           more == [r EXCEPT !.status = "sent", !.text = r.rest, !.again = FALSE]
       IN  IF r.status = "ok" /\ r.rest # r.text
           THEN call' = [call EXCEPT ![n] = [more EXCEPT !.base = r.text]]
           ELSE IF r.status = "error" /\ r.again /\ r.rest # r.base
           THEN call' = [call EXCEPT ![n] = more]
           ELSE Freed(n)
    /\ UNCHANGED <<at, list, form, ed, held, idea, file, left>>

\* A retried repository is a new idea for the effect: the timer starts again.
RetryEnds(n) ==
    /\ Ended(n, "retry") /\ Freed(n)
    /\ ed' = (IF call[n].old THEN ed
              ELSE IF call[n].status = "error" THEN [ed EXCEPT !.retrying = FALSE]
              ELSE Waiting([ed EXCEPT !.retrying = FALSE, !.repo = "creating"]))
    /\ UNCHANGED <<at, list, form, held, idea, file, left>>

DeleteEnds(n) ==
    /\ Ended(n, "delete")
    /\ IF call[n].status = "ok" /\ at # "list" THEN Open("list", n)
       ELSE /\ Freed(n) /\ UNCHANGED <<at, list, form>>
            /\ ed' = (IF call[n].old THEN ed
                      ELSE [ed EXCEPT !.deleting = FALSE, !.dialog = FALSE])
    /\ UNCHANGED <<held, idea, file, left>>

-----------------------------------------------------------------------------
Init ==
    /\ \E there \in BOOLEAN :
         idea = [there |-> there, issues |-> IF there THEN {"root"} ELSE {}, repo |-> "creating"]
    /\ at \in {"list", "new", "edit"}
    /\ list = NoList /\ form = NoForm /\ ed = NoEd /\ held = {}
    /\ call = [n \in Slots |-> IF n = 1 THEN Request(at) ELSE Idle]
    /\ file = [text |-> 0, sha |-> 1, by |-> "me"]
    /\ left = MaxSteps

Next ==
    \/ \E t \in Text : Describe(t) \/ TypeText(t) \/ SomeoneCommits(t)
    \/ \E v \in {"mine", "suggested"} : ChooseName(v)
    \/ \E v \in {"hit", "miss"} : Search(v)
    \/ \E open \in BOOLEAN : DeleteDialog(open)
    \/ \E s \in {"ready", "failed"} : RepoChanges(s)
    \/ IssueComes \/ \E i \in Issues : IssueGoes(i)
    \/ \E n \in Slots :
         \/ \E p \in {"list", "new", "edit"} : Visit(p, n)
         \/ AskNames(n) \/ NamesArrive(n) \/ Create(n) \/ CreateEnds(n) \/ SaveTimer(n)
         \/ RetryRepo(n) \/ ConfirmDelete(n) \/ Answer(n) \/ PageArrives(n) \/ Loaded(n)
         \/ Saved(n) \/ SaveFailed(n) \/ SavedAway(n) \/ RetryEnds(n) \/ DeleteEnds(n)

Spec == Init /\ [][Next]_vars

-----------------------------------------------------------------------------
\* What stands in the editor is committed, or waits for the timer or for a save under
\* way, or the editor says that it could not; a commit by another, or by an editor that was
\* left before, may have replaced it.  After a save whose answer was lost, an undo to the
\* text known before is committed by nobody, but the editor says "Unsaved changes".
NoEditForgotten ==
    Editing /\ ~ed.timer /\ ~Saving =>
      \/ ed.save = "error" \/ file.text = ed.draft \/ file.by = "other"
      \/ ed.save = "dirty" /\ ed.draft = ed.synced
=============================================================================
