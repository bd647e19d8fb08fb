------------------------------ MODULE NewIssue -------------------------------
(***************************************************************************)
(* The dialog of a new issue (src/apps/web/features/modals/                *)
(* create-issue.tsx) and the draft it keeps in the browser (features/      *)
(* issues/stores/draft-store.ts), so that closing it or a reload does not  *)
(* lose what was typed.                                                    *)
(***************************************************************************)
EXTENDS Integers, Sequences

CONSTANTS
    Text,      \* titles and descriptions, 0 the empty one
    Idea,      \* ideas of the workspace
    Rootless,  \* those without a root issue
    None,      \* no idea, no status
    Slots,     \* bound: requests in flight
    MaxSteps   \* bound: typing, choices, submissions, reloads and failures, together

VARIABLES
    modal,     \* modal store: closed, or the data the dialog was opened with
    form,      \* the dialog and its two editors
    draft,     \* draft store, persisted
    store,     \* issue store: the issues it holds
    call,      \* requests in flight
    row,       \* server: the issues that were created
    typed,     \* bookkeeping: what the user typed last
    excused,   \* bookkeeping: which of it the dialog is known to lose
    left       \* what is left of MaxSteps

vars == <<modal, form, draft, store, call, row, typed, excused, left>>

Idle == [kind |-> "idle", status |-> "idle", old |-> FALSE, title |-> 0, desc |-> 0,
         issue |-> 0]
Request(kind) == [Idle EXCEPT !.kind = kind, !.status = "sent"]
Send(n, r) == /\ call[n].kind = "idle" /\ \A m \in Slots : m < n => call[m].kind # "idle"
              /\ call' = [call EXCEPT ![n] = r]
Freed(n) == call' = [call EXCEPT ![n] = Idle]
Ended(n, kind, status) == call[n].kind = kind /\ call[n].status = status
Spend == left > 0 /\ left' = left - 1

-----------------------------------------------------------------------------
(* The dialog opens and closes.                                            *)

Closed == [open |-> FALSE, idea |-> None, status |-> None]

\* What the sidebar, the "+" of a column and of a section of the list, and the editor
\* of an idea open the dialog with.
Data == {[Closed EXCEPT !.open = TRUE], [Closed EXCEPT !.open = TRUE, !.status = "done"]}
          \cup {[open |-> TRUE, idea |-> i, status |-> "todo"] : i \in Idea}

Empty == [title |-> 0, desc |-> 0, pic |-> "none", idea |-> None, status |-> "todo",
          rest |-> "none"]

\* pic: the image in the description, made: bookkeeping, issues made for this dialog by requests that were answered.
NoForm == [title |-> 0, desc |-> 0, pic |-> "none", idea |-> None, status |-> "todo",
           rest |-> "none", ideas |-> {}, loading |-> FALSE, submitting |-> FALSE,
           timer |-> FALSE, made |-> 0]

\* The data go before the draft, and are not written to it.
Mounted(d) ==
    [NoForm EXCEPT !.title = draft.title, !.desc = draft.desc, !.pic = draft.pic,
                   !.idea = IF d.idea # None THEN d.idea ELSE draft.idea,
                   !.status = IF d.status # None THEN d.status ELSE draft.status,
                   !.rest = draft.rest, !.loading = TRUE]

Open(d, n) ==
    /\ ~modal.open /\ modal' = d /\ form' = Mounted(d) /\ Send(n, Request("ideas"))
    /\ UNCHANGED <<draft, store, row, typed, excused, left>>

\* The dialog is unmounted and the timer of its description with it.
Shut == /\ modal' = Closed /\ form' = NoForm
Unsaved == IF form.timer THEN {"desc"} ELSE {}

Close ==
    /\ modal.open /\ Shut
    /\ call' = [n \in Slots |-> [call[n] EXCEPT !.old = call[n].kind # "idle"]]
    /\ excused' = excused \cup Unsaved
    /\ UNCHANGED <<draft, store, row, typed, left>>

\* The draft is all that a reload keeps; the server still gets what was sent.
Reload ==
    /\ Spend /\ Shut /\ store' = {} /\ excused' = excused \cup Unsaved
    /\ call' = [n \in Slots |-> IF call[n].kind = "create" /\ call[n].status = "sent"
                               THEN [call[n] EXCEPT !.kind = "orphan", !.old = TRUE] ELSE Idle]
    /\ UNCHANGED <<draft, row, typed>>

-----------------------------------------------------------------------------
(* The fields: each is written to the draft as well, the description after *)
(* half a second without a change.                                         *)

\* Mutation: the title waits for the dialog.
TitleStays(t) ==
    /\ modal.open /\ form.title # t /\ Spend
    /\ form' = [form EXCEPT !.title = t] /\ UNCHANGED draft
    /\ typed' = [typed EXCEPT !.title = t] /\ excused' = excused \ {"title"}
    /\ UNCHANGED <<modal, store, call, row>>

UpdateTitle(t) ==
    /\ modal.open /\ form.title # t /\ Spend
    /\ form' = [form EXCEPT !.title = t] /\ draft' = [draft EXCEPT !.title = t]
    /\ typed' = [typed EXCEPT !.title = t] /\ excused' = excused \ {"title"}
    /\ UNCHANGED <<modal, store, call, row>>

Describe(t) ==
    /\ modal.open /\ form.desc # t /\ Spend
    /\ form' = [form EXCEPT !.desc = t, !.timer = TRUE]
    /\ typed' = [typed EXCEPT !.desc = t] /\ excused' = excused \ {"desc"}
    /\ UNCHANGED <<modal, draft, store, call, row>>

DescriptionTimer ==
    /\ form.timer /\ form' = [form EXCEPT !.timer = FALSE]
    /\ draft' = [draft EXCEPT !.desc = form.desc, !.pic = form.pic]
    /\ UNCHANGED <<modal, store, call, row, typed, excused, left>>

\* The idea that came with the data is locked.
UpdateIdea(i) ==
    /\ modal.open /\ modal.idea = None /\ i \in form.ideas /\ form.idea # i /\ Spend
    /\ form' = [form EXCEPT !.idea = i] /\ draft' = [draft EXCEPT !.idea = i]
    /\ UNCHANGED <<modal, store, call, row, typed, excused>>

UpdateStatus(s) ==
    /\ modal.open /\ form.status # s /\ Spend
    /\ form' = [form EXCEPT !.status = s] /\ draft' = [draft EXCEPT !.status = s]
    /\ UNCHANGED <<modal, store, call, row, typed, excused>>

\* Priority, assignee and due date.
UpdateRest(v) ==
    /\ modal.open /\ form.rest # v /\ Spend
    /\ form' = [form EXCEPT !.rest = v] /\ draft' = [draft EXCEPT !.rest = v]
    /\ UNCHANGED <<modal, store, call, row, typed, excused>>

\* An image is shown while it is uploaded, and its address is in the text meanwhile.
UploadFile(n) ==
    /\ modal.open /\ form.pic = "none" /\ Spend
    /\ form' = [form EXCEPT !.pic = "blob", !.timer = TRUE] /\ Send(n, Request("upload"))
    /\ UNCHANGED <<modal, draft, store, row, typed, excused>>

-----------------------------------------------------------------------------
(* Submitting.                                                             *)

\* handleSubmit, by the button or by Enter in the title; the fields stay open.
Submit(n) ==
    /\ modal.open /\ form.title # 0 /\ ~form.submitting
    /\ form.idea \in form.ideas \ Rootless /\ Spend
    /\ form' = [form EXCEPT !.submitting = TRUE]
    /\ Send(n, [Request("create") EXCEPT !.title = form.title, !.desc = form.desc])
    /\ UNCHANGED <<modal, draft, store, row, typed, excused>>

\* CreateIssue, for a dialog that may be gone, or failing before or after it commits.
CreateIssue(n) ==
    LET r == call[n] IN
    /\ r.kind \in {"create", "orphan"} /\ r.status = "sent"
    /\ \/ /\ row' = Append(row, [title |-> r.title, desc |-> r.desc])
          /\ \/ /\ call' = [call EXCEPT ![n] = IF r.kind = "orphan" THEN Idle ELSE
                              [r EXCEPT !.status = "ok", !.issue = Len(row')]]
                /\ form' = [form EXCEPT !.made = IF r.old THEN @ ELSE @ + 1]
                /\ UNCHANGED left
             \/ /\ r.kind = "create" /\ Spend /\ UNCHANGED form
                /\ call' = [call EXCEPT ![n].status = "error"]
       \/ /\ UNCHANGED <<row, form>> /\ Spend
          /\ call' = [call EXCEPT ![n] = IF r.kind = "orphan" THEN Idle
                                         ELSE [r EXCEPT !.status = "error"]]
    /\ UNCHANGED <<modal, draft, store, typed, excused>>

\* ListIdeas and UploadFile.
Answer(n) ==
    /\ call[n].kind \in {"ideas", "upload"} /\ call[n].status = "sent"
    /\ \/ call' = [call EXCEPT ![n].status = "ok"] /\ UNCHANGED left
       \/ call' = [call EXCEPT ![n].status = "error"] /\ Spend
    /\ UNCHANGED <<modal, form, draft, store, row, typed, excused>>

IdeasArrive(n) ==
    /\ Ended(n, "ideas", "ok") \/ Ended(n, "ideas", "error")
    /\ Freed(n)
    /\ form' = (IF call[n].old THEN form
                ELSE [form EXCEPT !.loading = FALSE,
                                  !.ideas = IF call[n].status = "ok" THEN Idea ELSE @])
    /\ UNCHANGED <<modal, draft, store, row, typed, excused, left>>

\* The image gets its address, or goes.
Uploaded(n) ==
    /\ Ended(n, "upload", "ok") \/ Ended(n, "upload", "error")
    /\ Freed(n)
    /\ form' = (IF call[n].old THEN form
                ELSE IF call[n].status = "ok"
                THEN [form EXCEPT !.pic = "link", !.timer = TRUE]
                ELSE [form EXCEPT !.pic = "none", !.timer = TRUE])
    /\ UNCHANGED <<modal, draft, store, row, typed, excused, left>>

\* The draft of now is cleared and the dialog of now is closed, whichever dialog sent
\* the request: what was typed since is lost.
Created(n) ==
    LET r == call[n] IN
    /\ Ended(n, "create", "ok") /\ Shut
    /\ store' = store \cup {r.issue} /\ draft' = Empty
    /\ call' = [m \in Slots |-> IF m = n THEN Idle
                               ELSE [call[m] EXCEPT !.old = call[m].kind # "idle"]]
    /\ excused' = excused \cup {f \in {"title", "desc"} : r[f] # typed[f]}
    /\ UNCHANGED <<row, typed, left>>

CreateFailed(n) ==
    /\ Ended(n, "create", "error") /\ Freed(n)
    /\ form' = (IF call[n].old THEN form ELSE [form EXCEPT !.submitting = FALSE])
    /\ UNCHANGED <<modal, draft, store, row, typed, excused, left>>

-----------------------------------------------------------------------------
Init ==
    /\ modal = Closed /\ form = NoForm /\ store = {} /\ row = <<>> /\ excused = {}
    /\ draft \in {Empty} \cup {[Empty EXCEPT !.title = 1, !.desc = 1, !.idea = i] : i \in Idea}
    /\ typed = [title |-> draft.title, desc |-> draft.desc]
    /\ call = [n \in Slots |-> Idle] /\ left = MaxSteps

Next ==
    \/ Close \/ Reload \/ DescriptionTimer
    \/ \E t \in Text : UpdateTitle(t) \/ Describe(t)
    \/ \E i \in Idea : UpdateIdea(i)
    \/ \E s \in {"todo", "done"} : UpdateStatus(s)
    \/ \E v \in {"none", "some"} : UpdateRest(v)
    \/ \E n \in Slots :
         \/ \E d \in Data : Open(d, n)
         \/ UploadFile(n) \/ Submit(n) \/ CreateIssue(n) \/ Answer(n) \/ IdeasArrive(n)
         \/ Uploaded(n) \/ Created(n) \/ CreateFailed(n)

Spec == Init /\ [][Next]_vars

-----------------------------------------------------------------------------
\* What was typed last is in the draft, or waits in the dialog for its timer, or is in an
\* issue, whatever is closed, reloaded, submitted or refused.  The exceptions: the
\* description of the last half second, and what was typed while a request was under way.
TypedIsKept ==
    \A f \in {"title", "desc"} :
      \/ draft[f] = typed[f]
      \/ f = "desc" /\ form.timer /\ form.desc = typed.desc
      \/ \E k \in DOMAIN row : row[k][f] = typed[f]
      \/ typed[f] = 0 \/ f \in excused

\* A dialog makes one issue, unless a request failed on the way back and is tried again.
OneIssue == form.made <= 1
=============================================================================
