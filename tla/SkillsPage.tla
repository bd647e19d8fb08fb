----------------------------- MODULE SkillsPage -----------------------------
(***************************************************************************)
(* The skills page (src/apps/web/features/skills/components): the list,    *)
(* the editor of a skill with its supporting files, the dialogs, and the   *)
(* skills of the workspace store.  The list of the server carries no files *)
(* (listSkills); the editor fetches them (getSkill) and saves all of them. *)
(* The contents of supporting files are left out: which files there are.   *)
(***************************************************************************)
EXTENDS Integers, Sequences, SequencesExt

CONSTANTS
    Skill,     \* skill ids
    Path,      \* paths of supporting files
    Inside,    \* Inside[p]: the paths that are directories of p
    None,      \* no skill; as a path: SKILL.md
    Slots,     \* bound: requests in flight
    MaxSteps   \* bound: clicks, background changes and failures, together

VARIABLES
    store,     \* workspace store: skills
    view,      \* [chosen, mobile]
    detail,    \* the mounted SkillDetail
    dialog,    \* [open, loading]: the mounted CreateSkillDialog
    call,      \* requests in flight
    row,       \* server: table skill and its files
    left       \* what is left of MaxSteps

vars == <<store, view, detail, dialog, call, row, left>>

Written(s, n) == [of |-> s, n |-> n]
NoSkill  == [exists |-> FALSE, text |-> Written(None, 0), files |-> <<>>]
NewSkill(s) == [exists |-> TRUE, text |-> Written(s, 1), files |-> <<>>]

Idle == [kind |-> "idle", skill |-> None, text |-> Written(None, 0), files |-> <<>>,
         mine |-> FALSE, loaded |-> FALSE, dropped |-> {}, seen |-> <<>>,
         status |-> "idle", chosen |-> FALSE, rest |-> {}]
Request(kind, s) == [Idle EXCEPT !.kind = kind, !.skill = s, !.status = "sent",
                                 !.mine = TRUE]
FreeSlots == {n \in Slots : call[n].kind = "idle"}
Send(n, r) == n \in FreeSlots /\ call' = [call EXCEPT ![n] = r]
Spend == left > 0 /\ left' = left - 1
Saving(s) == {n \in Slots : call[n].kind = "save" /\ call[n].skill = s
                            /\ call[n].status = "sent"}

-----------------------------------------------------------------------------
(* What is on the screen.                                                  *)

Listed(st) == {s \in Skill : st[s].exists}
First(S)   == IF S = {} THEN None ELSE CHOOSE s \in S : TRUE

Selected(st, v) ==
    IF v.chosen # None THEN (IF v.chosen \in Listed(st) THEN v.chosen ELSE None)
    ELSE IF v.mobile THEN None ELSE First(Listed(st))

\* The effect that clears the URL when its skill is gone.
Reselected(st, v) ==
    IF v.chosen # None /\ v.chosen \notin Listed(st) THEN [v EXCEPT !.chosen = None]
                                                     ELSE v

ListShown   == ~view.mobile \/ Selected(store, view) = None
DetailShown == Selected(store, view) # None

NoDetail == [text |-> Written(None, 0), files |-> <<>>, path |-> None,
             saving |-> FALSE, loading |-> FALSE, confirm |-> FALSE,
             adding |-> FALSE, editing |-> FALSE, tree |-> TRUE, loaded |-> FALSE,
             early |-> FALSE, dropped |-> {}]

\* Bookkeeping for FileLostUnloaded: loaded, the editor has every file of the server
\* that it did not drop; early, it was saved before it had.
\* A SkillDetail mounts with what the store holds and fetches the skill.
\* A phone shows the tree of files only when asked to.
Mounted(st, s) == [NoDetail EXCEPT !.text = st[s].text, !.files = st[s].files,
                                   !.loading = TRUE, !.tree = ~view.mobile]

\* The effect on the basic fields; the files are left alone.
Synced(st, s, d) == IF st[s].text # store[s].text THEN [d EXCEPT !.text = st[s].text]
                                                  ELSE d

\* A render with the stores st, v, the requests c and, for the same skill, d.
Render(st, v, c, d) ==
    LET w == Reselected(st, v)  s == Selected(st, w)
        orphans == [n \in Slots |-> [c[n] EXCEPT !.mine = FALSE]]
    IN  /\ store' = st /\ view' = w
        /\ IF s # None /\ s = Selected(store, view)
             THEN detail' = (IF st[s].exists /\ store[s].exists THEN Synced(st, s, d)
                                                               ELSE d)
                  /\ call' = c
             ELSE IF s = None
             THEN detail' = NoDetail /\ call' = orphans
             ELSE /\ detail' = Mounted(st, s)
                  /\ \E n \in {m \in Slots : c[m].kind = "idle"} :
                       call' = [orphans EXCEPT ![n] = Request("load", s)]

-----------------------------------------------------------------------------
(* The list and the dialog.                                                *)

SelectSkill(s) ==
    /\ ListShown /\ s \in Listed(store) /\ s # view.chosen /\ Spend
    /\ Render(store, [view EXCEPT !.chosen = s], call, detail)
    /\ UNCHANGED <<dialog, row>>

Back ==
    /\ view.mobile /\ DetailShown /\ Spend
    /\ Render(store, [view EXCEPT !.chosen = None], call, detail)
    /\ UNCHANGED <<dialog, row>>

OpenDialog ==
    /\ ~dialog.open /\ Spend
    /\ dialog' = [open |-> TRUE, loading |-> FALSE]
    /\ UNCHANGED <<store, view, detail, call, row>>

CloseDialog ==
    /\ dialog.open
    /\ dialog' = [open |-> FALSE, loading |-> FALSE]
    /\ UNCHANGED <<store, view, detail, call, row, left>>

\* handleCreate and handleImport; Enter does not look at loading.
SubmitDialog(n) ==
    /\ dialog.open /\ Spend
    /\ dialog' = [dialog EXCEPT !.loading = TRUE]
    /\ Send(n, Request("create", None))
    /\ UNCHANGED <<store, view, detail, row>>

-----------------------------------------------------------------------------
(* The editor.                                                             *)

EditText(k) ==
    /\ DetailShown /\ Spend
    /\ detail' = [detail EXCEPT !.text = Written(Selected(store, view), k)]
    /\ UNCHANGED <<store, view, dialog, call, row>>

\* buildTree: a path is lost when an earlier one is its directory or the reverse.
InTree(fs) == {fs[k] : k \in {j \in DOMAIN fs : \A i \in 1..(j - 1) :
                  fs[i] \notin Inside[fs[j]] /\ fs[j] \notin Inside[fs[i]]}}

\* The tree and the viewer are replaced by a skeleton while the files load.
SelectPath(p) ==
    /\ DetailShown /\ detail.tree /\ ~detail.loading /\ detail.path # p
    /\ p \in InTree(detail.files) \cup {None}
    /\ detail' = [detail EXCEPT !.path = p, !.editing = FALSE, !.tree = ~view.mobile]
    /\ UNCHANGED <<store, view, dialog, call, row, left>>

ToggleTree ==
    /\ DetailShown /\ view.mobile
    /\ detail' = [detail EXCEPT !.tree = ~@]
    /\ UNCHANGED <<store, view, dialog, call, row, left>>

ToggleEditing ==
    /\ DetailShown /\ ~detail.loading /\ Spend
    /\ detail' = [detail EXCEPT !.editing = ~@]
    /\ UNCHANGED <<store, view, dialog, call, row>>

OpenAddFile ==
    /\ DetailShown /\ ~detail.adding
    /\ detail' = [detail EXCEPT !.adding = TRUE]
    /\ UNCHANGED <<store, view, dialog, call, row, left>>

AddFile(p) ==
    /\ DetailShown /\ detail.adding /\ ~Contains(detail.files, p) /\ Spend
    /\ detail' = [detail EXCEPT !.files = Append(@, p), !.path = p,
                                !.adding = FALSE, !.editing = FALSE,
                                !.tree = @ /\ ~view.mobile]
    /\ UNCHANGED <<store, view, dialog, call, row>>

CancelAddFile ==
    /\ DetailShown /\ detail.adding
    /\ detail' = [detail EXCEPT !.adding = FALSE]
    /\ UNCHANGED <<store, view, dialog, call, row, left>>

\* A path is there once: the filter of handleDeleteFile leaves out one file.
Without(fs, p) == IF Contains(fs, p) THEN RemoveAt(fs, CHOOSE k \in DOMAIN fs : fs[k] = p)
                                     ELSE fs

DeleteFile ==
    /\ DetailShown /\ detail.path # None /\ Spend
    /\ detail' = [detail EXCEPT !.files = Without(@, detail.path), !.path = None,
                                !.dropped = @ \cup {detail.path}, !.editing = FALSE]
    /\ UNCHANGED <<store, view, dialog, call, row>>

Dirty == LET s == Selected(store, view)
         IN  detail.text # store[s].text \/ detail.files # store[s].files

\* The header, Save with it, is there while the files are still loading.
Save(n) ==
    /\ DetailShown /\ Dirty /\ ~detail.saving /\ Spend
    /\ detail' = [detail EXCEPT !.saving = TRUE, !.early = ~detail.loaded]
    /\ n \in FreeSlots
    /\ LET s == Selected(store, view)
           r == [Request("save", s) EXCEPT
                   !.text = detail.text, !.files = detail.files,
                   !.loaded = detail.loaded, !.dropped = detail.dropped]
       IN  call' = [m \in Slots |-> IF m = n THEN r
                                    ELSE IF m \in Saving(s)
                                         THEN [call[m] EXCEPT !.loaded = FALSE]
                                         ELSE call[m]]
    /\ UNCHANGED <<store, view, dialog, row>>

AskDelete ==
    /\ DetailShown /\ ~detail.confirm
    /\ detail' = [detail EXCEPT !.confirm = TRUE]
    /\ UNCHANGED <<store, view, dialog, call, row, left>>

CancelDelete ==
    /\ DetailShown /\ detail.confirm
    /\ detail' = [detail EXCEPT !.confirm = FALSE]
    /\ UNCHANGED <<store, view, dialog, call, row, left>>

\* handleDelete keeps the selection and the list of this render.
ConfirmDelete(n) ==
    /\ DetailShown /\ detail.confirm /\ Spend
    /\ detail' = [detail EXCEPT !.confirm = FALSE]
    /\ LET s == Selected(store, view) IN
         Send(n, [Request("delete", s) EXCEPT !.chosen = (view.chosen = s),
                                              !.rest = Listed(store) \ {s}])
    /\ UNCHANGED <<store, view, dialog, row>>

-----------------------------------------------------------------------------
(* Requests.                                                               *)

\* refreshSkills captures the store before it asks.
RefreshSkills(n) ==
    /\ Spend
    /\ Send(n, [Request("list", None) EXCEPT !.mine = FALSE,
                  !.seen = [s \in Skill |-> [store[s] EXCEPT !.text = Written(s, 0)]]])
    /\ UNCHANGED <<store, view, detail, dialog, row>>

\* Somebody else edits a skill.
ServerEdits(s) ==
    /\ row[s].exists /\ Spend
    /\ row' = [row EXCEPT ![s].text = Written(s, 3)]
    /\ UNCHANGED <<store, view, detail, dialog, call>>

\* UpdateSkill replaces the files by those of the request.
Applied(r) ==
    CASE r.kind = "save"   -> [row EXCEPT ![r.skill].text = r.text,
                                          ![r.skill].files = r.files]
      [] r.kind = "delete" -> [row EXCEPT ![r.skill] = NoSkill]
      [] r.kind = "create" -> [row EXCEPT ![r.skill] = NewSkill(r.skill)]
      [] OTHER -> row

Answer(n) ==
    LET r == call[n] IN
    /\ r.status = "sent"
    /\ \/ \E s \in IF r.kind = "create" THEN {q \in Skill : ~row[q].exists}
                                        ELSE {r.skill} :
            LET rows == Applied([r EXCEPT !.skill = s]) IN
            /\ (s # None /\ r.kind # "create") => row[s].exists
            /\ row' = rows
            /\ call' = [call EXCEPT ![n].status = "ok", ![n].skill = s,
                 ![n].loaded = IF r.kind = "load" THEN Saving(s) = {} ELSE @,
                 ![n].text = IF s = None THEN @ ELSE rows[s].text,
                 ![n].files = IF s = None THEN @ ELSE rows[s].files,
                 ![n].seen = IF r.kind # "list" THEN @
                             ELSE [q \in Skill |-> [rows[q] EXCEPT
                                                      !.files = r.seen[q].files]]]
            /\ UNCHANGED left
       \/ /\ IF r.skill # None /\ ~row[r.skill].exists THEN UNCHANGED left
                                                       ELSE Spend
          /\ call' = [call EXCEPT ![n].status = "error"]
          /\ UNCHANGED row
    /\ UNCHANGED <<store, view, detail, dialog>>

Upserted(r) == [store EXCEPT ![r.skill] =
                  [exists |-> TRUE, text |-> r.text, files |-> r.files]]
Done(n, kind) == call[n].kind = kind /\ call[n].status = "ok"

\* Mutation: the fetched files go to the store only.
LoadedStoreOnly(n) ==
    /\ Done(n, "load")
    /\ Render(Upserted(call[n]), view, [call EXCEPT ![n] = Idle],
              IF call[n].mine
                THEN [detail EXCEPT !.loaded = call[n].loaded /\ ~detail.early,
                                    !.loading = FALSE]
                ELSE detail)
    /\ UNCHANGED <<dialog, row, left>>

\* getSkill ends: the store and, while mounted, the editor take the files.
Loaded(n) ==
    /\ Done(n, "load")
    /\ Render(Upserted(call[n]), view, [call EXCEPT ![n] = Idle],
              IF call[n].mine
                THEN [detail EXCEPT !.files = call[n].files, !.loading = FALSE,
                                    !.loaded = call[n].loaded /\ ~detail.early]
                ELSE detail)
    /\ UNCHANGED <<dialog, row, left>>

Saved(n) ==
    /\ Done(n, "save")
    /\ Render(Upserted(call[n]), view, [call EXCEPT ![n] = Idle],
              IF call[n].mine THEN [detail EXCEPT !.saving = FALSE] ELSE detail)
    /\ UNCHANGED <<dialog, row, left>>

Created(n) ==
    /\ Done(n, "create")
    /\ Render(Upserted(call[n]), [view EXCEPT !.chosen = call[n].skill],
              [call EXCEPT ![n] = Idle], detail)
    /\ dialog' = [open |-> FALSE, loading |-> FALSE]
    /\ UNCHANGED <<row, left>>

Deleted(n) ==
    /\ Done(n, "delete")
    /\ Render([store EXCEPT ![call[n].skill] = NoSkill],
              IF call[n].chosen THEN [view EXCEPT !.chosen = First(call[n].rest)]
                                ELSE view,
              [call EXCEPT ![n] = Idle], detail)
    /\ UNCHANGED <<dialog, row, left>>

Refreshed(n) ==
    /\ Done(n, "list")
    /\ Render(call[n].seen, view, [call EXCEPT ![n] = Idle], detail)
    /\ UNCHANGED <<dialog, row, left>>

\* A toast; the finally or the catch of the component, while it is mounted.
Refused(n) ==
    /\ call[n].status = "error"
    /\ call' = [call EXCEPT ![n] = Idle]
    /\ detail' = IF ~call[n].mine THEN detail
                 ELSE IF call[n].kind = "save" THEN [detail EXCEPT !.saving = FALSE]
                 ELSE IF call[n].kind = "load" THEN [detail EXCEPT !.loading = FALSE]
                 ELSE detail
    /\ dialog' = IF call[n].kind = "create" THEN [dialog EXCEPT !.loading = FALSE]
                                            ELSE dialog
    /\ UNCHANGED <<store, view, row, left>>

-----------------------------------------------------------------------------
\* A page opened on the list of the server, one of its skills with files.
Init ==
    /\ \E s \in Skill, S \in SUBSET Skill :
         row = [q \in Skill |->
                 IF q = s THEN [NewSkill(q) EXCEPT !.files = SetToSeq(Path)]
                 ELSE IF q \in S THEN NewSkill(q) ELSE NoSkill]
    /\ store = [s \in Skill |-> [row[s] EXCEPT !.files = <<>>]]
    /\ view \in [chosen : {None}, mobile : BOOLEAN]
    /\ dialog = [open |-> FALSE, loading |-> FALSE] /\ left = MaxSteps
    /\ LET s == Selected(store, view) IN
         /\ detail = IF s = None THEN NoDetail ELSE Mounted(store, s)
         /\ call = [n \in Slots |-> IF s # None /\ n = (CHOOSE m \in Slots : TRUE)
                                    THEN Request("load", s) ELSE Idle]

Next ==
    \/ \E s \in Skill : SelectSkill(s) \/ ServerEdits(s)
    \/ Back \/ OpenDialog \/ CloseDialog
    \/ EditText(2) \/ ToggleTree \/ ToggleEditing \/ OpenAddFile \/ CancelAddFile
    \/ DeleteFile \/ AskDelete \/ CancelDelete
    \/ \E p \in Path \cup {None} : SelectPath(p)
    \/ \E p \in Path : AddFile(p)
    \/ \E n \in Slots :
         \/ SubmitDialog(n) \/ Save(n) \/ ConfirmDelete(n) \/ RefreshSkills(n)
         \/ Answer(n) \/ Loaded(n) \/ Saved(n) \/ Created(n) \/ Deleted(n)
         \/ Refreshed(n) \/ Refused(n)

Spec == Init /\ [][Next]_vars

-----------------------------------------------------------------------------
Has(s, p) == row[s].exists /\ Contains(row[s].files, p)

\* A supporting file disappears from a skill only because the user removed it in the
\* editor, or because the editor was saved before it had the files (once it has been, the
\* late files may undo that save in the editor), or because two editors of the skill, one
\* after another, crossed: the second read the files, or saved, with a save of the first
\* still under way.
FileLostUnloaded ==
    \A s \in Skill, p \in Path :
      Has(s, p) /\ ~Has(s, p)' /\ row'[s].exists =>
        \E n \in Slots : /\ call[n].kind = "save" /\ call[n].skill = s
                         /\ ~call[n].loaded \/ p \in call[n].dropped
=============================================================================
