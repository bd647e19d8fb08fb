----------------------------- MODULE IssueFields ----------------------------
(***************************************************************************)
(* The issue page without its thread (src/apps/web/features/issues/        *)
(* components/issue-detail.tsx): the issue is read from the store of       *)
(* issues, its fields are written there before the server is asked, and    *)
(* the events issue:updated and issue:deleted write it too.  The plan      *)
(* panel is drawn from the list of task runs, fetched on task events.      *)
(***************************************************************************)
EXTENDS Integers, Sequences

CONSTANTS
    Slots,     \* bound: requests in flight
    MaxWire,   \* bound: events on their way
    MaxRev,    \* bound: plan revisions
    MaxSteps   \* bound: clicks, background changes and failures, together

VARIABLES
    store,     \* issue store: the row it holds of this issue
    view,      \* state of IssueDetail
    runs,      \* taskRuns: the latest completed plan task in it
    call,      \* requests in flight
    wire,      \* events on their way to this client
    row,       \* server: the issue
    plan,      \* server: the latest completed plan task of the issue
    broken,    \* bookkeeping for FieldsConverge
    left       \* what is left of MaxSteps

vars == <<store, view, runs, call, wire, row, plan, broken, left>>

\* "status" stands for every field that a menu or a picker changes.
Field == {"title", "status", "description"}
Value == 0..1      \* 0: an empty description
NoPlan == [rev |-> 0, ready |-> FALSE]

Idle == [kind |-> "idle", status |-> "idle", field |-> "title", value |-> 0,
         seen |-> <<>>, mine |-> TRUE]
Request(kind) == [Idle EXCEPT !.kind = kind, !.status = "sent"]
Free(c) == {n \in Slots : c[n].kind = "idle" /\ \A m \in Slots : m < n => c[m].kind # "idle"}
Send(n, r) == n \in Free(call) /\ call' = [call EXCEPT ![n] = r]
Spend == left > 0 /\ left' = left - 1
Publish(e) == Len(wire) < MaxWire /\ wire' = Append(wire, e)

\* Neither the skeleton nor "does not exist" is drawn.
Shown == ~view.gone /\ ~view.loading /\ store.present

\* canConfirmPlan
CanConfirm == store.stage = "plan_ready" /\ runs.rev > 0 /\ runs.ready

\* The effect on !!issue: a row that is not in the store is fetched.  The editors
\* are unmounted with the page, and the timer of the description with them.
Render(st, v, c) ==
    /\ store' = st
    /\ IF v.gone \/ st.present = store.present THEN view' = v /\ call' = c
       ELSE IF st.present THEN view' = [v EXCEPT !.loading = FALSE] /\ call' = c
       ELSE /\ view' = [v EXCEPT !.loading = TRUE, !.typed = FALSE]
            /\ \E n \in Free(c) : call' = [c EXCEPT ![n] = Request("load")]

-----------------------------------------------------------------------------
(* The user.                                                               *)

\* handleUpdateField: the whole issue is kept for the rollback.
Update(n, f, v, r) ==
    /\ store' = [store EXCEPT !.fields[f] = v]
    /\ Send(n, [r EXCEPT !.field = f, !.value = v, !.seen = store])

\* The menu of the header, and the pickers of the sidebar when it is open.
PickInMenu(n, v) ==
    /\ Shown /\ Spend
    /\ Update(n, "status", v, Request("update"))
    /\ UNCHANGED <<view, runs, wire, row, plan, broken>>

PickInSidebar(n, v) == view.sidebar /\ PickInMenu(n, v)

ToggleSidebar ==
    /\ Shown
    /\ view' = [view EXCEPT !.sidebar = ~@]
    /\ UNCHANGED <<store, runs, call, wire, row, plan, broken, left>>

BlurTitle(n, v) ==
    /\ Shown /\ v # store.fields["title"] /\ Spend
    /\ Update(n, "title", v, Request("update"))
    /\ UNCHANGED <<view, runs, wire, row, plan, broken>>

TypeDescription(v) ==
    /\ Shown /\ Spend
    /\ view' = [view EXCEPT !.typed = TRUE, !.draft = v]
    /\ UNCHANGED <<store, runs, call, wire, row, plan, broken>>

\* 1500 ms later; an empty description is sent as no field at all.
DescriptionTimer(n) ==
    /\ view.typed
    /\ Update(n, "description", view.draft,
              Request(IF view.draft = 0 THEN "nothing" ELSE "update"))
    /\ view' = [view EXCEPT !.typed = FALSE]
    /\ UNCHANGED <<runs, wire, row, plan, broken, left>>

DeleteDialog(open) ==
    /\ Shown /\ view.dialog # open
    /\ view' = [view EXCEPT !.dialog = open]
    /\ UNCHANGED <<store, runs, call, wire, row, plan, broken, left>>

\* handleDelete: the dialog stays open, its button disabled meanwhile.
ConfirmDelete(n) ==
    /\ Shown /\ view.dialog /\ ~view.deleting /\ Spend
    /\ view' = [view EXCEPT !.deleting = TRUE]
    /\ Send(n, Request("delete"))
    /\ UNCHANGED <<store, runs, wire, row, plan, broken>>

\* handleConfirmPlan: the request does not name the revision on the screen.
ConfirmPlan(n) ==
    /\ Shown /\ CanConfirm /\ ~view.confirming /\ Spend
    /\ view' = [view EXCEPT !.confirming = TRUE]
    /\ Send(n, Request("confirm"))
    /\ UNCHANGED <<store, runs, wire, row, plan, broken>>

\* The previous or the next issue, or any other page.
Leave ==
    /\ ~view.gone /\ Spend
    /\ view' = [view EXCEPT !.gone = TRUE, !.typed = FALSE]
    /\ UNCHANGED <<store, runs, call, wire, row, plan, broken>>

-----------------------------------------------------------------------------
(* The server and the others.                                              *)

Updated(r) == [kind |-> "updated", row |-> r, own |-> FALSE]
TaskEvent  == [kind |-> "task", row |-> row, own |-> FALSE]
Gone       == [row EXCEPT !.present = FALSE]

SomeoneEdits(f, v) ==
    /\ row.present /\ Spend
    /\ row' = [row EXCEPT !.fields[f] = v] /\ Publish(Updated(row'))
    /\ UNCHANGED <<store, view, runs, call, plan, broken>>

SomeoneDeletes ==
    /\ row.present /\ Spend
    /\ row' = Gone /\ Publish([TaskEvent EXCEPT !.kind = "deleted"])
    /\ UNCHANGED <<store, view, runs, call, plan, broken>>

\* A comment makes the agent plan again; the stage follows in an event.
Replans ==
    /\ row.present /\ row.stage = "plan_ready" /\ Spend
    /\ row' = [row EXCEPT !.stage = "planning"] /\ Publish(Updated(row'))
    /\ UNCHANGED <<store, view, runs, call, plan, broken>>

\* The plan task completes: its own event and that of the stage.
PlanCompletes(ready) ==
    /\ row.present /\ row.stage = "planning" /\ plan.rev < MaxRev
    /\ Len(wire) + 2 <= MaxWire /\ Spend
    /\ row' = [row EXCEPT !.stage = "plan_ready"]
    /\ plan' = [rev |-> plan.rev + 1, ready |-> ready]
    /\ wire' = wire \o <<Updated(row'), TaskEvent>>
    /\ UNCHANGED <<store, view, runs, call, broken>>

\* What a request changes, and the snapshot or the plan that answers it.
Applied(r) ==
    CASE r.kind = "update"  -> [row EXCEPT !.fields[r.field] = r.value]
      [] r.kind = "confirm" -> [row EXCEPT !.stage = "building"]
      [] r.kind = "delete"  -> Gone
      [] OTHER -> row

Accepted(r) ==
    /\ r.kind # "runs" => row.present
    /\ r.kind = "confirm" => row.stage = "plan_ready" /\ plan.ready

Answer(n) ==
    LET r == call[n]  now == Applied(r) IN
    /\ r.status = "sent"
    /\ \/ /\ Accepted(r)
          /\ row' = now
          /\ CASE r.kind \in {"update", "nothing", "confirm"} ->
                    Publish([Updated(now) EXCEPT !.own = TRUE])
               [] r.kind = "delete" -> Publish([TaskEvent EXCEPT !.kind = "deleted"])
               [] OTHER -> UNCHANGED wire
          /\ \/ /\ call' = [call EXCEPT ![n].status = "ok",
                     ![n].seen = CASE r.kind = "runs" -> plan
                                   [] r.kind \in {"load", "confirm"} -> now
                                   [] OTHER -> @]
                /\ UNCHANGED left
             \/ call' = [call EXCEPT ![n].status = "error"] /\ Spend
       \/ /\ IF Accepted(r) THEN Spend ELSE UNCHANGED left
          /\ call' = [call EXCEPT ![n].status = "error"]
          /\ UNCHANGED <<row, wire>>
    /\ UNCHANGED <<store, view, runs, plan, broken>>

-----------------------------------------------------------------------------
(* Answers.                                                                *)

Ended(n, kind, status) == call[n].kind = kind /\ call[n].status = status
Freed(n) == [call EXCEPT ![n] = Idle]
Compared == broken' = (broken \/ (store'.present /\ store' # row))

\* addIssue keeps a row that is already there.
Loaded(n) ==
    /\ Ended(n, "load", "ok")
    /\ Render(IF store.present THEN store ELSE call[n].seen,
              [view EXCEPT !.loading = FALSE], Freed(n))
    /\ Compared
    /\ UNCHANGED <<runs, wire, row, plan, left>>

LoadFailed(n) ==
    /\ Ended(n, "load", "error")
    /\ view' = [view EXCEPT !.loading = FALSE] /\ call' = Freed(n)
    /\ UNCHANGED <<store, runs, wire, row, plan, broken, left>>

Kept(n) ==
    /\ Ended(n, "update", "ok") \/ Ended(n, "nothing", "ok")
    /\ call' = Freed(n)
    /\ UNCHANGED <<store, view, runs, wire, row, plan, broken, left>>

\* The whole issue as it was goes back, if it is still in the store.
RolledBack(n) ==
    /\ Ended(n, "update", "error") \/ Ended(n, "nothing", "error")
    /\ store' = (IF store.present THEN call[n].seen ELSE store)
    /\ call' = Freed(n) /\ Compared
    /\ UNCHANGED <<view, runs, wire, row, plan, left>>

RunsArrive(n) ==
    /\ Ended(n, "runs", "ok") \/ Ended(n, "runs", "error")
    /\ runs' = (IF view.gone \/ call[n].status = "error" THEN runs ELSE call[n].seen)
    /\ call' = Freed(n)
    /\ UNCHANGED <<store, view, wire, row, plan, broken, left>>

\* The answer to a confirmation replaces the row; the runs are fetched.
Confirmed(n) ==
    /\ Ended(n, "confirm", "ok") \/ Ended(n, "confirm", "error")
    /\ store' = (IF store.present /\ call[n].status = "ok" THEN call[n].seen ELSE store)
    /\ view' = [view EXCEPT !.confirming = FALSE]
    /\ call' = [call EXCEPT ![n] = IF call[n].status = "ok" THEN Request("runs") ELSE Idle]
    /\ Compared
    /\ UNCHANGED <<runs, wire, row, plan, left>>

\* removeIssue, then the other page.
Deleted(n) ==
    /\ Ended(n, "delete", "ok")
    /\ store' = [store EXCEPT !.present = FALSE]
    /\ view' = [view EXCEPT !.gone = TRUE, !.typed = FALSE]
    /\ call' = Freed(n)
    /\ UNCHANGED <<runs, wire, row, plan, broken, left>>

DeleteFailed(n) ==
    /\ Ended(n, "delete", "error")
    /\ view' = [view EXCEPT !.deleting = FALSE] /\ call' = Freed(n)
    /\ UNCHANGED <<store, runs, wire, row, plan, broken, left>>

-----------------------------------------------------------------------------
(* Events.  The connection is up here; WebSync has it fail.                *)

\* Mutation: an event of the user's own is skipped, as the generic handler does.
OwnSkipped(e) == IF e.own THEN store ELSE IF store.present THEN e.row ELSE store

\* updateIssue on issue:updated, whoever the actor is.
Heard(e) == IF store.present THEN e.row ELSE store

Deliver ==
    /\ wire # <<>> /\ wire' = Tail(wire)
    /\ LET e == Head(wire) IN
         CASE e.kind = "updated" -> store' = Heard(e) /\ UNCHANGED <<view, call>>
           [] e.kind = "deleted" -> Render([store EXCEPT !.present = FALSE], view, call)
           [] e.kind = "task"    ->
                /\ IF view.gone THEN UNCHANGED call
                   ELSE \E n \in Slots : Send(n, Request("runs"))
                /\ UNCHANGED <<store, view>>
    /\ UNCHANGED <<runs, row, plan, broken, left>>

-----------------------------------------------------------------------------
\* The page opens on an issue that the store holds, or not yet.
Init ==
    /\ \E s \in {"planning", "plan_ready"} :
         row = [present |-> TRUE, stage |-> s, fields |-> [f \in Field |-> 0]]
    /\ plan = (IF row.stage = "planning" THEN NoPlan ELSE [rev |-> 1, ready |-> TRUE])
    /\ \E held \in BOOLEAN :
         /\ store = [row EXCEPT !.present = held]
         /\ view = [loading |-> ~held, dialog |-> FALSE, deleting |-> FALSE,
                    confirming |-> FALSE, typed |-> FALSE, draft |-> 0, sidebar |-> TRUE,
                    gone |-> FALSE]
         /\ call = [n \in Slots |-> IF n = 1 THEN Request("runs")
                                    ELSE IF n = 2 /\ ~held THEN Request("load") ELSE Idle]
    /\ runs = NoPlan /\ wire = <<>> /\ broken = FALSE /\ left = MaxSteps

Next ==
    \/ \E v \in Value : TypeDescription(v)
    \/ \E open \in BOOLEAN : DeleteDialog(open)
    \/ ToggleSidebar \/ Leave \/ SomeoneDeletes \/ Replans \/ Deliver
    \/ SomeoneEdits("title", 1)
    \/ \E ready \in BOOLEAN : PlanCompletes(ready)
    \/ \E n \in Slots :
         \/ \E v \in Value : PickInMenu(n, v) \/ PickInSidebar(n, v)
         \/ BlurTitle(n, 1)
         \/ DescriptionTimer(n) \/ ConfirmDelete(n) \/ ConfirmPlan(n) \/ Answer(n)
         \/ Loaded(n) \/ LoadFailed(n) \/ Kept(n) \/ RolledBack(n) \/ RunsArrive(n)
         \/ Confirmed(n) \/ Deleted(n) \/ DeleteFailed(n)

Spec == Init /\ [][Next]_vars

-----------------------------------------------------------------------------
Quiet == wire = <<>> /\ ~view.typed /\ \A n \in Slots : call[n].kind = "idle"

\* When nothing is on its way the store shows the issue of the server, in whatever
\* order the server took the updates: the last event wins.  The exceptions are a
\* rollback and an answer that carried an older row than the server had (broken).
FieldsConverge ==
    Quiet /\ store.present /\ row.present /\ ~broken => store = row
=============================================================================
