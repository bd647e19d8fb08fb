----------------------------- MODULE AgentsPage -----------------------------
(***************************************************************************)
(* The agents page (src/apps/web/app/(dashboard)/agents/page.tsx): the     *)
(* list and the selection in the URL, the detail with a tab of drafts that *)
(* are saved by hand, the create dialog, and the requests behind them.     *)
(* The detail is keyed by the selected agent and a tab exists only while   *)
(* it is shown; a request outlives both.                                   *)
(***************************************************************************)
EXTENDS Integers, FiniteSets

CONSTANTS
    Agent,     \* agent ids
    Runtime,   \* runtime ids
    Skill,     \* skill ids
    None,      \* no agent, no runtime
    Slots,     \* bound: requests in flight
    MaxSteps   \* bound: clicks, background changes and failures, together

VARIABLES
    store,     \* workspace store: the rows of agents it holds
    view,      \* [chosen, archived, mobile]: URL parameter, filter, layout
    detail,    \* the mounted AgentDetail and its tab
    dialog,    \* the mounted CreateAgentDialog
    runtimes,  \* runtime store: runtimes
    call,      \* requests in flight
    row,       \* server: table agent
    left       \* what is left of MaxSteps

vars == <<store, view, detail, dialog, runtimes, call, row, left>>

Drafts == {"instructions", "tools", "triggers", "settings"}
Tabs   == Drafts \cup {"skills", "tasks"}

\* A text or a list is told apart by whom it was written for, and when.
Written(a, n) == [of |-> a, n |-> n]
NewRow(a) == [exists |-> TRUE, archived |-> FALSE, skills |-> {},
              field |-> [d \in Drafts |-> Written(a, 1)]]
NoRow(a)  == [NewRow(a) EXCEPT !.exists = FALSE]

Idle == [kind |-> "idle", agent |-> None, tab |-> "tasks", value |-> Written(None, 0),
         skills |-> {}, mine |-> FALSE, then |-> "none", status |-> "idle",
         rows |-> [a \in Agent |-> NoRow(a)]]

Request(kind, a) == [Idle EXCEPT !.kind = kind, !.agent = a, !.status = "sent",
                                 !.mine = TRUE]
FreeSlots == {n \in Slots : call[n].kind = "idle"}
Send(n, r) == n \in FreeSlots /\ call' = [call EXCEPT ![n] = r]
Spend == left > 0 /\ left' = left - 1

-----------------------------------------------------------------------------
(* What is on the screen.                                                  *)

Filtered(st, v) == {a \in Agent : st[a].exists /\ st[a].archived = v.archived}
ArchivedCount(st) == Cardinality({a \in Agent : st[a].exists /\ st[a].archived})

First(S) == IF S = {} THEN None ELSE CHOOSE a \in S : TRUE

\* The agent of the URL, or on a wide screen the first of the list.
Effective(st, v) ==
    IF v.chosen # None THEN v.chosen
    ELSE IF v.mobile THEN None ELSE First(Filtered(st, v))
Selected(st, v) == LET a == Effective(st, v)
                   IN  IF a # None /\ st[a].exists THEN a ELSE None

\* The effect that moves the URL when the chosen agent leaves the list.
Reselected(st, v) ==
    IF v.chosen # None /\ v.chosen \notin Filtered(st, v)
      THEN [v EXCEPT !.chosen = First(Filtered(st, v))] ELSE v

ListShown   == ~view.mobile \/ Selected(store, view) = None
DetailShown == Selected(store, view) # None

OpenTab(st, a, tab) ==
    [tab |-> tab, saving |-> FALSE, confirm |-> FALSE, picker |-> FALSE,
     loading |-> tab = "tasks",
     draft |-> IF a # None /\ tab \in Drafts THEN st[a].field[tab]
                                            ELSE Written(None, 0)]

\* The effects of the tabs when the store is replaced: a list is an object of
\* its own in every answer, a text is compared, the settings are left alone.
Synced(st, a) ==
    IF \/ detail.tab \in {"tools", "triggers"}
       \/ detail.tab = "instructions" /\ st[a].field[detail.tab] # store[a].field[detail.tab]
      THEN [detail EXCEPT !.draft = st[a].field[detail.tab]]
      ELSE detail

Orphaned(c) == [n \in Slots |-> [c[n] EXCEPT !.mine = FALSE]]

\* Mutation: without its key the detail lives on for the next agent.
RenderUnkeyed(st, v, c) ==
    LET w == Reselected(st, v)  a == Selected(st, w)
    IN  /\ store' = st /\ view' = w /\ call' = c
        /\ detail' = IF a # None /\ Selected(store, view) # None THEN Synced(st, a)
                     ELSE OpenTab(st, a, "instructions")

\* A render with new rows or a new selection: the key of AgentDetail.
Render(st, v, c) ==
    LET w == Reselected(st, v)  a == Selected(st, w)
        same == a # None /\ a = Selected(store, view)
    IN  /\ store' = st /\ view' = w
        /\ detail' = IF same THEN Synced(st, a) ELSE OpenTab(st, a, "instructions")
        /\ call' = IF same THEN c ELSE Orphaned(c)

-----------------------------------------------------------------------------
(* The list.                                                               *)

SelectAgent(a) ==
    /\ ListShown /\ a \in Filtered(store, view) /\ a # view.chosen /\ Spend
    /\ Render(store, [view EXCEPT !.chosen = a], call)
    /\ UNCHANGED <<dialog, runtimes, row>>

ToggleArchived ==
    /\ ListShown /\ ArchivedCount(store) > 0 /\ Spend
    /\ Render(store, [view EXCEPT !.archived = ~@], call)
    /\ UNCHANGED <<dialog, runtimes, row>>

Back ==
    /\ view.mobile /\ DetailShown /\ Spend
    /\ Render(store, [view EXCEPT !.chosen = None], call)
    /\ UNCHANGED <<dialog, runtimes, row>>

-----------------------------------------------------------------------------
(* The create dialog.                                                      *)

Closed == [open |-> FALSE, creating |-> FALSE, named |-> FALSE, runtime |-> None]

OpenCreate ==
    /\ ~dialog.open /\ Spend
    /\ dialog' = [Closed EXCEPT !.open = TRUE, !.runtime = First(runtimes)]
    /\ UNCHANGED <<store, view, detail, runtimes, call, row>>

FillDialog ==
    /\ dialog.open /\ ~dialog.named
    /\ \E r \in runtimes \cup {dialog.runtime} :
         dialog' = [dialog EXCEPT !.named = TRUE, !.runtime = r]
    /\ UNCHANGED <<store, view, detail, runtimes, call, row, left>>

\* The button is disabled while creating; Enter in the name field is not.
SubmitCreate(n) ==
    /\ dialog.open /\ dialog.named /\ dialog.runtime # None /\ Spend
    /\ dialog' = [dialog EXCEPT !.creating = TRUE]
    /\ Send(n, [Request("create", None) EXCEPT !.then = "select"])
    /\ UNCHANGED <<store, view, detail, runtimes, row>>

CancelCreate ==
    /\ dialog.open
    /\ dialog' = Closed
    /\ UNCHANGED <<store, view, detail, runtimes, call, row, left>>

\* fetchRuntimes ends; an open dialog without a runtime takes the first.
RuntimesArrive ==
    /\ runtimes = {} /\ runtimes' = Runtime
    /\ dialog' = IF dialog.open /\ dialog.runtime = None
                   THEN [dialog EXCEPT !.runtime = First(Runtime)] ELSE dialog
    /\ UNCHANGED <<store, view, detail, call, row, left>>

-----------------------------------------------------------------------------
(* The detail.                                                             *)

ChooseTab(tab) ==
    /\ DetailShown /\ detail.tab # tab /\ Spend
    /\ detail' = [OpenTab(store, Selected(store, view), tab)
                    EXCEPT !.confirm = detail.confirm]
    /\ call' = Orphaned(call)
    /\ UNCHANGED <<store, view, dialog, runtimes, row>>

Edit(tab, k) ==
    /\ DetailShown /\ detail.tab = tab /\ Spend
    /\ detail' = [detail EXCEPT !.draft = Written(Selected(store, view), k)]
    /\ UNCHANGED <<store, view, dialog, runtimes, call, row>>

TypeInstructions(k) == Edit("instructions", k)

\* Adding, connecting and removing a tool.
EditTools(k) == Edit("tools", k)

\* Adding, toggling, configuring and removing a trigger.
EditTriggers(k) == Edit("triggers", k)

EditSettings(k) == Edit("settings", k)

\* The list of tasks, or none after a failure.
TasksArrive ==
    /\ DetailShown /\ detail.tab = "tasks" /\ detail.loading
    /\ detail' = [detail EXCEPT !.loading = FALSE]
    /\ UNCHANGED <<store, view, dialog, runtimes, call, row, left>>

Dirty == detail.draft # store[Selected(store, view)].field[detail.tab]

\* Saving the draft of a tab for the agent of this render; a blank name is
\* refused by the settings tab.
SaveDraft(n) ==
    /\ DetailShown /\ detail.tab \in Drafts /\ Dirty /\ ~detail.saving
    /\ detail.tab = "settings" => detail.draft.n # 0
    /\ detail' = [detail EXCEPT !.saving = TRUE]
    /\ Send(n, [Request("save", Selected(store, view)) EXCEPT
                  !.tab = detail.tab, !.value = detail.draft])
    /\ UNCHANGED <<store, view, dialog, runtimes, row, left>>

Available == Skill \ store[Selected(store, view)].skills

OpenPicker ==
    /\ DetailShown /\ detail.tab = "skills" /\ ~detail.saving /\ Available # {}
    /\ ~detail.picker
    /\ detail' = [detail EXCEPT !.picker = TRUE]
    /\ UNCHANGED <<store, view, dialog, runtimes, call, row, left>>

ClosePicker ==
    /\ DetailShown /\ detail.picker
    /\ detail' = [detail EXCEPT !.picker = FALSE]
    /\ UNCHANGED <<store, view, dialog, runtimes, call, row, left>>

\* The whole list is sent, made from the skills of this render.
AddSkill(n, s) ==
    /\ DetailShown /\ detail.picker /\ ~detail.saving /\ s \in Available /\ Spend
    /\ detail' = [detail EXCEPT !.saving = TRUE]
    /\ Send(n, [Request("skills", Selected(store, view)) EXCEPT
                  !.skills = store[Selected(store, view)].skills \cup {s}])
    /\ UNCHANGED <<store, view, dialog, runtimes, row>>

RemoveSkill(n, s) ==
    /\ DetailShown /\ detail.tab = "skills" /\ ~detail.saving /\ Spend
    /\ s \in store[Selected(store, view)].skills
    /\ detail' = [detail EXCEPT !.saving = TRUE]
    /\ Send(n, [Request("skills", Selected(store, view)) EXCEPT
                  !.skills = store[Selected(store, view)].skills \ {s}])
    /\ UNCHANGED <<store, view, dialog, runtimes, row>>

AskArchive ==
    /\ DetailShown /\ ~store[Selected(store, view)].archived /\ ~detail.confirm
    /\ detail' = [detail EXCEPT !.confirm = TRUE]
    /\ UNCHANGED <<store, view, dialog, runtimes, call, row, left>>

CancelArchive ==
    /\ DetailShown /\ detail.confirm
    /\ detail' = [detail EXCEPT !.confirm = FALSE]
    /\ UNCHANGED <<store, view, dialog, runtimes, call, row, left>>

ConfirmArchive(n) ==
    /\ DetailShown /\ detail.confirm /\ Spend
    /\ detail' = [detail EXCEPT !.confirm = FALSE]
    /\ Send(n, Request("archive", Selected(store, view)))
    /\ UNCHANGED <<store, view, dialog, runtimes, row>>

Restore(n) ==
    /\ DetailShown /\ store[Selected(store, view)].archived /\ Spend
    /\ Send(n, Request("restore", Selected(store, view)))
    /\ UNCHANGED <<store, view, detail, dialog, runtimes, row>>

-----------------------------------------------------------------------------
(* Requests.                                                               *)

Applied(r) ==
    CASE r.kind = "save"    -> [row EXCEPT ![r.agent].field[r.tab] = r.value]
      [] r.kind = "skills"  -> [row EXCEPT ![r.agent].skills = r.skills]
      [] r.kind = "archive" -> [row EXCEPT ![r.agent].archived = TRUE]
      [] r.kind = "restore" -> [row EXCEPT ![r.agent].archived = FALSE]
      [] r.kind = "create"  -> [row EXCEPT ![r.agent] = NewRow(r.agent)]
      [] OTHER -> row

Answer(n) ==
    /\ call[n].status = "sent"
    /\ \/ \E a \in IF call[n].kind = "create" THEN {b \in Agent : ~row[b].exists}
                                              ELSE {call[n].agent} :
            /\ row' = Applied([call[n] EXCEPT !.agent = a])
            /\ call' = [call EXCEPT ![n].status = "ok", ![n].agent = a,
                          ![n].rows = IF call[n].kind = "refresh" THEN row
                                                                  ELSE @]
            /\ UNCHANGED left
       \/ Spend /\ call' = [call EXCEPT ![n].status = "error"] /\ UNCHANGED row
    /\ UNCHANGED <<store, view, detail, dialog, runtimes>>

\* The write was accepted: refreshAgents.
Accepted(n) ==
    /\ call[n].status = "ok" /\ call[n].kind \notin {"idle", "refresh"}
    /\ call' = [call EXCEPT ![n] =
                 [Request("refresh", call[n].agent) EXCEPT
                    !.mine = call[n].mine,
                    !.then = IF call[n].kind = "create" THEN "select"
                             ELSE IF call[n].kind \in {"save", "skills"} THEN "saved"
                             ELSE "none"]]
    /\ UNCHANGED <<store, view, detail, dialog, runtimes, row, left>>

\* The finally of the tab that asked, while it is mounted.
Unsaved(d, r) == IF r.mine /\ r.then = "saved"
                   THEN [d EXCEPT !.saving = FALSE, !.picker = FALSE] ELSE d

\* refreshAgents ends, with rows or with a toast; then the handler goes on.
Refreshed(n) ==
    /\ call[n].kind = "refresh" /\ call[n].status \in {"ok", "error"}
    /\ LET st == IF call[n].status = "ok" THEN call[n].rows ELSE store
           c  == [call EXCEPT ![n] = Idle]
           w  == IF call[n].then = "select" THEN [view EXCEPT !.chosen = call[n].agent]
                                            ELSE view
           v  == Reselected(st, w)
           a  == Selected(st, v)
           same == a # None /\ a = Selected(store, view)
       IN  /\ store' = st /\ view' = v
           /\ detail' = IF same
                          THEN Unsaved(IF call[n].status = "ok" THEN Synced(st, a)
                                                                ELSE detail, call[n])
                          ELSE OpenTab(st, a, "instructions")
           /\ call' = IF same THEN c ELSE Orphaned(c)
           /\ dialog' = IF call[n].then = "select" THEN Closed ELSE dialog
    /\ UNCHANGED <<runtimes, row, left>>

\* A refused write: a toast, and the spinner of the tab or the dialog ends.
Refused(n) ==
    /\ call[n].status = "error" /\ call[n].kind \notin {"idle", "refresh"}
    /\ call' = [call EXCEPT ![n] = Idle]
    /\ detail' = IF call[n].mine /\ call[n].kind \in {"save", "skills"}
                   THEN [detail EXCEPT !.saving = FALSE,
                           !.picker = @ /\ call[n].kind # "skills"]
                   ELSE detail
    /\ dialog' = IF call[n].kind = "create" /\ dialog.open
                   THEN [dialog EXCEPT !.creating = FALSE] ELSE dialog
    /\ UNCHANGED <<store, view, runtimes, row, left>>

\* An agent event of somebody else: the store is refreshed (useRealtimeSync).
BackgroundRefresh(n) ==
    /\ Spend /\ Send(n, [Request("refresh", None) EXCEPT !.mine = FALSE])
    /\ UNCHANGED <<store, view, detail, dialog, runtimes, row>>

-----------------------------------------------------------------------------
Init ==
    /\ \E S \in {Agent, {First(Agent)}} :
         row = [a \in Agent |-> IF a \in S THEN NewRow(a) ELSE NoRow(a)]
    /\ store = row
    /\ view \in [chosen : {None}, archived : {FALSE}, mobile : BOOLEAN]
    /\ detail = OpenTab(row, Selected(row, view), "instructions")
    /\ dialog = Closed /\ runtimes = {} /\ left = MaxSteps
    /\ call = [n \in Slots |-> Idle]

Next ==
    \/ \E a \in Agent : SelectAgent(a)
    \/ ToggleArchived \/ Back
    \/ OpenCreate \/ FillDialog \/ CancelCreate \/ RuntimesArrive
    \/ \E tab \in Tabs : ChooseTab(tab)
    \/ \E k \in {0, 2} : TypeInstructions(k) \/ EditTools(k) \/ EditTriggers(k)
                         \/ EditSettings(k)
    \/ TasksArrive \/ OpenPicker \/ ClosePicker \/ AskArchive \/ CancelArchive
    \/ \E n \in Slots :
         \/ SubmitCreate(n) \/ SaveDraft(n) \/ ConfirmArchive(n) \/ Restore(n)
         \/ Answer(n) \/ Accepted(n) \/ Refreshed(n) \/ Refused(n)
         \/ BackgroundRefresh(n)
         \/ \E s \in Skill : AddSkill(n, s) \/ RemoveSkill(n, s)

Spec == Init /\ [][Next]_vars

-----------------------------------------------------------------------------
\* What is typed for one agent is never stored with another, whatever is
\* selected, archived or refreshed while drafts are open and saves in flight.
NoCrossWrite ==
    \A a \in Agent : \A d \in Drafts : row[a].field[d].of = a
=============================================================================
