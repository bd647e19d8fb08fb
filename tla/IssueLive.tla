----------------------------- MODULE IssueLive ------------------------------
(***************************************************************************)
(* The agent's work on the page of an issue (src/apps/web/features/issues/ *)
(* components/agent-live-card.tsx): the live card of the active task, fed  *)
(* by task events, and the history of the tasks that are over.             *)
(***************************************************************************)
EXTENDS Integers, Sequences, FiniteSets

CONSTANTS
    Task,      \* tasks of the issue: 1..k, in the order of creation
    Slots,     \* bound: requests in flight
    MaxMsg,    \* bound: messages of a task
    MaxWire,   \* bound: events on their way
    MaxSteps   \* bound: clicks, background changes and failures, together

VARIABLES
    card,    \* AgentLiveCard: activeTask (0: null), items, cancelling, the flags
    seen,    \* seenSeqs
    history, \* TaskRunHistory: the list, open, and its entries
    call,    \* requests in flight
    wire,    \* events on their way to this client
    task,    \* server: status and number of messages of each task
    late,    \* bookkeeping: tasks whose end the card could not learn
    left     \* what is left of MaxSteps

vars == <<card, seen, history, call, wire, task, late, left>>

Over   == {"completed", "failed", "cancelled"}
Active == {t \in Task : task[t].status = "active"}   \* dispatched or running
Done   == {t \in Task : task[t].status \in Over}

\* tasks[0], the newest; 0 when there is none.
ActiveTask == IF Active = {} THEN 0 ELSE CHOOSE t \in Active : \A u \in Active : u <= t

Messages(t) == {<<t, k>> : k \in 1..task[t].msgs}

Idle == [kind |-> "idle", status |-> "idle", task |-> 0, msgs |-> {}, list |-> {}]
Request(kind, t) == [Idle EXCEPT !.kind = kind, !.status = "sent", !.task = t]
Send(n, r) == /\ call[n].kind = "idle" /\ \A m \in Slots : m < n => call[m].kind # "idle"
              /\ call' = [call EXCEPT ![n] = r]
Spend == left > 0 /\ left' = left - 1
Ended(n, kind) == call[n].kind = kind /\ call[n].status \in {"ok", "error"}
Freed(n) == call' = [call EXCEPT ![n] = Idle]
Publish(e) == Len(wire) < MaxWire /\ wire' = Append(wire, e)
Event(kind, t) == [kind |-> kind, task |-> t, seq |-> task[t].msgs + 1]

\* Answers that still name t when its end is heard will show it again.
Naming(t) == \E n \in Slots : call[n].kind \in {"mount", "dispatch"} /\ call[n].status = "ok"
                              /\ call[n].task = t

NoCard == [task |-> 0, items |-> {}, cancelling |-> FALSE, stuck |-> FALSE, scroll |-> TRUE]

-----------------------------------------------------------------------------
(* The user.                                                               *)

\* handleCancel; the button is not drawn while the card is stuck to the top.
Cancel(n) ==
    /\ card.task # 0 /\ ~card.stuck /\ ~card.cancelling /\ Spend
    /\ card' = [card EXCEPT !.cancelling = TRUE]
    /\ Send(n, Request("cancel", card.task))
    /\ UNCHANGED <<seen, history, wire, task, late>>

\* Scrolling past the card sticks it; scrolling in its list, or "Latest" there.
ScrollPage ==
    /\ card.task # 0 /\ Spend /\ card' = [card EXCEPT !.stuck = ~@]
    /\ UNCHANGED <<seen, history, call, wire, task, late>>
ScrollItems ==
    /\ card.task # 0 /\ ~card.stuck /\ card.items # {} /\ Spend
    /\ card' = [card EXCEPT !.scroll = ~@]
    /\ UNCHANGED <<seen, history, call, wire, task, late>>

Listed == {t \in Task : <<t, "over">> \in history.list}

\* The history is drawn once there is a finished task; an entry loads its messages
\* when it is opened for the first time, or again while that has not answered.
OpenEntry(t, n) ==
    /\ history.open /\ t \in Listed /\ t \notin history.entries /\ Spend
    /\ history' = [history EXCEPT !.entries = @ \cup {t}]
    /\ (IF t \in DOMAIN history.loaded THEN UNCHANGED call ELSE Send(n, Request("messages", t)))
    /\ UNCHANGED <<card, seen, wire, task, late>>
ShutEntry(t) ==
    /\ history.open /\ t \in history.entries
    /\ history' = [history EXCEPT !.entries = @ \ {t}]
    /\ UNCHANGED <<card, seen, call, wire, task, late, left>>
OpenHistory ==
    /\ Listed # {} /\ Spend /\ history' = [history EXCEPT !.open = ~@]
    /\ UNCHANGED <<card, seen, call, wire, task, late>>

-----------------------------------------------------------------------------
(* The server and the daemon.                                              *)

Dispatch(t) ==
    /\ task[t].status = "queued" /\ Spend
    /\ task' = [task EXCEPT ![t].status = "active"] /\ Publish(Event("dispatch", t))
    /\ UNCHANGED <<card, seen, history, call, late>>

Report(t) ==
    /\ t \in Active /\ task[t].msgs < MaxMsg
    /\ task' = [task EXCEPT ![t].msgs = @ + 1] /\ Publish(Event("message", t))
    /\ UNCHANGED <<card, seen, history, call, late, left>>

\* Completed, failed, or cancelled; a cancellation of all tasks of the issue
\* publishes nothing.
Finish(t, s) ==
    /\ t \in Active /\ Spend
    /\ task' = [task EXCEPT ![t].status = s]
    /\ \/ Publish(Event(s, t)) /\ UNCHANGED late
       \/ s = "cancelled" /\ late' = late \cup {t} /\ UNCHANGED wire
    /\ UNCHANGED <<card, seen, history, call>>

Answer(n) ==
    LET r == call[n]  ok == [call EXCEPT ![n].status = "ok"] IN
    /\ r.status = "sent"
    /\ \/ /\ r.kind \in {"mount", "dispatch"}
          /\ call' = [ok EXCEPT ![n].task = ActiveTask] /\ UNCHANGED <<wire, task, left>>
       \/ /\ r.kind \in {"items", "messages"}
          /\ call' = [ok EXCEPT ![n].msgs = Messages(r.task)] /\ UNCHANGED <<wire, task, left>>
       \/ /\ r.kind = "history" /\ UNCHANGED <<wire, task, left>>
          /\ call' = [ok EXCEPT ![n].list =
                        {<<t, IF t \in Done THEN "over" ELSE "not">> : t \in Task}]
       \/ /\ r.kind = "cancel" /\ task[r.task].status \notin Over
          /\ task' = [task EXCEPT ![r.task].status = "cancelled"]
          /\ Publish(Event("cancelled", r.task)) /\ call' = ok /\ UNCHANGED left
       \/ /\ IF r.kind = "cancel" /\ task[r.task].status \in Over THEN UNCHANGED left ELSE Spend
          /\ call' = [call EXCEPT ![n].status = "error"] /\ UNCHANGED <<wire, task>>
    /\ UNCHANGED <<card, seen, history, late>>

\* Nothing of the card is fetched again when the connection is back.
ConnectionDrops ==
    /\ wire # <<>> /\ Spend /\ wire' = <<>>
    /\ late' = late \cup {wire[i].task : i \in DOMAIN wire}
    /\ UNCHANGED <<card, seen, history, call, task>>

-----------------------------------------------------------------------------
(* Events.                                                                 *)

\* A message of any task of the issue is listed, with or without an active task.
OnMessage ==
    /\ wire # <<>> /\ Head(wire).kind = "message" /\ wire' = Tail(wire)
    /\ LET m == <<Head(wire).task, Head(wire).seq>> IN
         IF m \in seen THEN UNCHANGED <<card, seen>>
         ELSE seen' = seen \cup {m} /\ card' = [card EXCEPT !.items = @ \cup {m}]
    /\ UNCHANGED <<history, call, task, late, left>>

\* Mutation: an end that is not a success is left to the history.
OnEndCompleted(n) ==
    /\ wire # <<>> /\ Head(wire).kind \in Over /\ wire' = Tail(wire)
    /\ (IF Head(wire).kind = "completed"
        THEN card' = [card EXCEPT !.task = 0, !.items = {}, !.cancelling = FALSE, !.stuck = FALSE]
        ELSE UNCHANGED card)
    /\ seen' = {}
    /\ late' = late \cup {t \in {Head(wire).task} : Naming(t)}
    /\ Send(n, Request("history", 0))
    /\ UNCHANGED <<history, task, left>>

\* task:completed, task:failed and task:cancelled, of whichever task of the issue;
\* the history is fetched again.
OnEnd(n) ==
    /\ wire # <<>> /\ Head(wire).kind \in Over /\ wire' = Tail(wire)
    /\ card' = [card EXCEPT !.task = 0, !.items = {}, !.cancelling = FALSE, !.stuck = FALSE]
    /\ seen' = {}
    /\ late' = late \cup {t \in {Head(wire).task} : Naming(t)}
    /\ Send(n, Request("history", 0))
    /\ UNCHANGED <<history, task, left>>

OnDispatch(n) ==
    /\ wire # <<>> /\ Head(wire).kind = "dispatch" /\ wire' = Tail(wire)
    /\ (IF card.task # 0 THEN UNCHANGED call ELSE Send(n, Request("dispatch", 0)))
    /\ UNCHANGED <<card, seen, history, task, late, left>>

-----------------------------------------------------------------------------
(* Answers.                                                                *)

\* The card shows the task of the answer, over or not, even null; its messages are
\* fetched next.
Mounted(n) ==
    /\ Ended(n, "mount")
    /\ IF call[n].status = "error" THEN Freed(n) /\ UNCHANGED card
       ELSE /\ card' = [card EXCEPT !.task = call[n].task]
            /\ call' = [call EXCEPT ![n] = IF call[n].task = 0 THEN Idle
                                           ELSE Request("items", call[n].task)]
    /\ UNCHANGED <<seen, history, wire, task, late, left>>

\* They replace the items; the events that were faster stay among the seen.
ItemsArrive(n) ==
    /\ Ended(n, "items") /\ Freed(n)
    /\ IF call[n].status = "error" THEN UNCHANGED <<card, seen>>
       ELSE /\ card' = [card EXCEPT !.items = call[n].msgs]
            /\ seen' = seen \cup call[n].msgs
    /\ UNCHANGED <<history, wire, task, late, left>>

\* The card starts empty, whatever it showed, and without the messages of before.
Dispatched(n) ==
    /\ Ended(n, "dispatch") /\ Freed(n)
    /\ IF call[n].status = "error" \/ call[n].task = 0 THEN UNCHANGED <<card, seen>>
       ELSE card' = [card EXCEPT !.task = call[n].task, !.items = {}] /\ seen' = {}
    /\ UNCHANGED <<history, wire, task, late, left>>

\* After a success only the event ends the spinner.
Cancelled(n) ==
    /\ Ended(n, "cancel") /\ Freed(n)
    /\ card' = [card EXCEPT !.cancelling = @ /\ call[n].status = "ok"]
    /\ UNCHANGED <<seen, history, wire, task, late, left>>

HistoryArrives(n) ==
    /\ Ended(n, "history") /\ Freed(n)
    /\ history' = (IF call[n].status = "error" THEN history
                   ELSE [history EXCEPT !.list = call[n].list])
    /\ UNCHANGED <<card, seen, wire, task, late, left>>

\* A failure is an entry without data, for good.
MessagesArrive(n) ==
    /\ Ended(n, "messages") /\ Freed(n)
    /\ history' = [history EXCEPT !.loaded =
                     [t \in DOMAIN @ \cup {call[n].task} |->
                        IF t = call[n].task THEN call[n].msgs ELSE @[t]]]
    /\ UNCHANGED <<card, seen, wire, task, late, left>>

-----------------------------------------------------------------------------
Init ==
    /\ card = NoCard /\ seen = {}
    /\ history = [list |-> {}, open |-> FALSE, entries |-> {}, loaded |-> <<>>]
    /\ call = [n \in Slots |-> IF n = 1 THEN Request("mount", 0)
                               ELSE IF n = 2 THEN Request("history", 0) ELSE Idle]
    /\ wire = <<>> /\ late = {}
    /\ \E s \in {"queued", "active"} :
         task = [t \in Task |-> [status |-> IF t = 1 THEN s ELSE "queued", msgs |-> 0]]
    /\ left = MaxSteps

Next ==
    \/ ScrollPage \/ ScrollItems \/ OpenHistory \/ ConnectionDrops \/ OnMessage
    \/ \E t \in Task : Dispatch(t) \/ Report(t) \/ ShutEntry(t)
    \/ \E t \in Task, s \in Over : Finish(t, s)
    \/ \E n \in Slots :
         \/ \E t \in Task : OpenEntry(t, n)
         \/ Cancel(n) \/ Answer(n) \/ OnEnd(n) \/ OnDispatch(n) \/ Mounted(n)
         \/ ItemsArrive(n) \/ Dispatched(n) \/ Cancelled(n) \/ HistoryArrives(n)
         \/ MessagesArrive(n)

Spec == Init /\ [][Next]_vars

-----------------------------------------------------------------------------
\* When nothing is under way, the card says that an agent works only while it does,
\* unless the end of the task was never told, was lost with the connection, or was
\* heard before an answer that still named the task.
LiveMeansLive ==
    wire = <<>> /\ (\A n \in Slots : call[n].kind = "idle") /\ card.task # 0 =>
      card.task \in Active \cup late
=============================================================================
