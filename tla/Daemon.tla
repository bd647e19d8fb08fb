-------------------------------- MODULE Daemon --------------------------------
(* The local daemon (server/internal/daemon/daemon.go): a poll loop that claims    *)
(* tasks while a slot of its semaphore is free, a goroutine for each task that     *)
(* starts it, runs the agent's command-line tool and reports the outcome, and      *)
(* beside it a goroutine that asks every five seconds whether the task was         *)
(* cancelled.  The server's side of each request is what TaskQueue says of the     *)
(* row, cut down to its status.  A request is taken or not, and its answer arrives *)
(* or not: the client gives up after a while (client.go:52).                       *)
EXTENDS Integers, FiniteSets

CONSTANTS
    MaxTask,        \* bound: tasks
    Issue,          \* issues the tasks are of
    MaxConcurrent   \* MaxConcurrentTasks of the configuration

ASSUME DaemonAssumption == MaxTask \in Nat /\ MaxConcurrent \in Nat /\ Issue # {}

Task == 1..MaxTask

VARIABLES
    row,     \* server: status and issue of each task
    loop,    \* the poll loop: between claims, in a claim, ended, gone with the process
    sem,     \* slots of the semaphore that are taken
    hand,    \* per task: where handleTask is
    proc,    \* per task: the agent's process
    watch,   \* per task: the goroutine that polls for a cancellation
    shut,    \* the daemon's context is cancelled
    began,   \* history: tasks whose start the server took
    unheard  \* history: tasks whose last report never reached the server

daemonVars == <<row, loop, sem, hand, proc, watch, shut, began, unheard>>

Statuses == {"none", "queued", "dispatched", "running", "completed", "failed", "cancelled", "swept"}
Active == {"dispatched", "running"}
NoHandler == {"none", "gone"}

\* Failed outright, blocked as the tool says, or done.
Results == {"error", "blocked", "completed"}

Init ==
    /\ row = [t \in Task |-> [status |-> "none", issue |-> CHOOSE i \in Issue : TRUE]]
    /\ loop = "top" /\ sem = 0
    /\ hand = [t \in Task |-> "none"]
    /\ proc = [t \in Task |-> "off"]
    /\ watch = [t \in Task |-> "off"]
    /\ shut = FALSE /\ began = {} /\ unheard = {}

SetStatus(t, s) == row' = [row EXCEPT ![t].status = s]

HandlerAt(t, pc) == hand[t] = pc
HandlerTo(t, pc) == hand' = [hand EXCEPT ![t] = pc]

-----------------------------------------------------------------------------
\* The server, on its own

CreateAgentTask(t, i) ==
    /\ row[t].status = "none" /\ \A u \in Task : u < t => row[u].status # "none"
    /\ row' = [row EXCEPT ![t] = [status |-> "queued", issue |-> i]]
    /\ UNCHANGED <<loop, sem, hand, proc, watch, shut, began, unheard>>

CancelAgentTask(t) ==
    /\ row[t].status \in Active \cup {"queued"}
    /\ SetStatus(t, "cancelled")
    /\ UNCHANGED <<loop, sem, hand, proc, watch, shut, began, unheard>>

\* FailStaleTasks and FailTasksForOfflineRuntimes write failed as well; the model
\* keeps who wrote it.
SweepTask(t) ==
    /\ row[t].status \in Active
    /\ SetStatus(t, "swept")
    /\ UNCHANGED <<loop, sem, hand, proc, watch, shut, began, unheard>>

\* One task of an issue at a time.
Claimable(t) ==
    /\ row[t].status = "queued"
    /\ \A u \in Task : row[u].issue = row[t].issue => row[u].status \notin Active

-----------------------------------------------------------------------------
\* pollLoop

AcquireSlot ==
    /\ loop = "top" /\ ~shut /\ sem < MaxConcurrent
    /\ loop' = "claim" /\ sem' = sem + 1
    /\ UNCHANGED <<row, hand, proc, watch, shut, began, unheard>>

\* Mutation: an error keeps the slot.
ClaimFailsKeepsSlot ==
    /\ loop = "claim"
    /\ loop' = "top"
    /\ \/ UNCHANGED <<row, sem>>
       \/ /\ \E t \in Task : Claimable(t) /\ SetStatus(t, "dispatched")
          /\ sem' = sem - 1
    /\ UNCHANGED <<hand, proc, watch, shut, began, unheard>>

\* An error, or no task for this runtime: the slot is given back.  A claim may have
\* been taken although its answer is lost.
ClaimFails ==
    /\ loop = "claim"
    /\ loop' = "top" /\ sem' = sem - 1
    /\ \/ UNCHANGED row
       \/ \E t \in Task : Claimable(t) /\ SetStatus(t, "dispatched")
    /\ UNCHANGED <<hand, proc, watch, shut, began, unheard>>

\* The goroutine of the task takes the slot over.
ClaimAnswered(t) ==
    /\ loop = "claim" /\ ~shut /\ Claimable(t)
    /\ SetStatus(t, "dispatched")
    /\ HandlerTo(t, "start") /\ loop' = "top"
    /\ UNCHANGED <<sem, proc, watch, shut, began, unheard>>

Shutdown ==
    /\ ~shut /\ shut' = TRUE
    /\ UNCHANGED <<row, loop, sem, hand, proc, watch, began, unheard>>

StopLoop ==
    /\ loop = "top" /\ shut
    /\ loop' = "stopped"
    /\ UNCHANGED <<row, sem, hand, proc, watch, shut, began, unheard>>

\* The loop waits for the goroutines, at most 30 seconds when the cancellation found
\* it awake and without a limit when it found it asleep; the process may be killed
\* meanwhile, and whatever still ran ends with it.
Exit ==
    /\ loop = "stopped"
    /\ loop' = "exited" /\ sem' = 0
    /\ hand' = [t \in Task |-> IF hand[t] = "none" THEN "none" ELSE "gone"]
    /\ proc' = [t \in Task |-> "off"]
    /\ watch' = [t \in Task |-> "off"]
    /\ UNCHANGED <<row, shut, began, unheard>>

-----------------------------------------------------------------------------
\* handleTask

\* The deferred calls: runCancel, and the slot goes back.
Return(t) ==
    /\ HandlerTo(t, "gone")
    /\ sem' = sem - 1
    /\ watch' = [watch EXCEPT ![t] = "off"]

\* A request that changes the row from one of these statuses to another.  Taken, it
\* leads to next when the answer arrives, and else to otherwise, as does a refusal
\* or a request that was not taken.  A cancelled context sends nothing.
Request(t, from, to, next, otherwise) ==
    \/ /\ ~shut /\ row[t].status \in from
       /\ SetStatus(t, to) /\ (next \/ otherwise)
    \/ UNCHANGED row /\ otherwise

\* Mutation: a start that fails is logged, and the tool runs.
StartTaskGoesOn(t) ==
    /\ HandlerAt(t, "start")
    /\ Request(t, {"dispatched"}, "running", HandlerTo(t, "launch"), HandlerTo(t, "launch"))
    /\ began' = IF row' = row THEN began ELSE began \cup {t}
    /\ watch' = [watch EXCEPT ![t] = "on"]
    /\ UNCHANGED <<loop, sem, proc, shut, unheard>>

\* StartTask; when it fails the task is reported as failed.
StartTask(t) ==
    /\ HandlerAt(t, "start")
    /\ Request(t, {"dispatched"}, "running", HandlerTo(t, "launch"), HandlerTo(t, "fail"))
    /\ began' = IF row' = row THEN began ELSE began \cup {t}
    /\ watch' = IF hand'[t] = "launch" THEN [watch EXCEPT ![t] = "on"] ELSE watch
    /\ UNCHANGED <<loop, sem, proc, shut, unheard>>

\* runTask prepares the environment and starts the tool, or fails to.
Launch(t) ==
    /\ HandlerAt(t, "launch")
    /\ \/ proc' = [proc EXCEPT ![t] = "on"] /\ HandlerTo(t, "wait")
       \/ UNCHANGED proc /\ HandlerTo(t, "error")
    /\ UNCHANGED <<row, loop, sem, watch, shut, began, unheard>>

\* The tool ends when it likes...
AgentEnds(t) ==
    /\ proc[t] = "on"
    /\ proc' = [proc EXCEPT ![t] = "off"]
    /\ \E res \in Results : HandlerTo(t, res)
    /\ UNCHANGED <<row, loop, sem, watch, shut, began, unheard>>

\* Mutation: runTask is given the daemon's context instead of its own.
AgentKilledByShutdown(t) == shut /\ AgentEnds(t)

\* ... or because its context is cancelled.
AgentKilled(t) ==
    /\ watch[t] \in {"cancelling", "seen"} \/ shut
    /\ AgentEnds(t)

\* The select on cancelledByPoll after runTask.
DiscardSeen(t) ==
    /\ hand[t] \in Results /\ watch[t] = "seen"
    /\ Return(t)
    /\ UNCHANGED <<row, loop, proc, shut, began, unheard>>

ReportError(t) ==
    /\ HandlerAt(t, "error") /\ watch[t] # "seen"
    /\ HandlerTo(t, "fail")
    /\ UNCHANGED <<row, loop, sem, proc, watch, shut, began, unheard>>

\* GetTaskStatus before the report.
CheckCancelled(t) ==
    /\ hand[t] \in {"blocked", "completed"} /\ watch[t] # "seen"
    /\ \/ ~shut /\ row[t].status = "cancelled" /\ Return(t)
       \/ /\ HandlerTo(t, IF hand[t] = "blocked" THEN "fail" ELSE "complete")
          /\ UNCHANGED <<sem, watch>>
    /\ UNCHANGED <<row, loop, proc, shut, began, unheard>>

\* CompleteTask; FailTask is the fallback.
CompleteTask(t) ==
    /\ HandlerAt(t, "complete")
    /\ Request(t, {"running"}, "completed", Return(t),
               HandlerTo(t, "fail") /\ UNCHANGED <<sem, watch>>)
    /\ UNCHANGED <<loop, proc, shut, began, unheard>>

\* FailTask: nothing comes after it, whatever it answers.
FailTask(t) ==
    /\ HandlerAt(t, "fail")
    /\ Request(t, Active, "failed", Return(t), Return(t))
    /\ unheard' = IF row' = row THEN unheard \cup {t} ELSE unheard
    /\ UNCHANGED <<loop, proc, shut, began>>

\* The cancellation goroutine: runCancel first, then cancelledByPoll is closed.
PollSeesCancelled(t) ==
    /\ watch[t] = "on" /\ ~shut
    /\ row[t].status = "cancelled"
    /\ watch' = [watch EXCEPT ![t] = "cancelling"]
    /\ UNCHANGED <<row, loop, sem, hand, proc, shut, began, unheard>>

PollTells(t) ==
    /\ watch[t] = "cancelling"
    /\ watch' = [watch EXCEPT ![t] = "seen"]
    /\ UNCHANGED <<row, loop, sem, hand, proc, shut, began, unheard>>

Handle(t) == \/ StartTask(t) \/ Launch(t) \/ DiscardSeen(t) \/ ReportError(t)
             \/ CheckCancelled(t) \/ CompleteTask(t) \/ FailTask(t) \/ AgentKilled(t)

Server == \E t \in Task : CancelAgentTask(t) \/ SweepTask(t)
                          \/ \E i \in Issue : CreateAgentTask(t, i)

Loop == \/ AcquireSlot \/ ClaimFails \/ Shutdown \/ StopLoop \/ Exit
        \/ \E t \in Task : ClaimAnswered(t)

Next == \/ Server \/ Loop
        \/ \E t \in Task : Handle(t) \/ AgentEnds(t) \/ PollSeesCancelled(t) \/ PollTells(t)

\* Goroutines are scheduled, requests are answered or time out, a process whose
\* context is cancelled is killed, and the ticker finds a server that answers in
\* the end.  The tool itself may take as long as it likes.
Fairness == \A t \in Task : /\ WF_daemonVars(Handle(t))
                            /\ WF_daemonVars(PollSeesCancelled(t))
                            /\ WF_daemonVars(PollTells(t))

Spec == Init /\ [][Next]_daemonVars /\ Fairness

-----------------------------------------------------------------------------
\* Properties

TypeOK ==
    /\ row \in [Task -> [status : Statuses, issue : Issue]]
    /\ loop \in {"top", "claim", "stopped", "exited"}
    /\ sem \in 0..MaxConcurrent
    /\ hand \in [Task -> NoHandler \cup Results \cup {"start", "launch", "wait", "complete", "fail"}]
    /\ proc \in [Task -> {"on", "off"}]
    /\ watch \in [Task -> {"off", "on", "cancelling", "seen"}]
    /\ shut \in BOOLEAN
    /\ began \subseteq Task /\ unheard \subseteq Task

\* handleTask's deferred release (daemon.go:760) and its fallback reports: the slots
\* that are taken are those of the goroutines that live and of the claim in flight,
\* and a goroutine that is gone leaves no active row behind, unless its last report
\* did not reach the server or the process exited under it.
DaemonGivesBack ==
    /\ sem = Cardinality({t \in Task : hand[t] \notin NoHandler})
             + (IF loop = "claim" THEN 1 ELSE 0)
    /\ \A t \in Task :
         hand[t] = "gone" /\ row[t].status \in Active => t \in unheard \/ loop = "exited"

\* Per-issue serialization (agent.sql:88) as the machine sees it: a tool runs only for
\* a task whose start the server took, and two tools work on one issue only when the
\* server ended one of the tasks itself, a cancellation that is not noticed yet or a
\* timeout, which the daemon does not look for (daemon.go:827).
DaemonRunsAlone ==
    \A t \in Task : proc[t] = "on" =>
        /\ t \in began
        /\ row[t].status \notin {"completed", "failed"}
        /\ \A u \in Task \ {t} :
             proc[u] = "on" /\ row[u].issue = row[t].issue =>
                 \E x \in {t, u} : row[x].status \in {"cancelled", "swept"}

\* The cancellation poll (daemon.go:817): when the server cancelled a task, its tool
\* is stopped and its goroutine ends, without waiting for the tool.
CancelledRunStops ==
    \A t \in Task : row[t].status = "cancelled" ~> hand[t] \in NoHandler
=============================================================================
