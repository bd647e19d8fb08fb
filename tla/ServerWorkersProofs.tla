------------------------- MODULE ServerWorkersProofs -------------------------
(* Theorems about the local daemon, for any number of tasks, issues and slots, and *)
(* about the pull-request jobs, whose invariant PullRequestsProofs proves.         *)
EXTENDS ServerWorkers, FiniteSetTheorems, TLAPS

Handlers == {t \in Task : hand[t] \notin NoHandler}

\* Everything but the range of sem, which follows from Slots.
Typed ==
    /\ row \in [Task -> [status : Statuses, issue : Issue]]
    /\ loop \in {"top", "claim", "stopped", "exited"}
    /\ sem \in Int /\ sem <= MaxConcurrent
    /\ hand \in [Task -> NoHandler \cup Results \cup {"start", "launch", "wait", "complete", "fail"}]
    /\ proc \in [Task -> {"on", "off"}]
    /\ watch \in [Task -> {"off", "on", "cancelling", "seen"}]
    /\ shut \in BOOLEAN
    /\ began \subseteq Task /\ unheard \subseteq Task

Slots == sem = Cardinality(Handlers) + (IF loop = "claim" THEN 1 ELSE 0)

\* A goroutine has a task that was claimed, and no claim takes it again.
HandledOnce == \A t \in Task : hand[t] # "none" => row[t].status \notin {"none", "queued"}

ToolsWait == \A t \in Task : proc[t] = "on" => hand[t] = "wait"

\* Past its start and before its end, the row is running or the server ended it.
StartedFirst ==
    \A t \in Task : hand[t] \in {"launch", "wait"} =>
        t \in began /\ row[t].status \in {"running", "cancelled", "swept"}

\* One row of an issue is active.
OneActive ==
    \A t, u \in Task : t # u /\ row[t].issue = row[u].issue
                       /\ row[t].status \in Active => row[u].status \notin Active

\* What the cancellation goroutine saw stays true.
SeenIsCancelled == \A t \in Task : watch[t] \in {"cancelling", "seen"} => row[t].status = "cancelled"

GoneIsOver ==
    \A t \in Task : hand[t] = "gone" /\ row[t].status \in Active => t \in unheard \/ loop = "exited"

RunsInv == Typed /\ HandledOnce /\ ToolsWait /\ StartedFirst /\ OneActive /\ SeenIsCancelled /\ GoneIsOver


-----------------------------------------------------------------------------
\* The steps

USE DEF RunsInv, Typed, HandledOnce, ToolsWait, StartedFirst, OneActive, SeenIsCancelled,
        GoneIsOver, Statuses, Active, NoHandler, Results, HandlerAt, HandlerTo

\* What a change of one row leaves.
LEMMA RowAfter ==
    ASSUME Typed, NEW t \in Task, NEW s \in Statuses, SetStatus(t, s)
    PROVE  /\ row' \in [Task -> [status : Statuses, issue : Issue]]
           /\ \A u \in Task : /\ row'[u].issue = row[u].issue
                              /\ row'[u].status = IF u = t THEN s ELSE row[u].status
           /\ row[t].status # s => row' # row
  BY DEF SetStatus

\* A row of an issue becomes active when it is claimed, and then it is the only one.
LEMMA OneActiveAfter ==
    ASSUME Typed, OneActive, NEW t \in Task, NEW s \in Statuses, SetStatus(t, s),
           s \notin Active \/ row[t].status \in Active \/ Claimable(t)
    PROVE  OneActive'
  <1>1. \A u \in Task : /\ row'[u].issue = row[u].issue
                        /\ row'[u].status = IF u = t THEN s ELSE row[u].status
    BY RowAfter
  <1>2. SUFFICES ASSUME NEW u \in Task, NEW v \in Task, u # v, row'[u].issue = row'[v].issue,
                        row'[u].status \in Active, row'[v].status \in Active
                 PROVE  FALSE
    OBVIOUS
  <1>3. CASE u # t /\ v # t
    BY <1>1, <1>2, <1>3
  <1>4. CASE u = t
    BY <1>1, <1>2, <1>4 DEF Claimable
  <1>5. CASE v = t
    BY <1>1, <1>2, <1>5 DEF Claimable
  <1>. QED BY <1>3, <1>4, <1>5

\* Init establishes the invariant.
LEMMA RunsInvInit == ASSUME Init PROVE RunsInv
  <1>. DEFINE first == CHOOSE i \in Issue : TRUE
  <1>1. first \in Issue
    BY DaemonAssumption
  <1>. HIDE DEF first
  <1>2. row = [t \in Task |-> [status |-> "none", issue |-> first]]
    BY DEF Init, first
  <1>3. Typed
    <2>1. row \in [Task -> [status : Statuses, issue : Issue]]
      BY <1>1, <1>2
    <2>2. /\ loop \in {"top", "claim", "stopped", "exited"}
          /\ sem \in Int /\ sem <= MaxConcurrent
      BY DaemonAssumption DEF Init
    <2>3. /\ hand \in [Task -> NoHandler \cup Results \cup {"start", "launch", "wait", "complete", "fail"}]
          /\ proc \in [Task -> {"on", "off"}]
          /\ watch \in [Task -> {"off", "on", "cancelling", "seen"}]
          /\ shut \in BOOLEAN /\ began \subseteq Task /\ unheard \subseteq Task
      BY DEF Init
    <2>. QED BY <2>1, <2>2, <2>3
  <1>4. \A t \in Task : row[t].status = "none" /\ hand[t] = "none" /\ proc[t] = "off" /\ watch[t] = "off"
    BY <1>2 DEF Init
  <1>. QED BY <1>3, <1>4

\* What the server does on its own keeps it.
LEMMA ServerKeeps == ASSUME RunsInv, Server PROVE RunsInv'
  <1>1. PICK t \in Task : CancelAgentTask(t) \/ SweepTask(t) \/ \E i \in Issue : CreateAgentTask(t, i)
    BY DEF Server
  <1>2. CASE CancelAgentTask(t)
    BY <1>2, RowAfter DEF CancelAgentTask
  <1>3. CASE SweepTask(t)
    <2>1. SetStatus(t, "swept") /\ row[t].status \in Active
      BY <1>3 DEF SweepTask
    <2>2. OneActive'
      BY <2>1, OneActiveAfter
    <2>0. /\ row' \in [Task -> [status : Statuses, issue : Issue]]
          /\ row[t].status # "swept" => row' # row
          /\ \A u \in Task : row'[u].status = IF u = t THEN "swept" ELSE row[u].status
      BY <2>1, RowAfter
    <2>4. Typed'
      BY <1>3, <2>1, <2>0, DaemonAssumption DEF SweepTask
    <2>5. HandledOnce' /\ ToolsWait'
      BY <1>3, <2>1, <2>0, DaemonAssumption DEF SweepTask
    <2>6. StartedFirst'
      BY <1>3, <2>1, <2>0, DaemonAssumption DEF SweepTask
    <2>7. SeenIsCancelled' /\ GoneIsOver'
      BY <1>3, <2>1, <2>0, DaemonAssumption DEF SweepTask
    <2>. QED BY <2>2, <2>4, <2>5, <2>6, <2>7
  <1>4. CASE \E i \in Issue : CreateAgentTask(t, i)
    BY <1>4 DEF CreateAgentTask
  <1>. QED BY <1>1, <1>2, <1>3, <1>4

LEMMA LoopKeeps == ASSUME RunsInv, Slots, Loop PROVE RunsInv'
  <1>1. CASE AcquireSlot
    BY <1>1, DaemonAssumption DEF AcquireSlot
  <1>2. CASE ClaimFails
    <2>1. CASE UNCHANGED row
      BY <1>2, <2>1, DaemonAssumption DEF ClaimFails
    <2>2. ASSUME NEW t \in Task, Claimable(t), SetStatus(t, "dispatched") PROVE RunsInv'
      <3>1. OneActive'
        BY <2>2, OneActiveAfter
      <3>2. /\ loop' = "top" /\ sem' = sem - 1 /\ loop = "claim"
            /\ UNCHANGED <<hand, proc, watch, shut, began, unheard>>
        BY <1>2 DEF ClaimFails
      <3>3. row[t].status = "queued" /\ SetStatus(t, "dispatched")
        BY <2>2 DEF Claimable
      <3>0. /\ row' \in [Task -> [status : Statuses, issue : Issue]]
            /\ row[t].status # "dispatched" => row' # row
            /\ \A u \in Task : row'[u].status = IF u = t THEN "dispatched" ELSE row[u].status
        BY <3>3, RowAfter
      <3>4. Typed'
        BY <3>2, <3>3, <3>0, DaemonAssumption DEF Typed
      <3>5. HandledOnce' /\ ToolsWait'
        BY <3>2, <3>3, <3>0, DaemonAssumption DEF Typed
      <3>6. StartedFirst'
        BY <3>2, <3>3, <3>0, DaemonAssumption DEF Typed
      <3>7. SeenIsCancelled' /\ GoneIsOver'
        BY <3>2, <3>3, <3>0, DaemonAssumption DEF Typed
      <3>. QED BY <3>1, <3>4, <3>5, <3>6, <3>7
    <2>. QED BY <1>2, <2>1, <2>2 DEF ClaimFails
  <1>3. CASE Shutdown \/ StopLoop
    BY <1>3 DEF Shutdown, StopLoop
  <1>4. CASE Exit
    BY <1>4, DaemonAssumption DEF Exit
  <1>5. CASE \E t \in Task : ClaimAnswered(t)
    <2>1. PICK t \in Task : ClaimAnswered(t)
      BY <1>5
    <2>2. OneActive'
      BY <2>1, OneActiveAfter DEF ClaimAnswered
    <2>3. SetStatus(t, "dispatched") /\ row[t].status = "queued"
      BY <2>1 DEF ClaimAnswered, Claimable
    <2>. QED BY <2>1, <2>2, <2>3, RowAfter DEF ClaimAnswered
  <1>. QED BY <1>1, <1>2, <1>3, <1>4, <1>5 DEF Loop

LEMMA HandlerKeeps ==
    ASSUME RunsInv, NEW t \in Task, Handle(t) \/ AgentEnds(t) \/ PollSeesCancelled(t) \/ PollTells(t)
    PROVE  RunsInv'
  <1>1. CASE StartTask(t)
    <2>1. CASE row[t].status = "dispatched" /\ SetStatus(t, "running")
      <3>1. OneActive'
        BY <2>1, OneActiveAfter
      <3>2. row' # row
        BY <2>1, RowAfter
      <3>3. HandlerTo(t, "launch") \/ HandlerTo(t, "fail")
        BY <1>1 DEF StartTask, Request
      <3>0. /\ row' \in [Task -> [status : Statuses, issue : Issue]]
            /\ row[t].status # "running" => row' # row
            /\ \A u \in Task : row'[u].status = IF u = t THEN "running" ELSE row[u].status
        BY <2>1, RowAfter
      <3>4. Typed'
        BY <1>1, <2>1, <3>2, <3>3, <3>0, DaemonAssumption DEF StartTask
      <3>5. HandledOnce' /\ ToolsWait'
        BY <1>1, <2>1, <3>2, <3>3, <3>0, DaemonAssumption DEF StartTask
      <3>6. StartedFirst'
        BY <1>1, <2>1, <3>2, <3>3, <3>0, DaemonAssumption DEF StartTask
      <3>7. SeenIsCancelled' /\ GoneIsOver'
        BY <1>1, <2>1, <3>2, <3>3, <3>0, DaemonAssumption DEF StartTask
      <3>. QED BY <3>1, <3>4, <3>5, <3>6, <3>7
    <2>2. CASE UNCHANGED row /\ HandlerTo(t, "fail")
      BY <1>1, <2>2 DEF StartTask
    <2>. QED BY <1>1, <2>1, <2>2 DEF StartTask, Request
  <1>2. CASE Launch(t)
    BY <1>2 DEF Launch
  <1>3. CASE DiscardSeen(t)
    BY <1>3, DaemonAssumption DEF DiscardSeen, Return
  <1>4. CASE ReportError(t)
    BY <1>4 DEF ReportError
  <1>5. CASE CheckCancelled(t)
    <2>1. CASE Return(t) /\ row[t].status = "cancelled"
      BY <1>5, <2>1, DaemonAssumption DEF CheckCancelled, Return
    <2>2. CASE HandlerTo(t, IF hand[t] = "blocked" THEN "fail" ELSE "complete") /\ UNCHANGED <<sem, watch>>
      BY <1>5, <2>2 DEF CheckCancelled
    <2>. QED BY <1>5, <2>1, <2>2 DEF CheckCancelled
  <1>6. CASE CompleteTask(t)
    <2>1. CASE /\ row[t].status = "running" /\ SetStatus(t, "completed")
               /\ Return(t)
      BY <1>6, <2>1, RowAfter, DaemonAssumption DEF CompleteTask, Return
    <2>2. CASE /\ row[t].status = "running" /\ SetStatus(t, "completed")
               /\ HandlerTo(t, "fail") /\ UNCHANGED <<sem, watch>>
      <3>1. OneActive'
        BY <2>2, OneActiveAfter
      <3>0. /\ row' \in [Task -> [status : Statuses, issue : Issue]]
            /\ row[t].status # "completed" => row' # row
            /\ \A u \in Task : row'[u].status = IF u = t THEN "completed" ELSE row[u].status
        BY <2>2, RowAfter
      <3>4. Typed'
        BY <1>6, <2>2, <3>0, DaemonAssumption DEF CompleteTask
      <3>5. HandledOnce' /\ ToolsWait'
        BY <1>6, <2>2, <3>0, DaemonAssumption DEF CompleteTask
      <3>6. StartedFirst'
        BY <1>6, <2>2, <3>0, DaemonAssumption DEF CompleteTask
      <3>7. SeenIsCancelled' /\ GoneIsOver'
        BY <1>6, <2>2, <3>0, DaemonAssumption DEF CompleteTask
      <3>. QED BY <3>1, <3>4, <3>5, <3>6, <3>7
    <2>3. CASE UNCHANGED row /\ HandlerTo(t, "fail") /\ UNCHANGED <<sem, watch>>
      BY <1>6, <2>3 DEF CompleteTask
    <2>. QED BY <1>6, <2>1, <2>2, <2>3 DEF CompleteTask, Request
  <1>7. CASE FailTask(t)
    <2>1. CASE /\ row[t].status \in Active /\ SetStatus(t, "failed")
               /\ Return(t)
      BY <1>7, <2>1, RowAfter, DaemonAssumption DEF FailTask, Return
    <2>2. CASE UNCHANGED row /\ Return(t)
      BY <1>7, <2>2, DaemonAssumption DEF FailTask, Return
    <2>. QED BY <1>7, <2>1, <2>2 DEF FailTask, Request
  <1>8. CASE AgentEnds(t)
    BY <1>8 DEF AgentEnds
  <1>9. CASE PollSeesCancelled(t) \/ PollTells(t)
    BY <1>9 DEF PollSeesCancelled, PollTells
  <1>. QED BY <1>1, <1>2, <1>3, <1>4, <1>5, <1>6, <1>7, <1>8, <1>9 DEF Handle, AgentKilled
-----------------------------------------------------------------------------
\* The slots

\* The goroutines are finitely many.
LEMMA HandlersFinite == IsFiniteSet(Handlers) /\ Cardinality(Handlers) \in Nat
  <1>1. IsFiniteSet(Task)
    BY FS_Interval, DaemonAssumption DEF Task
  <1>2. IsFiniteSet(Handlers)
    BY <1>1, FS_Subset DEF Handlers
  <1>. QED BY <1>2, FS_CardinalityType

\* One more or one less counts as such.
LEMMA HandlersCount ==
    ASSUME NEW t
    PROVE  /\ t \notin Handlers => Cardinality(Handlers \cup {t}) = Cardinality(Handlers) + 1
           /\ t \in Handlers => Cardinality(Handlers \ {t}) = Cardinality(Handlers) - 1
  BY HandlersFinite, FS_AddElement, FS_RemoveElement

LEMMA SlotsInit == ASSUME Init PROVE Slots
  <1>1. Handlers = {}
    BY DEF Init, Handlers
  <1>. QED BY <1>1, FS_EmptySet DEF Init, Slots

\* A goroutine that returns gives back the slot it has.
LEMMA SlotReturned ==
    ASSUME RunsInv, Slots, NEW t \in Task, t \in Handlers, Return(t), UNCHANGED loop
    PROVE  Slots'
  <1>1. Handlers' = Handlers \ {t}
    BY DEF Return, Handlers
  <1>. QED BY <1>1, HandlersCount, HandlersFinite DEF Return, Slots

\* A goroutine that goes on keeps its slot.
LEMMA SlotKept ==
    ASSUME RunsInv, Slots, NEW t \in Task, t \in Handlers, NEW pc, pc \notin NoHandler,
           HandlerTo(t, pc), UNCHANGED <<loop, sem>>
    PROVE  Slots'
  <1>1. Handlers' = Handlers
    BY DEF Handlers
  <1>. QED BY <1>1 DEF Slots

LEMMA SlotsLoop == ASSUME RunsInv, Slots, Loop PROVE Slots'
  <1>1. CASE AcquireSlot \/ ClaimFails \/ Shutdown \/ StopLoop
    <2>1. Handlers' = Handlers
      BY <1>1 DEF AcquireSlot, ClaimFails, Shutdown, StopLoop, Handlers
    <2>. QED BY <1>1, <2>1, HandlersFinite DEF AcquireSlot, ClaimFails, Shutdown, StopLoop, Slots
  <1>2. CASE Exit
    <2>1. Handlers' = {}
      BY <1>2 DEF Exit, Handlers
    <2>. QED BY <1>2, <2>1, FS_EmptySet DEF Exit, Slots
  <1>3. CASE \E t \in Task : ClaimAnswered(t)
    <2>1. PICK t \in Task : ClaimAnswered(t)
      BY <1>3
    <2>2. hand[t] = "none"
      BY <2>1 DEF ClaimAnswered, Claimable
    <2>3. t \notin Handlers /\ Handlers' = Handlers \cup {t}
      BY <2>1, <2>2 DEF ClaimAnswered, Handlers
    <2>. QED BY <2>1, <2>3, HandlersCount, HandlersFinite DEF ClaimAnswered, Slots
  <1>. QED BY <1>1, <1>2, <1>3 DEF Loop

LEMMA SlotsHandle ==
    ASSUME RunsInv, Slots, NEW t \in Task, Handle(t) \/ AgentEnds(t)
    PROVE  Slots'
  <1>1. t \in Handlers
    BY DEF Handlers, Handle, StartTask, Launch, DiscardSeen, ReportError, CheckCancelled, CompleteTask,
           FailTask, AgentKilled, AgentEnds
  <1>2. \/ Return(t)
        \/ UNCHANGED sem /\ \E pc : pc \notin NoHandler /\ HandlerTo(t, pc)
    BY DEF Handle, StartTask, Launch, DiscardSeen, ReportError, CheckCancelled, CompleteTask,
           FailTask, AgentKilled, AgentEnds, Request
  <1>3. UNCHANGED loop
    BY DEF Handle, StartTask, Launch, DiscardSeen, ReportError, CheckCancelled, CompleteTask,
           FailTask, AgentKilled, AgentEnds
  <1>. QED BY <1>1, <1>2, <1>3, SlotReturned, SlotKept

-----------------------------------------------------------------------------
\* The theorems

LEMMA StepKeeps == RunsInv /\ Slots /\ [Next]_daemonVars => (RunsInv /\ Slots)'
  <1>. SUFFICES ASSUME RunsInv, Slots, [Next]_daemonVars PROVE RunsInv' /\ Slots'
    OBVIOUS
  <1>1. CASE UNCHANGED daemonVars
    BY <1>1 DEF daemonVars, Slots, Handlers
  <1>2. CASE Server
    <2>1. Handlers' = Handlers /\ UNCHANGED <<sem, loop>>
      BY <1>2 DEF Server, CancelAgentTask, SweepTask, CreateAgentTask, Handlers
    <2>. QED BY <1>2, <2>1, ServerKeeps DEF Slots
  <1>3. CASE Loop
    BY <1>3, LoopKeeps, SlotsLoop
  <1>4. ASSUME NEW t \in Task, Handle(t) \/ AgentEnds(t) \/ PollSeesCancelled(t) \/ PollTells(t)
        PROVE  RunsInv' /\ Slots'
    <2>1. CASE Handle(t) \/ AgentEnds(t)
      BY <1>4, <2>1, HandlerKeeps, SlotsHandle
    <2>2. CASE PollSeesCancelled(t) \/ PollTells(t)
      <3>1. Handlers' = Handlers /\ UNCHANGED <<sem, loop>>
        BY <2>2 DEF PollSeesCancelled, PollTells, Handlers
      <3>. QED BY <1>4, <3>1, HandlerKeeps DEF Slots
    <2>. QED BY <1>4, <2>1, <2>2
  <1>. QED BY <1>1, <1>2, <1>3, <1>4 DEF Next

\* What every reachable state of the daemon and of its rows satisfies.
THEOREM DaemonInvariant == Spec => [](RunsInv /\ Slots)
  <1>1. Init => RunsInv /\ Slots
    BY RunsInvInit, SlotsInit
  <1>. QED BY <1>1, StepKeeps, PTL DEF Spec

\* Every variable of the daemon stays in its range, and no more slots are taken than
\* there are (sem, daemon.go:706).
THEOREM DaemonTypeCorrect == Spec => []TypeOK
  <1>1. RunsInv /\ Slots => TypeOK
    <2>. SUFFICES ASSUME RunsInv, Slots PROVE TypeOK
      OBVIOUS
    <2>1. sem >= 0
      BY HandlersFinite DEF Slots
    <2>. QED BY <2>1, DaemonAssumption DEF TypeOK
  <1>. QED BY <1>1, DaemonInvariant, PTL

\* handleTask's deferred release and its fallback reports (daemon.go:760): slots are
\* given back on every path, and a goroutine that is gone has ended its row.
THEOREM SlotsAreGivenBack == Spec => []DaemonGivesBack
  <1>1. RunsInv /\ Slots => DaemonGivesBack
    BY DEF DaemonGivesBack, Slots, Handlers
  <1>. QED BY <1>1, DaemonInvariant, PTL

\* Per-issue serialization on the machine (daemon.go:788): two tools work on an issue
\* only when the server has ended one of their tasks itself.
THEOREM ToolsRunAlone == Spec => []DaemonRunsAlone
  <1>1. RunsInv => DaemonRunsAlone
    BY DEF DaemonRunsAlone
  <1>. QED BY <1>1, DaemonInvariant, PTL
-----------------------------------------------------------------------------
\* Beside the jobs

\* The daemon keeps its promises beside the workers of the pull-request jobs.
THEOREM DaemonBesideJobs == WorkersSpec => [](DaemonGivesBack /\ DaemonRunsAlone)
  <1>1. WorkersInit => RunsInv /\ Slots
    BY RunsInvInit, SlotsInit DEF WorkersInit
  <1>2. [WorkersNext]_workerVars => [Next]_daemonVars
    BY DEF WorkersNext, DaemonStep, JobStep, workerVars
  <1>3. RunsInv /\ Slots => DaemonGivesBack /\ DaemonRunsAlone
    BY DEF DaemonGivesBack, DaemonRunsAlone, Slots, Handlers
  <1>. QED BY <1>1, <1>2, <1>3, StepKeeps, PTL DEF WorkersSpec

PP == INSTANCE PullRequestsProofs

\* The two instances of PullRequests are the same module over the same variables.
LEMMA SameStep == [Pulls!Next]_(Pulls!prVars) => [PP!Next]_(PP!prVars)
  BY DEF Pulls!Reviews, Pulls!Live, Pulls!Idle, Pulls!At, Pulls!Goto, Pulls!MyJob, Pulls!Fault,
         Pulls!history, Pulls!UpdateIssueStatus, Pulls!TaskCompleted, Pulls!HasActiveJob,
         Pulls!PastReading, Pulls!Enqueue, Pulls!EventLost, Pulls!RunAfterPasses,
         Pulls!JobGrowsOld, Pulls!ClaimNext, Pulls!Mark, Pulls!Requeue, Pulls!LoadIssue,
         Pulls!SkipClosed, Pulls!NoRun, Pulls!Latest, Pulls!LatestRun, Pulls!WaitForTask,
         Pulls!GiveUp, Pulls!Skip, Pulls!GitHubError, Pulls!GetRepository, Pulls!Delivered,
         Pulls!FindOpenPullRequestByHead, Pulls!CreatePullRequest, Pulls!DeliveryComment,
         Pulls!UpdateTaskResult, Pulls!Activity, Pulls!Finish, Pulls!Dies, Pulls!Process,
         Pulls!Next, Pulls!prVars,
         PP!Reviews, PP!Live, PP!Idle, PP!At, PP!Goto, PP!MyJob, PP!Fault, PP!history,
         PP!UpdateIssueStatus, PP!TaskCompleted, PP!HasActiveJob, PP!PastReading, PP!Enqueue,
         PP!EventLost, PP!RunAfterPasses, PP!JobGrowsOld, PP!ClaimNext, PP!Mark, PP!Requeue,
         PP!LoadIssue, PP!SkipClosed, PP!NoRun, PP!Latest, PP!LatestRun, PP!WaitForTask,
         PP!GiveUp, PP!Skip, PP!GitHubError, PP!GetRepository, PP!Delivered,
         PP!FindOpenPullRequestByHead, PP!CreatePullRequest, PP!DeliveryComment,
         PP!UpdateTaskResult, PP!Activity, PP!Finish, PP!Dies, PP!Process, PP!Next, PP!prVars

LEMMA JobsStep == [WorkersNext]_workerVars => [PP!Next]_(PP!prVars)
  <1>1. [WorkersNext]_workerVars => [Pulls!Next]_(Pulls!prVars)
    BY DEF WorkersNext, DaemonStep, JobStep, workerVars, jobPart, Pulls!prVars
  <1>. QED BY <1>1, SameStep

\* What the issue is told (pr_job_worker.go:225): with any number of servers, one worker
\* at a time is at the jobs of an issue, a task gets one comment unless a fault came
\* between it and the result, and delivered is only said of a pull request that exists.
THEOREM PullsAreToldTruly == WorkersSpec => []PullTold
  <1>1. WorkersInit => PP!PInv
    BY PP!Start DEF WorkersInit, Pulls!Init, PP!Init, Pulls!Idle, PP!Idle, Pulls!Reviews, PP!Reviews
  <1>2. PP!PInv /\ [WorkersNext]_workerVars => PP!PInv'
    BY JobsStep, PP!PNext
  <1>3. PP!PInv => PullTold
    BY PP!InvTells DEF PullTold, Pulls!PullTold, PP!PullTold, Pulls!OneWorker, PP!OneWorker,
       Pulls!At, PP!At
  <1>. QED BY <1>1, <1>2, <1>3, PTL DEF WorkersSpec

\* registerPullRequestListeners (pr_job_worker.go:71): when nothing is under way any
\* more, the newest completed task with a branch is delivered or handed over, unless a
\* fault, a closed issue or a dropped job stopped it; with any number of servers and tasks.
THEOREM PullsAreDelivered == WorkersSpec => []PullDelivered
  <1>1. WorkersInit => PP!DInv
    BY PP!Start, PP!DStart
       DEF WorkersInit, Pulls!Init, PP!Init, Pulls!Idle, PP!Idle, Pulls!Reviews, PP!Reviews, PP!DInv
  <1>2. PP!DInv /\ [WorkersNext]_workerVars => PP!DInv'
    BY JobsStep, PP!DNext
  <1>3. PP!DInv => PullDelivered
    BY PP!InvDelivers DEF PullDelivered, Pulls!PullDelivered, PP!PullDelivered, Pulls!Settled,
       PP!Settled, Pulls!Latest, PP!Latest, Pulls!At, PP!At
  <1>. QED BY <1>1, <1>2, <1>3, PTL DEF WorkersSpec
=============================================================================
