----------------------------- MODULE TaskService -----------------------------
(***************************************************************************)
(* The server's handlers around the task queue: TaskService (server/       *)
(* internal/service/task.go), the HTTP handlers that call it, and the      *)
(* runtime sweeper.  A handler is a goroutine that runs its statements one *)
(* after the other, each in a transaction of its own; nothing is locked    *)
(* between two of them.  req[s] is what handler s does next, with what it  *)
(* has read so far.                                                        *)
(***************************************************************************)
EXTENDS TaskQueue, Sequences

CONSTANTS
    MaxConcurrent,  \* agent.max_concurrent_tasks
    FanOuts,        \* the bodies of fan-out requests: sequences of [agent, mode]
    Inputs          \* which requests the environment sends

ASSUME TaskServiceAssumption ==
    /\ Mode = {"plan", "build"}
    /\ MaxConcurrent \in [Agent -> Nat]
    /\ FanOuts \subseteq Seq([agent : Agent, mode : Mode])
    /\ <<>> \notin FanOuts

VARIABLES
    agent,      \* rows of table agent
    issue,      \* rows of table issue
    runtime,    \* rows of table agent_runtime; fresh: last_seen_at within 45 s
    delivered,  \* whether a claim response carried the task to its daemon
    req,        \* the handlers in flight
    sweeper     \* the sweeper goroutine

rows == <<agent, issue, runtime, delivered>>
serviceVars == <<task, claim, agent, issue, runtime, delivered, req, sweeper>>

Stage == {"idle", "planning", "plan_ready", "build_ready", "building"}

PreferredTaskMode(stage) ==
    IF stage \in {"build_ready", "building"} THEN "build" ELSE "plan"

QueueStage(mode)     == IF mode = "plan" THEN "planning"   ELSE "build_ready"
RunningStage(mode)   == IF mode = "plan" THEN "planning"   ELSE "building"
CompletedStage(mode) == IF mode = "plan" THEN "plan_ready" ELSE "build_ready"

\* Mutations: a stage outside the column's CHECK; no reset; the build's answer.
FailedUnknown(mode)  == IF mode = "plan" THEN "failed"      ELSE "build_ready"
FailedNoReset(mode)  == IF mode = "plan" THEN "planning"    ELSE "build_ready"
FailedSwapped(mode)  == IF mode = "plan" THEN "build_ready" ELSE "idle"

FailedStage(mode)    == IF mode = "plan" THEN "idle"       ELSE "build_ready"

\* The stage a report leaves the issue of task t in.
StageAfter(op, t) ==
    CASE op = "start"    -> RunningStage(task[t].mode)
      [] op = "complete" -> CompletedStage(task[t].mode)
      [] OTHER           -> FailedStage(task[t].mode)

Free == [pc |-> "free", op |-> "none", task |-> 0, issue |-> None,
         agent |-> None, runtime |-> None, mode |-> None, stage |-> "idle",
         todo |-> {}, busy |-> FALSE, specs |-> <<>>, k |-> 0, mentions |-> {}]

Asleep == [pc |-> "asleep", agent |-> None, todo |-> {}, busy |-> FALSE]

ServiceInit ==
    /\ Init
    /\ agent \in [Agent -> [archived : {FALSE}, runtime : Runtime, status : {"idle"}]]
    /\ issue \in [Issue -> [stage : {"idle"}, assignee : Agent \cup {None}]]
    /\ runtime = [r \in Runtime |-> [status |-> "online", fresh |-> TRUE]]
    /\ delivered = [t \in Task |-> FALSE]
    /\ req = [s \in Session |-> Free]
    /\ sweeper = Asleep

At(s, pc)  == req[s].pc = pc
Become(s, r) == req' = [req EXCEPT ![s] = r]
Goto(s, pc)  == Become(s, [req[s] EXCEPT !.pc = pc])
Finish(s)    == Become(s, Free)

Receive(s, kind) == At(s, "free") /\ kind \in Inputs

SetAgentStatus(a, busy) ==
    agent' = [agent EXCEPT ![a].status = IF busy THEN "working" ELSE "idle"]

Proceed(s, pc) == IF pc = "free" THEN Finish(s) ELSE Goto(s, pc)

-----------------------------------------------------------------------------
\* ClaimTaskForRuntime: a daemon polls for runtime r.

\* ListPendingTasksByRuntime
Poll(s, r) ==
    /\ Receive(s, "poll")
    /\ LET listed == {t \in Task : /\ task[t].runtime = r
                                   /\ task[t].status \in Pending}
       IN  /\ listed # {}
           /\ Become(s, [Free EXCEPT !.pc = "nextAgent", !.op = "poll",
                                     !.runtime = r, !.todo = listed])
    /\ UNCHANGED <<vars, rows, sweeper>>

\* The agent tried last is not tried again; the loop ends with its candidates.
NextCandidate(s) ==
    LET left == {t \in req[s].todo : task[t].agent # req[s].agent}
    IN  IF left = {} THEN Finish(s)
        ELSE Become(s, [req[s] EXCEPT !.pc = "nextAgent", !.todo = left,
                                      !.agent = None, !.task = 0])

AtCapacity(a) == Cardinality(RunningOf(a)) >= MaxConcurrent[a]

\* ClaimTask: GetAgent and CountRunningTasks.
CheckCapacity(s) ==
    /\ At(s, "nextAgent")
    /\ \E t \in req[s].todo :
        /\ First(t, req[s].todo)
        /\ LET a == task[t].agent
           IN  Become(s, [req[s] EXCEPT !.agent = a,
                   !.pc = IF AtCapacity(a) THEN "noTask" ELSE "claim"])
    /\ UNCHANGED <<vars, rows, sweeper>>

BeginClaim(s) ==
    /\ At(s, "claim")
    /\ ClaimSnapshot(s, req[s].agent)
    /\ Goto(s, "claiming")
    /\ UNCHANGED <<rows, sweeper>>

EndClaim(s) ==
    /\ At(s, "claiming")
    /\ \/ \E t \in Task : ClaimLock(s, t) /\ UNCHANGED req
       \/ /\ ClaimCommit(s)
          /\ Become(s, [req[s] EXCEPT !.pc = "markWorking", !.task = claim[s].row])
       \/ ClaimNothing(s) /\ Goto(s, "noTask")
    /\ UNCHANGED <<rows, sweeper>>

\* Mutation: the runtime the agent has now, not the task's.
SameRuntimeNow(s, t) == agent[task[t].agent].runtime = req[s].runtime
SameRuntime(s, t) == task[t].runtime = req[s].runtime

\* updateAgentStatus, then the response, unless the task belongs to another runtime.
MarkWorking(s) ==
    /\ At(s, "markWorking")
    /\ SetAgentStatus(req[s].agent, TRUE)
    /\ IF SameRuntime(s, req[s].task)
       THEN delivered' = [delivered EXCEPT ![req[s].task] = TRUE] /\ Finish(s)
       ELSE UNCHANGED delivered /\ NextCandidate(s)
    /\ UNCHANGED <<vars, issue, runtime, sweeper>>

NoTask(s) ==
    /\ At(s, "noTask")
    /\ NextCandidate(s)
    /\ UNCHANGED <<vars, rows, sweeper>>

-----------------------------------------------------------------------------
\* StartTask, CompleteTask, FailTask (the daemon that got the task, one request at
\* a time) and CancelTask (a user).  The plan artifacts, comments and run memory that
\* CompleteTask and FailTask write in between touch no state of this module.

Reports == {"start", "complete", "fail"}

DaemonReports(t) ==
    delivered[t] /\ \A s \in Session : ~(req[s].op \in Reports /\ req[s].task = t)

Handle(s, op, t, pc) ==
    /\ Become(s, [Free EXCEPT !.pc = pc, !.op = op, !.task = t])
    /\ UNCHANGED <<rows, sweeper>>

StartTask(s, t) ==
    /\ Receive(s, "report") /\ DaemonReports(t)
    /\ StartAgentTask(t)
    /\ Handle(s, "start", t, "getIssue")

\* Mutation: the status is checked by a read before the update.
CompleteUnstarted(s, t) ==
    /\ Receive(s, "report") /\ DaemonReports(t)
    /\ task[t].status \in Active
    /\ SetStatus({t}, "completed") /\ UNCHANGED claim
    /\ Handle(s, "complete", t, "getIssue")

CompleteTask(s, t) ==
    /\ Receive(s, "report") /\ DaemonReports(t)
    /\ CompleteAgentTask(t)
    /\ Handle(s, "complete", t, "getIssue")

FailTask(s, t) ==
    /\ Receive(s, "report") /\ DaemonReports(t)
    /\ FailAgentTask(t)
    /\ Handle(s, "fail", t, "count")

\* Mutation: the agent's status is not reconciled.
CancelUnreconciled(s, t) ==
    /\ Receive(s, "cancel")
    /\ CancelAgentTask(t)
    /\ Handle(s, "cancel", t, "getIssue")

CancelTask(s, t) ==
    /\ Receive(s, "cancel")
    /\ CancelAgentTask(t)
    /\ Handle(s, "cancel", t, "count")

\* syncIssueExecutionStageForTask: nothing is written when the stage read is right.
GetIssue(s) ==
    /\ At(s, "getIssue")
    /\ LET t     == req[s].task
           stage == StageAfter(req[s].op, t)
           rest  == IF req[s].op = "complete" THEN "count" ELSE "free"
       IN  IF issue[task[t].issue].stage = stage
           THEN Proceed(s, rest)
           ELSE Goto(s, "setStage")
    /\ UNCHANGED <<vars, rows, sweeper>>

SetStage(s) ==
    /\ At(s, "setStage")
    /\ LET t == req[s].task
       IN  issue' = [issue EXCEPT ![task[t].issue].stage = StageAfter(req[s].op, t)]
    /\ Proceed(s, IF req[s].op = "complete" THEN "count" ELSE "free")
    /\ UNCHANGED <<vars, agent, runtime, delivered, sweeper>>

\* ReconcileAgentStatus
CountTasks(s) ==
    /\ At(s, "count")
    /\ Become(s, [req[s] EXCEPT !.pc = "setStatus",
                    !.busy = RunningOf(task[req[s].task].agent) # {}])
    /\ UNCHANGED <<vars, rows, sweeper>>

ReconcileStatus(s) ==
    /\ At(s, "setStatus")
    /\ SetAgentStatus(task[req[s].task].agent, req[s].busy)
    /\ Proceed(s, IF req[s].op = "complete" THEN "free" ELSE "getIssue")
    /\ UNCHANGED <<vars, issue, runtime, delivered, sweeper>>

-----------------------------------------------------------------------------
\* The requests that end in an enqueue.  Each carries the issue as it was loaded.

\* Bound: one is taken, and goes on to a further mention, only while an id is left.
IdsUsed ==
    LET enqueueing == {s \in Session : req[s].op \in
                          {"assign", "comment", "mention", "confirm", "fanOut"}}
    IN  Cardinality({t \in Task : Exists(t)}) + Cardinality(enqueueing)

IdLeft == IdsUsed < MaxTask

Loaded(op, i, a, mode, pc) ==
    [Free EXCEPT !.pc = pc, !.op = op, !.issue = i, !.agent = a, !.mode = mode,
                 !.stage = issue[i].stage]

Load(s, op, i, a, mode, pc) == Become(s, Loaded(op, i, a, mode, pc))

\* UpdateIssue loads the issue, then writes the assignee: the one the request names,
\* none, or, when the request is about other fields, the one it loaded.  Only a
\* request that names another assignee than the one loaded goes on to cancel the
\* issue's tasks and to enqueue one; one that names none (a JSON null) does not.
AssignIssue(s, i, a) ==
    /\ Receive(s, "assign") /\ IdLeft
    /\ issue[i].assignee # a /\ ~agent[a].archived
    /\ Load(s, "assign", i, a, "plan", "updateIssue")
    /\ UNCHANGED <<vars, rows, sweeper>>

EditIssue(s, i, a) ==
    /\ a \in {None, issue[i].assignee}
    /\ Receive(s, IF a = issue[i].assignee THEN "edit" ELSE "unassign")
    /\ Load(s, "edit", i, a, "plan", "updateIssue")
    /\ UNCHANGED <<vars, rows, sweeper>>

UpdateIssue(s) ==
    /\ At(s, "updateIssue")
    /\ LET i == req[s].issue
       IN  /\ issue' = [issue EXCEPT ![i].assignee = req[s].agent]
           /\ IF req[s].op = "assign"
              THEN Load(s, "assign", i, req[s].agent,
                        PreferredTaskMode(issue[i].stage), "cancelIssue")
              ELSE Finish(s)
    /\ UNCHANGED <<vars, agent, runtime, delivered, sweeper>>

CancelTasksForIssue(s) ==
    /\ At(s, "cancelIssue")
    /\ CancelAgentTasksByIssue(req[s].issue)
    /\ Goto(s, "getAgent")
    /\ UNCHANGED <<rows, sweeper>>

\* CreateComment by a member: on_comment for the assignee, then one enqueue for every
\* agent in M that the comment mentions.  A comment that does not trigger the assignee
\* (it talks to others, or the issue is done) only has the mentions, and then may
\* mention the assignee too.  All of it works with the issue as loaded at the start.
Comment(s, i, M) ==
    /\ Receive(s, "comment") /\ IdLeft
    /\ issue[i].assignee # None
    /\ M = {} \/ "mention" \in Inputs
    /\ issue[i].assignee \notin M
    /\ Become(s, [Loaded("comment", i, issue[i].assignee,
                         PreferredTaskMode(issue[i].stage), "checkPending")
                   EXCEPT !.mentions = M])
    /\ UNCHANGED <<vars, rows, sweeper>>

Mention(s, i, M) ==
    /\ Receive(s, "mention") /\ IdLeft
    /\ M # {}
    /\ Become(s, [Loaded("mention", i, None, PreferredTaskMode(issue[i].stage),
                         "nextMention")
                   EXCEPT !.mentions = M])
    /\ UNCHANGED <<vars, rows, sweeper>>

NextMention(s) ==
    /\ At(s, "nextMention")
    /\ \/ \E a \in req[s].mentions :
            /\ IdsUsed <= MaxTask
            /\ Become(s, [req[s] EXCEPT !.pc = "checkPending", !.op = "mention",
                            !.agent = a, !.mentions = @ \ {a}])
       \/ IdsUsed > MaxTask /\ Finish(s)
    /\ UNCHANGED <<vars, rows, sweeper>>

\* What follows an enqueue, done, refused or failed: the comment's next mention.
AfterEnqueue(s) ==
    IF req[s].mentions # {} THEN Goto(s, "nextMention") ELSE Finish(s)

CheckPending(s) ==
    /\ At(s, "checkPending")
    /\ LET pending == IF req[s].op = "mention"
                      THEN HasPendingTaskForIssueAndAgent(req[s].issue, req[s].agent)
                      ELSE HasPendingTaskForIssue(req[s].issue)
       IN  IF pending THEN AfterEnqueue(s) ELSE Goto(s, "getAgent")
    /\ UNCHANGED <<vars, rows, sweeper>>

\* ConfirmPlan: the stage, then HasActiveTaskForIssue, then the latest plan (whether
\* a completed plan still asks for decisions is not modelled: such a request ends).
ConfirmPlan(s, i) ==
    /\ Receive(s, "confirm") /\ IdLeft
    /\ issue[i].stage = "plan_ready" /\ issue[i].assignee # None
    /\ Load(s, "confirm", i, issue[i].assignee, "build", "checkActive")
    /\ UNCHANGED <<vars, rows, sweeper>>

\* Mutation: HasPendingTaskForIssue instead of HasActiveTaskForIssue.
CheckPendingOnly(s) ==
    /\ At(s, "checkActive")
    /\ IF HasPendingTaskForIssue(req[s].issue) THEN Finish(s) ELSE Goto(s, "latestPlan")
    /\ UNCHANGED <<vars, rows, sweeper>>

CheckActive(s) ==
    /\ At(s, "checkActive")
    /\ IF HasActiveTaskForIssue(req[s].issue) THEN Finish(s) ELSE Goto(s, "latestPlan")
    /\ UNCHANGED <<vars, rows, sweeper>>

LatestPlan(s) ==
    /\ At(s, "latestPlan")
    /\ IF \E t \in TasksOf(req[s].issue) :
             task[t].status = "completed" /\ task[t].mode = "plan"
       THEN Goto(s, "getAgent") ELSE Finish(s)
    /\ UNCHANGED <<vars, rows, sweeper>>

\* Mutation: no look at archived_at.
Always(a) == TRUE
MayEnqueue(a) == ~agent[a].archived

\* EnqueueTaskForIssue / EnqueueTaskForMention: the agent, the stage, the insert.
GetAgent(s) ==
    /\ At(s, "getAgent")
    /\ IF MayEnqueue(req[s].agent)
       THEN Become(s, [req[s] EXCEPT
              !.runtime = agent[req[s].agent].runtime,
              !.pc = IF req[s].stage = QueueStage(req[s].mode)
                     THEN "insert" ELSE "queueStage"])
       ELSE AfterEnqueue(s)
    /\ UNCHANGED <<vars, rows, sweeper>>

WriteQueueStage(s) ==
    /\ At(s, "queueStage")
    /\ issue' = [issue EXCEPT ![req[s].issue].stage = QueueStage(req[s].mode)]
    /\ IF req[s].op = "fanOut" THEN Finish(s) ELSE Goto(s, "insert")
    /\ UNCHANGED <<vars, agent, runtime, delivered, sweeper>>

\* The insert fails when the unique index does not allow it.
InsertTask(s) ==
    /\ At(s, "insert")
    /\ \/ \E t \in Task, p \in Priority :
            CreateAgentTask(t, req[s].agent, req[s].issue, req[s].runtime,
                            req[s].mode, p, 0)
       \/ ~IndexAllows(req[s].issue, 0) /\ UNCHANGED vars
    /\ AfterEnqueue(s)
    /\ UNCHANGED <<rows, sweeper>>

-----------------------------------------------------------------------------
\* FanOutTask under any task of the issue, finished or not: one child after the
\* other, then the stage.  Children inserted before an error stay.

FanOutTask(s, t, specs) ==
    /\ Receive(s, "fanOut") /\ IdLeft
    /\ Exists(t)
    /\ Become(s, [Free EXCEPT !.pc = "fanInsert", !.op = "fanOut", !.task = t,
                    !.issue = task[t].issue, !.stage = issue[task[t].issue].stage,
                    !.mode = specs[1].mode, !.specs = specs, !.k = 1])
    /\ UNCHANGED <<vars, rows, sweeper>>

InsertChild(s) ==
    /\ At(s, "fanInsert")
    /\ LET specs == req[s].specs
           k     == req[s].k
           a     == specs[k].agent
           after == IF k < Len(specs) THEN "fanInsert"
                    ELSE IF req[s].stage = QueueStage(req[s].mode) THEN "free"
                    ELSE "queueStage"
       IN  IF ~MayEnqueue(a) \/ \E j \in 1 .. k - 1 : specs[j].agent = a
           THEN Finish(s) /\ UNCHANGED vars
           ELSE /\ \E t \in Task, p \in Priority :
                     CreateAgentTask(t, a, req[s].issue, agent[a].runtime,
                                     specs[k].mode, p, req[s].task)
                /\ IF after = "free" THEN Finish(s)
                   ELSE Become(s, [req[s] EXCEPT !.pc = after, !.k = k + 1])
    /\ UNCHANGED <<rows, sweeper>>

-----------------------------------------------------------------------------
\* Agents: UpdateAgent (runtime_id), ArchiveAgent, RestoreAgent

MoveAgent(s, a, r) ==
    /\ Receive(s, "move")
    /\ agent[a].runtime # r
    /\ agent' = [agent EXCEPT ![a].runtime = r]
    /\ UNCHANGED <<vars, issue, runtime, delivered, req, sweeper>>

ArchiveAgent(s, a) ==
    /\ Receive(s, "archive")
    /\ ~agent[a].archived
    /\ agent' = [agent EXCEPT ![a].archived = TRUE]
    /\ Become(s, [Free EXCEPT !.pc = "cancelAgent", !.op = "archive", !.agent = a])
    /\ UNCHANGED <<vars, issue, runtime, delivered, sweeper>>

CancelTasksForAgent(s) ==
    /\ At(s, "cancelAgent")
    /\ CancelAgentTasksByAgent(req[s].agent)
    /\ Finish(s)
    /\ UNCHANGED <<rows, sweeper>>

RestoreAgent(s, a) ==
    /\ Receive(s, "archive")
    /\ agent[a].archived
    /\ agent' = [agent EXCEPT ![a].archived = FALSE]
    /\ UNCHANGED <<vars, issue, runtime, delivered, req, sweeper>>

\* Every handler uses its request's context.  When the client hangs up, or the
\* server stops, the statements left fail and a claim in progress rolls back.  A run
\* lets that happen to every request, or to polls only.
Abandon(s) ==
    /\ "abandon" \in Inputs \/ ("hangUp" \in Inputs /\ req[s].op = "poll")
    /\ ~At(s, "free")
    /\ Finish(s)
    /\ ClaimAbort(s)
    /\ UNCHANGED <<rows, sweeper>>

-----------------------------------------------------------------------------
\* Runtimes

\* DaemonRegister and DaemonHeartbeat
Heartbeat(r) ==
    /\ "runtime" \in Inputs
    /\ runtime' = [runtime EXCEPT ![r] = [status |-> "online", fresh |-> TRUE]]
    /\ UNCHANGED <<vars, agent, issue, delivered, req, sweeper>>

\* 45 seconds pass without a heartbeat.
Lapse(r) ==
    /\ "runtime" \in Inputs
    /\ runtime' = [runtime EXCEPT ![r].fresh = FALSE]
    /\ UNCHANGED <<vars, agent, issue, delivered, req, sweeper>>

DaemonDeregister(r) ==
    /\ "runtime" \in Inputs
    /\ runtime' = [runtime EXCEPT ![r].status = "offline"]
    /\ UNCHANGED <<vars, agent, issue, delivered, req, sweeper>>

Offline == {r \in Runtime : runtime[r].status = "offline"}

-----------------------------------------------------------------------------
\* runRuntimeSweeper.  A sweep that finds nothing changes nothing and is left out.

Wake(pc, S) ==
    sweeper' = IF S = {} THEN Asleep
               ELSE [Asleep EXCEPT !.pc = pc, !.todo = {task[t].agent : t \in S}]

MarkStaleRuntimesOffline ==
    /\ sweeper = Asleep
    /\ LET stale == {r \in Runtime : runtime[r].status = "online" /\ ~runtime[r].fresh}
       IN  /\ stale # {}
           /\ runtime' = [r \in Runtime |-> IF r \in stale
                            THEN [runtime[r] EXCEPT !.status = "offline"]
                            ELSE runtime[r]]
    /\ sweeper' = [Asleep EXCEPT !.pc = "orphans"]
    /\ UNCHANGED <<vars, agent, issue, delivered, req>>

\* Only when some runtime has just gone offline; then for all that are offline.
SweepOrphans ==
    /\ sweeper.pc = "orphans"
    /\ FailTasksForOfflineRuntimes(Offline)
    /\ Wake("count", OrphansOf(Offline))
    /\ UNCHANGED <<rows, req>>

SweepStaleTasks(S) ==
    /\ sweeper = Asleep
    /\ FailStaleTasks(S)
    /\ Wake("count", S)
    /\ UNCHANGED <<rows, req>>

\* broadcastFailedTasks: the status of every agent concerned, nothing else.
SweepCount(a) ==
    /\ sweeper.pc = "count" /\ a \in sweeper.todo
    /\ sweeper' = [sweeper EXCEPT !.pc = "set", !.agent = a,
                                  !.busy = RunningOf(a) # {}]
    /\ UNCHANGED <<vars, rows, req>>

SweepSetStatus ==
    /\ sweeper.pc = "set"
    /\ SetAgentStatus(sweeper.agent, sweeper.busy)
    /\ LET left == sweeper.todo \ {sweeper.agent}
       IN  sweeper' = IF left = {} THEN Asleep
                      ELSE [Asleep EXCEPT !.pc = "count", !.todo = left]
    /\ UNCHANGED <<vars, issue, runtime, delivered, req>>

-----------------------------------------------------------------------------
Polls(s) ==
    \/ \E r \in Runtime : Poll(s, r)
    \/ CheckCapacity(s) \/ BeginClaim(s) \/ EndClaim(s)
    \/ MarkWorking(s) \/ NoTask(s)

TaskUpdates(s) ==
    \/ \E t \in Task : \/ StartTask(s, t) \/ CompleteTask(s, t)
                       \/ FailTask(s, t)  \/ CancelTask(s, t)
    \/ GetIssue(s) \/ SetStage(s) \/ CountTasks(s) \/ ReconcileStatus(s)

Enqueues(s) ==
    \/ \E i \in Issue, a \in Agent : AssignIssue(s, i, a)
    \/ \E i \in Issue, M \in SUBSET Agent : Comment(s, i, M) \/ Mention(s, i, M)
    \/ \E i \in Issue, a \in Agent \cup {None} : EditIssue(s, i, a)
    \/ \E i \in Issue : ConfirmPlan(s, i)
    \/ UpdateIssue(s) \/ CancelTasksForIssue(s)
    \/ NextMention(s) \/ CheckPending(s) \/ CheckActive(s) \/ LatestPlan(s)
    \/ GetAgent(s) \/ WriteQueueStage(s) \/ InsertTask(s)

Fans(s) ==
    \/ \E t \in Task, specs \in FanOuts : FanOutTask(s, t, specs)
    \/ InsertChild(s)

AgentUpdates(s) ==
    \/ \E a \in Agent, r \in Runtime : MoveAgent(s, a, r)
    \/ \E a \in Agent : ArchiveAgent(s, a) \/ RestoreAgent(s, a)
    \/ CancelTasksForAgent(s)

Runtimes ==
    \E r \in Runtime : Heartbeat(r) \/ Lapse(r) \/ DaemonDeregister(r)

Sweeps ==
    \/ MarkStaleRuntimesOffline \/ SweepOrphans
    \/ "timeout" \in Inputs /\ \E S \in SUBSET Task : SweepStaleTasks(S)
    \/ \E a \in Agent : SweepCount(a)
    \/ SweepSetStatus

ServiceNext ==
    \/ \E s \in Session : \/ Polls(s) \/ TaskUpdates(s) \/ Enqueues(s)
                          \/ Fans(s) \/ AgentUpdates(s) \/ Abandon(s)
    \/ Runtimes \/ Sweeps

ServiceSpec == ServiceInit /\ [][ServiceNext]_serviceVars

\* Handlers run to their end and daemons poll for ever; the sweeper's ticker comes
\* back after each sweep, and a task that stays active grows older than any limit.
ServiceFairSpec ==
    /\ ServiceSpec
    /\ \A s \in Session :
        WF_serviceVars(~At(s, "free") /\ (Polls(s) \/ TaskUpdates(s) \/ Enqueues(s)
                                        \/ Fans(s) \/ AgentUpdates(s)))
    /\ \A r \in Runtime : SF_serviceVars(\E s \in Session : Poll(s, r))
    /\ \A t \in Task :
          SF_serviceVars(\E S \in SUBSET Task : t \in S /\ SweepStaleTasks(S))
    /\ WF_serviceVars(sweeper # Asleep /\ Sweeps)

-----------------------------------------------------------------------------
(* Properties *)

ReqOK == [pc   : {"free", "nextAgent", "claim", "claiming", "markWorking", "noTask",
                  "getIssue", "setStage", "count", "setStatus", "updateIssue", "cancelIssue",
                  "nextMention", "checkPending", "checkActive", "latestPlan", "getAgent",
                  "queueStage", "insert", "fanInsert", "cancelAgent"},
          op      : {"none", "poll", "start", "complete", "fail", "cancel", "assign", "edit",
                     "comment", "mention", "confirm", "fanOut", "archive"},
          task    : Task \cup {0},
          issue   : Issue \cup {None},
          agent   : Agent \cup {None},
          runtime : Runtime \cup {None},
          mode    : Mode \cup {None},
          stage   : Stage,
          todo    : SUBSET Task,
          busy    : BOOLEAN,
          specs   : FanOuts \cup {<<>>},
          k       : Nat,
          mentions : SUBSET Agent]

ServiceTypeOK ==
    /\ TypeOK
    /\ agent \in [Agent -> [archived : BOOLEAN, runtime : Runtime,
                            status : {"idle", "working"}]]
    /\ issue \in [Issue -> [stage : Stage, assignee : Agent \cup {None}]]
    /\ runtime \in [Runtime -> [status : {"online", "offline"}, fresh : BOOLEAN]]
    /\ delivered \in [Task -> BOOLEAN]
    /\ req \in [Session -> ReqOK]
    /\ sweeper \in [pc : {"asleep", "orphans", "count", "set"},
                    agent : Agent \cup {None}, todo : SUBSET Agent, busy : BOOLEAN]

\* Every handler changes the rows only by the statements of TaskQueue, so what is
\* true of the statements holds of the server, however handlers interleave or stop.
ImplementsQueue == Spec

\* ClaimTask's comment (task.go:276-277): claims respect max_concurrent_tasks.
RespectsCapacity ==
    \A a \in Agent : Cardinality(RunningOf(a)) <= MaxConcurrent[a]

\* An issue is never built before it is planned: a root task in build mode exists
\* only after a plan task of the issue completed or a fan-out put children in build
\* mode under it.  The mode comes from a stage that many handlers write from stale
\* reads.
BuildAfterPlan ==
    \A t \in Task :
        Exists(t) /\ IsRoot(t) /\ task[t].mode = "build" =>
            \E u \in TasksOf(task[t].issue) :
                /\ u < t
                /\ \/ task[u].mode = "plan" /\ task[u].status = "completed"
                   \/ task[u].mode = "build" /\ ~IsRoot(u)

\* A claimed task reaches the daemon of its runtime.  The one exception is a task that
\* was claimed by a poll for another runtime of its agent, which only happens when
\* the agent was moved while it had tasks queued.
OrphanedOnlyByMove ==
    \A t \in Task :
        /\ task[t].status = "dispatched"
        /\ ~delivered[t]
        /\ \A s \in Session : ~(At(s, "markWorking") /\ req[s].task = t)
        => \E u \in Task : /\ task[u].agent = task[t].agent
                           /\ task[u].runtime \in Runtime \ {task[t].runtime}

AtRest == sweeper = Asleep /\ \A s \in Session : At(s, "free")

\* Once the handlers are done, an issue without live tasks is not left in a stage
\* that says somebody works on it.
StageSettles ==
    AtRest => \A i \in Issue :
        issue[i].stage \in {"planning", "building"} => HasActiveTaskForIssue(i)

\* ReconcileAgentStatus (task.go:522): the status says working exactly when the agent
\* has dispatched or running tasks, once the handlers are done.
StatusSettles ==
    AtRest => \A a \in Agent : agent[a].status = "working" <=> RunningOf(a) # {}

\* ArchiveAgent's comment (agent.go:471): archiving cancels all pending and active
\* tasks of the agent; none is left when the handlers are done.
ArchivedAgentHasNoTasks ==
    AtRest => \A t \in Task :
        Exists(t) /\ agent[task[t].agent].archived => task[t].status \in Terminal

\* UpdateIssue's comment (issue.go:684-685): the queue is reconciled when the assignee
\* changes.  Where nobody is mentioned, the live root tasks of an issue are its
\* assignee's once the handlers are done.
WorkFollowsAssignee ==
    AtRest => \A t \in Task :
        Exists(t) /\ IsRoot(t) /\ task[t].status \in Live
            => task[t].agent = issue[task[t].issue].assignee

\* ConfirmPlan's reply (issue.go:774): the build is queued only after the active run
\* of the issue has finished.
ConfirmWaitsForActiveRun ==
    [][\A t \in Task, s \in Session :
         /\ ~Exists(t) /\ task'[t].status = "queued"
         /\ At(s, "insert") /\ req[s].op = "confirm" /\ req'[s] = Free
         => ~HasActiveTaskForIssue(req[s].issue)]_serviceVars

\* A queued task does not wait for ever while its runtime polls: busy agents free
\* their slots and issues free their lanes, by reports or by the sweeper.
QueuedTasksLeave ==
    \A t \in Task : task[t].status = "queued" ~> task[t].status # "queued"

=============================================================================
