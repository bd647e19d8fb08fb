-------------------------- MODULE TaskServiceProofs --------------------------
(***************************************************************************)
(* Theorems about TaskService for every number of tasks, agents, issues,   *)
(* runtimes and handlers, and for every set of requests.  A handler that   *)
(* goes on to an enqueue carries the issue, the agent and the mode it      *)
(* needs (Ready), so that every step of the service is a step of TaskQueue *)
(* and the theorems about the table hold of the server.  The second part   *)
(* is what a build rests on: a stage that was written has evidence in the  *)
(* rows (BInv), however old the read was that it came from.  The third is  *)
(* what the server leaves behind when its handlers are done.               *)
(***************************************************************************)
EXTENDS TaskService, TaskQueueProofs, SequenceTheorems

Enqueuing == {"cancelIssue", "nextMention", "checkPending", "checkActive", "latestPlan",
              "getAgent", "queueStage", "insert"}

\* What handler r has read by the time it needs it; tasks are the rows.
Ready(r, tasks) ==
    /\ \A t \in r.todo : tasks[t].status # "absent"
    /\ r.pc \in {"claim", "cancelAgent"} => r.agent \in Agent
    /\ r.pc = "updateIssue" =>
         /\ r.op \in {"assign", "edit"}
         /\ r.issue \in Issue
         /\ r.op = "assign" => r.agent \in Agent
    /\ r.pc \in Enqueuing =>
         /\ r.issue \in Issue /\ r.mode \in Mode
         /\ r.pc # "queueStage" => r.op # "fanOut"
         /\ r.pc # "nextMention" /\ r.op # "fanOut" => r.agent \in Agent
         /\ r.pc \in {"queueStage", "insert"} /\ r.op # "fanOut" => r.runtime \in Runtime
    /\ r.pc = "fanInsert" =>
         /\ r.op = "fanOut"
         /\ r.issue \in Issue /\ r.mode \in Mode
         /\ r.task \in Task /\ tasks[r.task].status # "absent"
         /\ tasks[r.task].issue = r.issue
         /\ r.specs \in FanOuts /\ r.k \in 1 .. Len(r.specs)

AgentTable   == [Agent -> [archived : BOOLEAN, runtime : Runtime,
                           status : {"idle", "working"}]]
IssueTable   == [Issue -> [stage : Stage, assignee : Agent \cup {None}]]
RuntimeTable == [Runtime -> [status : {"online", "offline"}, fresh : BOOLEAN]]
SweeperOK    == [pc : {"asleep", "orphans", "count", "set"}, agent : Agent \cup {None},
                 todo : SUBSET Agent, busy : BOOLEAN]

SInv ==
    /\ IInv
    /\ ServiceTypeOK
    /\ \A s \in Session : Ready(req[s], task)

\* What every step of handler s comes to.
Advances(s) ==
    /\ [Next]_vars
    /\ \E r \in ReqOK : req' = [req EXCEPT ![s] = r] /\ Ready(r, task')
    /\ agent' \in AgentTable
    /\ issue' \in IssueTable
    /\ runtime' \in RuntimeTable
    /\ delivered' \in [Task -> BOOLEAN]
    /\ sweeper' \in SweeperOK

-----------------------------------------------------------------------------
LEMMA ServiceTypes ==
    ASSUME SInv
    PROVE  /\ IInv /\ TypeOK /\ LocksHold
           /\ agent \in AgentTable /\ issue \in IssueTable /\ runtime \in RuntimeTable
           /\ delivered \in [Task -> BOOLEAN] /\ sweeper \in SweeperOK
           /\ req \in [Session -> ReqOK]
           /\ \A s \in Session : Ready(req[s], task)
  BY DEF SInv, IInv, ClaimInv, ServiceTypeOK, AgentTable, IssueTable, RuntimeTable, SweeperOK

\* The rows that exist go on to exist, and stay with their issue.
LEMMA RowsStay ==
    ASSUME IInv, [Next]_vars, NEW t \in Task, Exists(t)
    PROVE  task'[t].status # "absent" /\ task'[t].issue = task[t].issue
  <1>1. CASE task'[t] = task[t]
    BY <1>1 DEF Exists
  <1>2. CASE task'[t] # task[t]
    <2>1. StepOK(t)
      BY <1>2, StepsAreOK DEF vars
    <2>2. task[t] \in Row
      BY RowTypes DEF IInv
    <2> QED BY <2>1, <2>2 DEF StepOK, Successors, Row, Live, Terminal
  <1> QED BY <1>1, <1>2

LEMMA FreeIsReady == Free \in ReqOK /\ \A tasks : Ready(Free, tasks)
  BY DEF Free, ReqOK, Ready, Enqueuing, Stage

\* A step that only moves handler s on.
LEMMA Advance ==
    ASSUME SInv, NEW s \in Session, NEW r \in ReqOK, Become(s, r), Ready(r, task),
           UNCHANGED <<vars, rows, sweeper>>
    PROVE  Advances(s)
  BY ServiceTypes DEF Advances, Become, vars, rows

\* The rows change, and handler s moves on.
LEMMA AdvanceRows ==
    ASSUME SInv, NEW s \in Session, NEW r \in ReqOK, Become(s, r), [Next]_vars,
           Ready(r, task'), UNCHANGED <<rows, sweeper>>
    PROVE  Advances(s)
  BY ServiceTypes DEF Advances, Become, rows

\* The rows of agents or issues change, and handler s moves on.
LEMMA AdvanceOthers ==
    ASSUME SInv, NEW s \in Session, NEW r \in ReqOK, Become(s, r), Ready(r, task),
           UNCHANGED <<vars, runtime, sweeper>>,
           agent' \in AgentTable, issue' \in IssueTable, delivered' \in [Task -> BOOLEAN]
    PROVE  Advances(s)
  BY ServiceTypes DEF Advances, Become, vars

LEMMA FinishAdvances ==
    ASSUME SInv, NEW s \in Session, Finish(s), UNCHANGED <<vars, rows, sweeper>>
    PROVE  Advances(s)
  BY FreeIsReady, Advance DEF Finish

LEMMA AgentStatusTypes ==
    ASSUME SInv, NEW a, NEW busy, SetAgentStatus(a, busy)
    PROVE  agent' \in AgentTable
  BY ServiceTypes DEF SetAgentStatus, AgentTable

\* The end of a candidate, in the loop of a poll.
LEMMA NextCandidateReady ==
    ASSUME SInv, NEW s \in Session, NextCandidate(s)
    PROVE  \E r \in ReqOK : Become(s, r) /\ Ready(r, task)
  <1> DEFINE left == {t \in req[s].todo : task[t].agent # req[s].agent}
             q == [req[s] EXCEPT !.pc = "nextAgent", !.todo = left, !.agent = None, !.task = 0]
  <1>1. CASE left = {}
    BY <1>1, FreeIsReady DEF NextCandidate, Finish
  <1>2. CASE left # {}
    <2>1. Become(s, q)
      BY <1>2 DEF NextCandidate
    <2>2. req[s] \in ReqOK /\ Ready(req[s], task)
      BY ServiceTypes
    <2>3. q \in ReqOK
      BY <2>2 DEF ReqOK
    <2>4. Ready(q, task)
      BY <2>2 DEF Ready, ReqOK, Enqueuing
    <2> QED BY <2>1, <2>3, <2>4
  <1> QED BY <1>1, <1>2

LEMMA PollsAdvance ==
    ASSUME SInv, NEW s \in Session, Polls(s)
    PROVE  Advances(s)
  <1>0. req[s] \in ReqOK /\ Ready(req[s], task)
    BY ServiceTypes
  <1>1. ASSUME NEW r \in Runtime, Poll(s, r) PROVE Advances(s)
    <2> DEFINE listed == {t \in Task : task[t].runtime = r /\ task[t].status \in Pending}
               q == [Free EXCEPT !.pc = "nextAgent", !.op = "poll", !.runtime = r, !.todo = listed]
    <2>1. Become(s, q) /\ UNCHANGED <<vars, rows, sweeper>>
      BY <1>1 DEF Poll
    <2>2. q \in ReqOK /\ Ready(q, task)
      BY FreeIsReady DEF ReqOK, Free, Ready, Enqueuing, Pending
    <2> QED BY <2>1, <2>2, Advance
  <1>2. CASE CheckCapacity(s)
    <2>1. PICK t \in req[s].todo :
            Become(s, [req[s] EXCEPT !.agent = task[t].agent,
                         !.pc = IF AtCapacity(task[t].agent) THEN "noTask" ELSE "claim"])
      BY <1>2 DEF CheckCapacity
    <2> DEFINE q == [req[s] EXCEPT !.agent = task[t].agent,
                         !.pc = IF AtCapacity(task[t].agent) THEN "noTask" ELSE "claim"]
    <2>2. t \in Task /\ task[t].agent \in Agent
      <3>1. t \in Task /\ Exists(t)
        BY <1>0 DEF ReqOK, Ready, Exists
      <3>2. task[t] \in Row
        BY <3>1, RowTypes, ServiceTypes
      <3> QED BY <3>1, <3>2 DEF Row
    <2>3. q \in ReqOK
      <3>1. \A v \in {"noTask", "claim"} :
              [req[s] EXCEPT !.agent = task[t].agent, !.pc = v] \in ReqOK
        BY <1>0, <2>2 DEF ReqOK
      <3> QED BY <3>1
    <2>4. /\ q.pc \in {"noTask", "claim"}
          /\ q.agent = task[t].agent /\ q.todo = req[s].todo
      BY <1>0 DEF ReqOK
    <2>5. Ready(q, task)
      BY <1>0, <2>2, <2>4 DEF Ready, Enqueuing
    <2> QED BY <1>2, <2>1, <2>3, <2>5, Advance DEF CheckCapacity
  <1>3. CASE BeginClaim(s)
    <2> DEFINE q == [req[s] EXCEPT !.pc = "claiming"]
    <2>1. Become(s, q) /\ req[s].pc = "claim" /\ ClaimSnapshot(s, req[s].agent)
      BY <1>3 DEF BeginClaim, At, Goto
    <2>2. q \in ReqOK
      BY <1>0 DEF ReqOK
    <2>3. Ready(q, task')
      BY <1>0, <2>1 DEF ReqOK, Ready, Enqueuing, ClaimSnapshot
    <2>4. Next
      BY <1>0, <2>1 DEF Ready, Next, Claim
    <2> QED BY <1>3, <2>1, <2>2, <2>3, <2>4, AdvanceRows DEF BeginClaim
  <1>4. CASE EndClaim(s)
    <2>1. CASE \E t \in Task : ClaimLock(s, t) /\ UNCHANGED req
      <3>1. Next
        BY <2>1 DEF Next, Claim
      <3>2. Ready(req[s], task') /\ Become(s, req[s])
        BY <1>0, <2>1, ServiceTypes DEF ClaimLock, Become
      <3> QED BY <1>0, <1>4, <3>1, <3>2, AdvanceRows DEF EndClaim
    <2>2. CASE ClaimCommit(s) /\ Become(s, [req[s] EXCEPT !.pc = "markWorking", !.task = claim[s].row])
      <3> DEFINE q == [req[s] EXCEPT !.pc = "markWorking", !.task = claim[s].row]
      <3>1. Next
        BY <2>2 DEF Next, Claim
      <3>2. q \in ReqOK
        BY <1>0, ServiceTypes DEF ReqOK, TypeOK
      <3>3. Ready(q, task')
        <4>1. \A t \in q.todo : task'[t].status # "absent"
          BY <1>0, <3>1, RowsStay, ServiceTypes DEF ReqOK, Ready, Exists
        <4> QED BY <1>0, <4>1 DEF ReqOK, Ready, Enqueuing
      <3> QED BY <1>4, <2>2, <3>1, <3>2, <3>3, AdvanceRows DEF EndClaim
    <2>3. CASE ClaimNothing(s) /\ Goto(s, "noTask")
      <3> DEFINE q == [req[s] EXCEPT !.pc = "noTask"]
      <3>1. Next
        BY <2>3 DEF Next, Claim
      <3>2. q \in ReqOK /\ Become(s, q)
        BY <1>0, <2>3 DEF ReqOK, Goto
      <3>3. Ready(q, task')
        BY <1>0, <2>3 DEF ReqOK, Ready, Enqueuing, ClaimNothing
      <3> QED BY <1>4, <3>1, <3>2, <3>3, AdvanceRows DEF EndClaim
    <2> QED BY <1>4, <2>1, <2>2, <2>3 DEF EndClaim
  <1>5. CASE MarkWorking(s)
    <2>1. agent' \in AgentTable
      BY <1>5, AgentStatusTypes DEF MarkWorking
    <2>2. delivered' \in [Task -> BOOLEAN]
      BY <1>5, ServiceTypes DEF MarkWorking
    <2>3. \E r \in ReqOK : Become(s, r) /\ Ready(r, task)
      BY <1>5, NextCandidateReady, FreeIsReady DEF MarkWorking, Finish
    <2> QED BY <1>5, <2>1, <2>2, <2>3, ServiceTypes, AdvanceOthers DEF MarkWorking
  <1>6. CASE NoTask(s)
    BY <1>6, NextCandidateReady, Advance DEF NoTask
  <1> QED BY <1>1, <1>2, <1>3, <1>4, <1>5, <1>6 DEF Polls

-----------------------------------------------------------------------------
\* A report or a cancel changes the row, and the handler goes on to the stage or
\* to the agent's status.
LEMMA HandleAdvances ==
    ASSUME SInv, NEW s \in Session, NEW t \in Task,
           NEW op \in {"start", "complete", "fail", "cancel"},
           NEW pc \in {"getIssue", "count"}, Handle(s, op, t, pc), Next
    PROVE  Advances(s)
  <1> DEFINE q == [Free EXCEPT !.pc = pc, !.op = op, !.task = t]
  <1>1. Become(s, q) /\ UNCHANGED <<rows, sweeper>>
    BY DEF Handle
  <1>2. q \in ReqOK
    BY FreeIsReady DEF ReqOK, Free
  <1>3. Ready(q, task')
    BY FreeIsReady DEF Ready, Enqueuing, Free
  <1> QED BY <1>1, <1>2, <1>3, AdvanceRows

LEMMA StageAfterTypes == \A op, t : StageAfter(op, t) \in Stage
  BY DEF StageAfter, RunningStage, CompletedStage, FailedStage, Stage

\* The handlers that follow a report need nothing they have not read.
LEMMA ProceedReady ==
    ASSUME SInv, NEW s \in Session, NEW pc \in {"free", "getIssue", "setStage", "count"},
           Proceed(s, pc)
    PROVE  \E r \in ReqOK : Become(s, r) /\ Ready(r, task)
  <1>1. CASE pc = "free"
    BY <1>1, FreeIsReady DEF Proceed, Finish
  <1>2. CASE pc # "free"
    <2> DEFINE q == [req[s] EXCEPT !.pc = pc]
    <2>1. req[s] \in ReqOK /\ Ready(req[s], task)
      BY ServiceTypes
    <2>2. Become(s, q) /\ q \in ReqOK
      BY <1>2, <2>1 DEF Proceed, Goto, ReqOK
    <2>3. Ready(q, task)
      BY <1>2, <2>1 DEF Ready, ReqOK, Enqueuing
    <2> QED BY <2>2, <2>3
  <1> QED BY <1>1, <1>2

LEMMA TaskUpdatesAdvance ==
    ASSUME SInv, NEW s \in Session, TaskUpdates(s)
    PROVE  Advances(s)
  <1>0. req[s] \in ReqOK /\ Ready(req[s], task)
    BY ServiceTypes
  <1>1. ASSUME NEW t \in Task, StartTask(s, t) PROVE Advances(s)
    <2>1. Next
      BY <1>1 DEF StartTask, Next, Report
    <2> QED BY <1>1, <2>1, HandleAdvances DEF StartTask
  <1>2. ASSUME NEW t \in Task, CompleteTask(s, t) PROVE Advances(s)
    <2>1. Next
      BY <1>2 DEF CompleteTask, Next, Report
    <2> QED BY <1>2, <2>1, HandleAdvances DEF CompleteTask
  <1>3. ASSUME NEW t \in Task, FailTask(s, t) PROVE Advances(s)
    <2>1. Next
      BY <1>3 DEF FailTask, Next, Report
    <2> QED BY <1>3, <2>1, HandleAdvances DEF FailTask
  <1>4. ASSUME NEW t \in Task, CancelTask(s, t) PROVE Advances(s)
    <2>1. Next
      BY <1>4 DEF CancelTask, Next, Cancel
    <2> QED BY <1>4, <2>1, HandleAdvances DEF CancelTask
  <1>5. CASE GetIssue(s)
    <2>1. \E pc \in {"free", "setStage", "count"} : Proceed(s, pc)
      BY <1>5 DEF GetIssue, Proceed
    <2>2. \E r \in ReqOK : Become(s, r) /\ Ready(r, task)
      BY <2>1, ProceedReady
    <2> QED BY <1>5, <2>2, Advance DEF GetIssue
  <1>6. CASE SetStage(s)
    <2>1. \E r \in ReqOK : Become(s, r) /\ Ready(r, task)
      BY <1>6, ProceedReady DEF SetStage
    <2>2. issue' \in IssueTable
      BY <1>6, ServiceTypes, StageAfterTypes DEF SetStage, IssueTable
    <2> QED BY <1>6, <2>1, <2>2, ServiceTypes, AdvanceOthers DEF SetStage
  <1>7. CASE CountTasks(s)
    <2> DEFINE q == [req[s] EXCEPT !.pc = "setStatus",
                       !.busy = RunningOf(task[req[s].task].agent) # {}]
    <2>1. q \in ReqOK
      <3>1. \A b \in BOOLEAN : [req[s] EXCEPT !.pc = "setStatus", !.busy = b] \in ReqOK
        BY <1>0 DEF ReqOK
      <3> QED BY <3>1
    <2>2. Ready(q, task)
      <3>1. q.pc = "setStatus" /\ q.todo = req[s].todo
        BY <1>0 DEF ReqOK
      <3> QED BY <1>0, <3>1 DEF Ready, Enqueuing
    <2> QED BY <1>7, <2>1, <2>2, Advance DEF CountTasks
  <1>8. CASE ReconcileStatus(s)
    <2>1. \E r \in ReqOK : Become(s, r) /\ Ready(r, task)
      BY <1>8, ProceedReady DEF ReconcileStatus
    <2>2. agent' \in AgentTable
      BY <1>8, AgentStatusTypes DEF ReconcileStatus
    <2> QED BY <1>8, <2>1, <2>2, ServiceTypes, AdvanceOthers DEF ReconcileStatus
  <1> QED BY <1>1, <1>2, <1>3, <1>4, <1>5, <1>6, <1>7, <1>8 DEF TaskUpdates

-----------------------------------------------------------------------------
Known(r, tasks) == \A t \in r.todo : tasks[t].status # "absent"

LEMMA Modes ==
    ASSUME NEW stage
    PROVE  PreferredTaskMode(stage) \in Mode
  BY TaskServiceAssumption DEF PreferredTaskMode

LEMMA QueueStageTypes == \A mode : QueueStage(mode) \in Stage
  BY DEF QueueStage, Stage

\* A handler with the issue, the agent and the mode may go on to any check.
LEMMA GotoReady ==
    ASSUME SInv, NEW s \in Session, NEW pc \in Enqueuing \ {"queueStage", "insert"},
           req[s].issue \in Issue, req[s].mode \in Mode, req[s].op # "fanOut",
           pc # "nextMention" => req[s].agent \in Agent,
           Goto(s, pc)
    PROVE  \E r \in ReqOK : Become(s, r) /\ \A tasks : Known(req[s], tasks) => Ready(r, tasks)
  <1> DEFINE q == [req[s] EXCEPT !.pc = pc]
  <1>1. req[s] \in ReqOK
    BY ServiceTypes
  <1>2. q \in ReqOK /\ Become(s, q)
    BY <1>1 DEF Goto, ReqOK, Enqueuing
  <1>3. ASSUME NEW tasks, Known(req[s], tasks) PROVE Ready(q, tasks)
    <2>1. /\ q.pc = pc /\ q.todo = req[s].todo /\ q.issue = req[s].issue
          /\ q.mode = req[s].mode /\ q.op = req[s].op /\ q.agent = req[s].agent
      BY <1>1 DEF ReqOK
    <2> QED BY <1>3, <2>1 DEF Ready, Known, Enqueuing
  <1> QED BY <1>2, <1>3

\* After an enqueue: the next mention, or the end.
LEMMA AfterEnqueueReady ==
    ASSUME SInv, NEW s \in Session, req[s].issue \in Issue, req[s].mode \in Mode,
           req[s].op # "fanOut", AfterEnqueue(s)
    PROVE  \E r \in ReqOK : Become(s, r) /\ \A tasks : Known(req[s], tasks) => Ready(r, tasks)
  <1>1. CASE Finish(s)
    BY <1>1, FreeIsReady DEF Finish
  <1>2. CASE Goto(s, "nextMention")
    BY <1>2, GotoReady DEF Enqueuing
  <1> QED BY <1>1, <1>2 DEF AfterEnqueue

\* The first step of a request that loads its issue.
LEMMA LoadReady ==
    ASSUME SInv, NEW i \in Issue, NEW a \in Agent \cup {None},
           NEW mode \in Mode,
           NEW op \in {"assign", "edit", "comment", "mention", "confirm"},
           NEW pc \in {"updateIssue", "cancelIssue", "nextMention", "checkPending", "checkActive"},
           pc = "updateIssue" => op \in {"assign", "edit"},
           pc # "nextMention" /\ op # "edit" => a \in Agent,
           op = "edit" => pc = "updateIssue"
    PROVE  /\ Loaded(op, i, a, mode, pc) \in ReqOK
           /\ \A tasks : Ready(Loaded(op, i, a, mode, pc), tasks)
           /\ \A M \in SUBSET Agent :
                LET r == [Loaded(op, i, a, mode, pc) EXCEPT !.mentions = M]
                IN  r \in ReqOK /\ \A tasks : Ready(r, tasks)
  <1> DEFINE l == Loaded(op, i, a, mode, pc)
  <1>1. issue[i].stage \in Stage
    BY ServiceTypes DEF IssueTable
  <1>2. l \in ReqOK
    BY <1>1, FreeIsReady DEF Loaded, Free, ReqOK
  <1>3. /\ l.pc = pc /\ l.op = op /\ l.issue = i /\ l.agent = a /\ l.mode = mode
        /\ l.todo = {}
    BY DEF Loaded, Free
  <1> HIDE DEF l
  <1>4. \A tasks : Ready(l, tasks)
    BY <1>3 DEF Ready, Enqueuing
  <1>5. ASSUME NEW M \in SUBSET Agent
        PROVE  LET r == [l EXCEPT !.mentions = M]
               IN  r \in ReqOK /\ \A tasks : Ready(r, tasks)
    <2> DEFINE r == [l EXCEPT !.mentions = M]
    <2>1. r \in ReqOK
      BY <1>2 DEF ReqOK
    <2>2. /\ r.pc = pc /\ r.op = op /\ r.issue = i /\ r.agent = a /\ r.mode = mode
          /\ r.todo = {}
      BY <1>2, <1>3 DEF ReqOK
    <2>3. \A tasks : Ready(r, tasks)
      BY <2>2 DEF Ready, Enqueuing
    <2> QED BY <2>1, <2>3
  <1> QED BY <1>2, <1>4, <1>5 DEF l

LEMMA EnqueuesAdvance ==
    ASSUME SInv, NEW s \in Session, Enqueues(s)
    PROVE  Advances(s)
  <1>0. /\ req[s] \in ReqOK /\ Ready(req[s], task) /\ Known(req[s], task)
        /\ issue \in IssueTable
    BY ServiceTypes DEF Ready, Known
  <1>1. ASSUME NEW i \in Issue, NEW a \in Agent, AssignIssue(s, i, a) PROVE Advances(s)
    <2>1. "plan" \in Mode
      BY TaskServiceAssumption
    <2>2. /\ Loaded("assign", i, a, "plan", "updateIssue") \in ReqOK
          /\ Ready(Loaded("assign", i, a, "plan", "updateIssue"), task)
      BY <2>1, LoadReady
    <2> QED BY <1>1, <2>2, Advance DEF AssignIssue, Load
  <1>2. ASSUME NEW i \in Issue, NEW a \in Agent \cup {None}, EditIssue(s, i, a) PROVE Advances(s)
    <2>1. "plan" \in Mode
      BY TaskServiceAssumption
    <2>2. /\ Loaded("edit", i, a, "plan", "updateIssue") \in ReqOK
          /\ Ready(Loaded("edit", i, a, "plan", "updateIssue"), task)
      BY <2>1, LoadReady
    <2> QED BY <1>2, <2>2, Advance DEF EditIssue, Load
  <1>3. ASSUME NEW i \in Issue, NEW M \in SUBSET Agent, Comment(s, i, M) PROVE Advances(s)
    <2> DEFINE q == [Loaded("comment", i, issue[i].assignee,
                       PreferredTaskMode(issue[i].stage), "checkPending") EXCEPT !.mentions = M]
    <2>1. issue[i].assignee \in Agent
      BY <1>0, <1>3 DEF Comment, IssueTable
    <2>2. q \in ReqOK /\ Ready(q, task)
      BY <2>1, Modes, LoadReady
    <2> QED BY <1>3, <2>2, Advance DEF Comment
  <1>4. ASSUME NEW i \in Issue, NEW M \in SUBSET Agent, Mention(s, i, M) PROVE Advances(s)
    <2> DEFINE q == [Loaded("mention", i, None, PreferredTaskMode(issue[i].stage),
                       "nextMention") EXCEPT !.mentions = M]
    <2>1. q \in ReqOK /\ Ready(q, task)
      BY Modes, LoadReady
    <2> QED BY <1>4, <2>1, Advance DEF Mention
  <1>5. ASSUME NEW i \in Issue, ConfirmPlan(s, i) PROVE Advances(s)
    <2>1. issue[i].assignee \in Agent /\ "build" \in Mode
      BY <1>0, <1>5, TaskServiceAssumption DEF ConfirmPlan, IssueTable
    <2>2. /\ Loaded("confirm", i, issue[i].assignee, "build", "checkActive") \in ReqOK
          /\ Ready(Loaded("confirm", i, issue[i].assignee, "build", "checkActive"), task)
      BY <2>1, LoadReady
    <2> QED BY <1>5, <2>2, Advance DEF ConfirmPlan, Load
  <1>6. CASE UpdateIssue(s)
    <2> DEFINE i == req[s].issue
               q == Loaded("assign", i, req[s].agent, PreferredTaskMode(issue[i].stage),
                           "cancelIssue")
    <2>1. /\ i \in Issue /\ req[s].agent \in Agent \cup {None}
          /\ req[s].op = "assign" => req[s].agent \in Agent
      BY <1>0, <1>6 DEF UpdateIssue, At, Ready, ReqOK
    <2>2. issue' \in IssueTable
      BY <1>0, <1>6, <2>1 DEF UpdateIssue, IssueTable
    <2>3. CASE req[s].op = "assign"
      <3>1. q \in ReqOK /\ Ready(q, task)
        BY <2>1, <2>3, Modes, LoadReady
      <3>2. Become(s, q)
        BY <1>6, <2>3 DEF UpdateIssue, Load
      <3> QED BY <1>6, <2>2, <3>1, <3>2, ServiceTypes, AdvanceOthers DEF UpdateIssue
    <2>4. CASE req[s].op # "assign"
      <3>1. Become(s, Free)
        BY <1>6, <2>4 DEF UpdateIssue, Finish
      <3> QED BY <1>6, <2>2, <3>1, FreeIsReady, ServiceTypes, AdvanceOthers DEF UpdateIssue
    <2> QED BY <2>3, <2>4
  <1>7. CASE CancelTasksForIssue(s)
    <2>1. /\ req[s].issue \in Issue /\ req[s].mode \in Mode /\ req[s].op # "fanOut"
          /\ req[s].agent \in Agent /\ Goto(s, "getAgent")
      BY <1>0, <1>7 DEF CancelTasksForIssue, At, Ready, Enqueuing
    <2>2. Next
      BY <1>7, <2>1 DEF CancelTasksForIssue, Next, Cancel
    <2>3. Known(req[s], task')
      BY <1>0, <2>2, RowsStay, ServiceTypes DEF Known, Exists, ReqOK
    <2>4. \E r \in ReqOK : Become(s, r) /\ Ready(r, task')
      BY <2>1, <2>3, GotoReady DEF Enqueuing
    <2> QED BY <1>7, <2>2, <2>4, AdvanceRows DEF CancelTasksForIssue
  <1>8. CASE NextMention(s)
    <2>1. CASE \E a \in req[s].mentions :
                 Become(s, [req[s] EXCEPT !.pc = "checkPending", !.op = "mention",
                            !.agent = a, !.mentions = @ \ {a}])
      <3>1. PICK a \in req[s].mentions :
                   Become(s, [req[s] EXCEPT !.pc = "checkPending", !.op = "mention",
                            !.agent = a, !.mentions = @ \ {a}])
        BY <2>1
      <3> DEFINE q == [req[s] EXCEPT !.pc = "checkPending", !.op = "mention",
                            !.agent = a, !.mentions = @ \ {a}]
      <3>2. a \in Agent
        BY <1>0 DEF ReqOK
      <3>3. q \in ReqOK
        BY <1>0, <3>2 DEF ReqOK
      <3>4. /\ q.pc = "checkPending" /\ q.op = "mention" /\ q.agent = a
            /\ q.todo = req[s].todo /\ q.issue = req[s].issue /\ q.mode = req[s].mode
        BY <1>0 DEF ReqOK
      <3>5. req[s].issue \in Issue /\ req[s].mode \in Mode
        BY <1>0, <1>8 DEF NextMention, At, Ready, Enqueuing
      <3>6. Ready(q, task)
        BY <1>0, <3>2, <3>4, <3>5 DEF Ready, Known, Enqueuing
      <3> QED BY <1>8, <3>1, <3>3, <3>6, Advance DEF NextMention
    <2>2. CASE Finish(s)
      BY <1>8, <2>2, FinishAdvances DEF NextMention
    <2> QED BY <1>8, <2>1, <2>2 DEF NextMention
  <1>9. ASSUME NEW pc \in {"checkPending", "checkActive", "latestPlan", "getAgent", "insert"},
               At(s, pc)
        PROVE  /\ req[s].issue \in Issue /\ req[s].mode \in Mode /\ req[s].op # "fanOut"
               /\ req[s].agent \in Agent
    BY <1>0, <1>9 DEF At, Ready, Enqueuing
  <1>10. CASE CheckPending(s)
    <2>1. \E r \in ReqOK : Become(s, r) /\ Ready(r, task)
      BY <1>0, <1>9, <1>10, GotoReady, AfterEnqueueReady DEF CheckPending, Enqueuing
    <2> QED BY <1>10, <2>1, Advance DEF CheckPending
  <1>11. CASE CheckActive(s)
    <2>1. Finish(s) \/ Goto(s, "latestPlan")
      BY <1>11 DEF CheckActive
    <2>2. \E r \in ReqOK : Become(s, r) /\ Ready(r, task)
      BY <1>0, <1>9, <1>11, <2>1, GotoReady, FreeIsReady DEF CheckActive, Finish, Enqueuing
    <2> QED BY <1>11, <2>2, Advance DEF CheckActive
  <1>12. CASE LatestPlan(s)
    <2>1. Finish(s) \/ Goto(s, "getAgent")
      BY <1>12 DEF LatestPlan
    <2>2. \E r \in ReqOK : Become(s, r) /\ Ready(r, task)
      BY <1>0, <1>9, <1>12, <2>1, GotoReady, FreeIsReady DEF LatestPlan, Finish, Enqueuing
    <2> QED BY <1>12, <2>2, Advance DEF LatestPlan
  <1>13. CASE GetAgent(s)
    <2>1. CASE AfterEnqueue(s)
      <3>1. \E r \in ReqOK : Become(s, r) /\ Ready(r, task)
        BY <1>0, <1>9, <1>13, <2>1, AfterEnqueueReady DEF GetAgent
      <3> QED BY <1>13, <3>1, Advance DEF GetAgent
    <2>2. CASE \E pc \in {"insert", "queueStage"} :
                 Become(s, [req[s] EXCEPT !.runtime = agent[req[s].agent].runtime, !.pc = pc])
      <3>1. PICK pc \in {"insert", "queueStage"} :
                 Become(s, [req[s] EXCEPT !.runtime = agent[req[s].agent].runtime, !.pc = pc])
        BY <2>2
      <3> DEFINE q == [req[s] EXCEPT !.runtime = agent[req[s].agent].runtime, !.pc = pc]
      <3>2. /\ req[s].issue \in Issue /\ req[s].mode \in Mode /\ req[s].op # "fanOut"
            /\ req[s].agent \in Agent
        BY <1>9, <1>13 DEF GetAgent
      <3>3. agent[req[s].agent].runtime \in Runtime
        BY <3>2, ServiceTypes DEF AgentTable
      <3>4. q \in ReqOK
        BY <1>0, <3>3 DEF ReqOK
      <3>5. /\ q.pc = pc /\ q.op = req[s].op /\ q.agent = req[s].agent
            /\ q.runtime = agent[req[s].agent].runtime
            /\ q.todo = req[s].todo /\ q.issue = req[s].issue /\ q.mode = req[s].mode
        BY <1>0 DEF ReqOK
      <3>6. Ready(q, task)
        BY <1>0, <3>2, <3>3, <3>5 DEF Ready, Known, Enqueuing
      <3> QED BY <1>13, <3>1, <3>4, <3>6, Advance DEF GetAgent
    <2> QED BY <1>13, <2>1, <2>2 DEF GetAgent
  <1>14. CASE WriteQueueStage(s)
    <2>1. issue' \in IssueTable
      BY <1>0, <1>14, QueueStageTypes DEF WriteQueueStage, IssueTable
    <2>2. CASE Finish(s)
      BY <1>14, <2>1, <2>2, FreeIsReady, ServiceTypes, AdvanceOthers DEF WriteQueueStage, Finish
    <2>3. CASE req[s].op # "fanOut" /\ Goto(s, "insert")
      <3> DEFINE q == [req[s] EXCEPT !.pc = "insert"]
      <3>1. q \in ReqOK /\ Become(s, q)
        BY <1>0, <2>3 DEF ReqOK, Goto
      <3>2. /\ q.pc = "insert" /\ q.op = req[s].op /\ q.agent = req[s].agent
            /\ q.runtime = req[s].runtime
            /\ q.todo = req[s].todo /\ q.issue = req[s].issue /\ q.mode = req[s].mode
        BY <1>0 DEF ReqOK
      <3>3. Ready(q, task)
        BY <1>0, <1>14, <2>3, <3>2 DEF WriteQueueStage, At, Ready, Known, Enqueuing
      <3> QED BY <1>14, <2>1, <3>1, <3>3, ServiceTypes, AdvanceOthers DEF WriteQueueStage
    <2> QED BY <1>14, <2>2, <2>3 DEF WriteQueueStage
  <1>15. CASE InsertTask(s)
    <2>1. /\ req[s].issue \in Issue /\ req[s].mode \in Mode /\ req[s].op # "fanOut"
          /\ req[s].agent \in Agent /\ req[s].runtime \in Runtime
      BY <1>0, <1>15 DEF InsertTask, At, Ready, Enqueuing
    <2>2. [Next]_vars
      BY <1>15, <2>1 DEF InsertTask, Next, Insert
    <2>3. Known(req[s], task')
      BY <1>0, <2>2, RowsStay, ServiceTypes DEF Known, Exists, ReqOK
    <2>4. \E r \in ReqOK : Become(s, r) /\ Ready(r, task')
      BY <1>15, <2>1, <2>3, AfterEnqueueReady DEF InsertTask
    <2> QED BY <1>15, <2>2, <2>4, AdvanceRows DEF InsertTask
  <1> QED BY <1>1, <1>2, <1>3, <1>4, <1>5, <1>6, <1>7, <1>8, <1>10, <1>11, <1>12, <1>13,
             <1>14, <1>15 DEF Enqueues

-----------------------------------------------------------------------------
LEMMA SpecTypes ==
    ASSUME NEW specs \in FanOuts
    PROVE  /\ Len(specs) \in Nat /\ 1 \in 1 .. Len(specs)
           /\ \A k \in 1 .. Len(specs) : specs[k].agent \in Agent /\ specs[k].mode \in Mode
  <1>1. specs \in Seq([agent : Agent, mode : Mode]) /\ specs # <<>>
    BY TaskServiceAssumption
  <1>2. \A k \in 1 .. Len(specs) : specs[k] \in [agent : Agent, mode : Mode]
    <2> DEFINE Spawns == [agent : Agent, mode : Mode]
    <2>1. specs \in Seq(Spawns)
      BY <1>1
    <2> HIDE DEF Spawns
    <2>2. \A k \in 1 .. Len(specs) : specs[k] \in Spawns
      BY <2>1, ElementOfSeq
    <2> QED BY <2>2 DEF Spawns
  <1>3. Len(specs) \in Nat /\ Len(specs) # 0
    BY <1>1
  <1> QED BY <1>2, <1>3

LEMMA FansAdvance ==
    ASSUME SInv, NEW s \in Session, Fans(s)
    PROVE  Advances(s)
  <1>0. /\ req[s] \in ReqOK /\ Ready(req[s], task) /\ Known(req[s], task)
        /\ issue \in IssueTable
    BY ServiceTypes DEF Ready, Known
  <1>1. ASSUME NEW t \in Task, NEW specs \in FanOuts, FanOutTask(s, t, specs)
        PROVE  Advances(s)
    <2> DEFINE i == task[t].issue
               q == [Free EXCEPT !.pc = "fanInsert", !.op = "fanOut", !.task = t,
                       !.issue = i, !.stage = issue[i].stage,
                       !.mode = specs[1].mode, !.specs = specs, !.k = 1]
    <2>1. Exists(t) /\ Become(s, q)
      BY <1>1 DEF FanOutTask
    <2>2. i \in Issue
      BY <2>1, RowTypes, ServiceTypes DEF Row
    <2>3. issue[i].stage \in Stage /\ specs[1].mode \in Mode
      BY <1>0, <2>2, SpecTypes DEF IssueTable
    <2>4. q \in ReqOK
      BY <2>2, <2>3 DEF ReqOK, Free
    <2>5. /\ q.pc = "fanInsert" /\ q.op = "fanOut" /\ q.task = t /\ q.issue = i
          /\ q.mode = specs[1].mode /\ q.specs = specs /\ q.k = 1 /\ q.todo = {}
      BY DEF Free
    <2>6. Ready(q, task)
      BY <2>1, <2>2, <2>3, <2>5, SpecTypes DEF Ready, Enqueuing, Exists
    <2> QED BY <1>1, <2>1, <2>4, <2>6, Advance DEF FanOutTask
  <1>2. CASE InsertChild(s)
    <2> DEFINE specs == req[s].specs
               k     == req[s].k
               a     == specs[k].agent
    <2>1. /\ At(s, "fanInsert") /\ UNCHANGED <<rows, sweeper>>
          /\ \/ Finish(s) /\ UNCHANGED vars
             \/ /\ \E t \in Task, p \in Priority :
                     CreateAgentTask(t, a, req[s].issue, agent[a].runtime,
                                     specs[k].mode, p, req[s].task)
                /\ \/ Finish(s)
                   \/ Become(s, [req[s] EXCEPT !.pc = "fanInsert", !.k = k + 1])
                        /\ k < Len(specs)
                   \/ Become(s, [req[s] EXCEPT !.pc = "queueStage", !.k = k + 1])
      BY <1>2 DEF InsertChild
    <2>2. /\ req[s].op = "fanOut" /\ req[s].issue \in Issue /\ req[s].mode \in Mode
          /\ req[s].task \in Task /\ Exists(req[s].task)
          /\ task[req[s].task].issue = req[s].issue
          /\ specs \in FanOuts /\ k \in 1 .. Len(specs)
      BY <1>0, <2>1 DEF At, Ready, Exists
    <2>3. /\ a \in Agent /\ specs[k].mode \in Mode /\ Len(specs) \in Nat
          /\ agent[a].runtime \in Runtime
      BY <2>2, SpecTypes, ServiceTypes DEF AgentTable
    <2>4. CASE Finish(s) /\ UNCHANGED vars
      BY <2>1, <2>4, FinishAdvances
    <2>5. CASE \E t \in Task, p \in Priority :
                 CreateAgentTask(t, a, req[s].issue, agent[a].runtime,
                                 specs[k].mode, p, req[s].task)
      <3> HIDE DEF a, specs, k
      <3>1. Next
        BY <2>2, <2>3, <2>5 DEF Next, Insert, specs, k
      <3>2. /\ Known(req[s], task')
            /\ task'[req[s].task].status # "absent"
            /\ task'[req[s].task].issue = req[s].issue
        BY <1>0, <2>2, <3>1, RowsStay, ServiceTypes DEF Known, Exists, ReqOK
      <3>3. ASSUME NEW pc \in {"fanInsert", "queueStage"}, pc = "fanInsert" => k < Len(specs)
            PROVE  LET q == [req[s] EXCEPT !.pc = pc, !.k = k + 1]
                   IN  q \in ReqOK /\ Ready(q, task')
        <4> DEFINE q == [req[s] EXCEPT !.pc = pc, !.k = k + 1]
        <4>1. q \in ReqOK
          <5>1. \A n \in Nat : [req[s] EXCEPT !.pc = pc, !.k = n] \in ReqOK
            BY <1>0 DEF ReqOK
          <5>2. k + 1 \in Nat
            BY <2>2, <2>3
          <5> QED BY <5>1, <5>2
        <4>2. /\ q.pc = pc /\ q.k = k + 1 /\ q.op = "fanOut"
              /\ q.issue = req[s].issue /\ q.mode = req[s].mode /\ q.task = req[s].task
              /\ q.specs = specs /\ q.todo = req[s].todo
          BY <1>0, <2>2 DEF ReqOK, specs
        <4>3. Ready(q, task')
          BY <2>2, <2>3, <3>2, <3>3, <4>2 DEF Ready, Known, Enqueuing
        <4> QED BY <4>1, <4>3
      <3>4. \E r \in ReqOK : Become(s, r) /\ Ready(r, task')
        BY <2>1, <2>5, <3>3, FreeIsReady DEF Finish, k, specs, CreateAgentTask, IsNextId, vars
      <3> QED BY <2>1, <3>1, <3>4, AdvanceRows
    <2> QED BY <2>1, <2>4, <2>5
  <1> QED BY <1>1, <1>2 DEF Fans

LEMMA AgentUpdatesAdvance ==
    ASSUME SInv, NEW s \in Session, AgentUpdates(s)
    PROVE  Advances(s)
  <1>0. req[s] \in ReqOK /\ Ready(req[s], task) /\ agent \in AgentTable
    BY ServiceTypes
  <1>1. Become(s, req[s]) <=> UNCHANGED req
    BY ServiceTypes DEF Become
  <1>2. ASSUME NEW a \in Agent, NEW r \in Runtime, MoveAgent(s, a, r) PROVE Advances(s)
    <2>1. agent' \in AgentTable
      BY <1>0, <1>2 DEF MoveAgent, AgentTable
    <2> QED BY <1>0, <1>1, <1>2, <2>1, ServiceTypes, AdvanceOthers DEF MoveAgent
  <1>3. ASSUME NEW a \in Agent, ArchiveAgent(s, a) PROVE Advances(s)
    <2> DEFINE q == [Free EXCEPT !.pc = "cancelAgent", !.op = "archive", !.agent = a]
    <2>1. agent' \in AgentTable
      BY <1>0, <1>3 DEF ArchiveAgent, AgentTable
    <2>2. q \in ReqOK /\ Ready(q, task)
      BY FreeIsReady DEF Free, ReqOK, Ready, Enqueuing
    <2> QED BY <1>3, <2>1, <2>2, ServiceTypes, AdvanceOthers DEF ArchiveAgent
  <1>4. ASSUME NEW a \in Agent, RestoreAgent(s, a) PROVE Advances(s)
    <2>1. agent' \in AgentTable
      BY <1>0, <1>4 DEF RestoreAgent, AgentTable
    <2> QED BY <1>0, <1>1, <1>4, <2>1, ServiceTypes, AdvanceOthers DEF RestoreAgent
  <1>5. CASE CancelTasksForAgent(s)
    <2>1. req[s].agent \in Agent
      BY <1>0, <1>5 DEF CancelTasksForAgent, At, Ready
    <2>2. [Next]_vars
      BY <1>5, <2>1 DEF CancelTasksForAgent, Next, Cancel
    <2> QED BY <1>5, <2>2, FreeIsReady, AdvanceRows DEF CancelTasksForAgent, Finish
  <1> QED BY <1>2, <1>3, <1>4, <1>5 DEF AgentUpdates

LEMMA AbandonAdvances ==
    ASSUME SInv, NEW s \in Session, Abandon(s)
    PROVE  Advances(s)
  <1>1. [Next]_vars
    <2>1. CASE claim[s] = NoClaim
      BY <2>1, ServiceTypes DEF Abandon, ClaimAbort, TypeOK, vars
    <2>2. CASE claim[s] # NoClaim
      BY <2>2 DEF Abandon, Next, Claim
    <2> QED BY <2>1, <2>2
  <1> QED BY <1>1, FreeIsReady, AdvanceRows DEF Abandon, Finish

-----------------------------------------------------------------------------
\* The steps that are no handler's.
Beside ==
    /\ [Next]_vars
    /\ UNCHANGED req
    /\ agent' \in AgentTable
    /\ issue' \in IssueTable
    /\ runtime' \in RuntimeTable
    /\ delivered' \in [Task -> BOOLEAN]
    /\ sweeper' \in SweeperOK

LEMMA RuntimesBeside ==
    ASSUME SInv, Runtimes
    PROVE  Beside
  <1>1. PICK r \in Runtime : Heartbeat(r) \/ Lapse(r) \/ DaemonDeregister(r)
    BY DEF Runtimes
  <1>2. runtime' \in RuntimeTable
    <2>1. runtime \in RuntimeTable
      BY ServiceTypes
    <2>2. CASE Heartbeat(r)
      BY <2>1, <2>2 DEF Heartbeat, RuntimeTable
    <2>3. CASE Lapse(r)
      BY <2>1, <2>3 DEF Lapse, RuntimeTable
    <2>4. CASE DaemonDeregister(r)
      BY <2>1, <2>4 DEF DaemonDeregister, RuntimeTable
    <2> QED BY <1>1, <2>2, <2>3, <2>4
  <1> QED BY <1>1, <1>2, ServiceTypes DEF Beside, Heartbeat, Lapse, DaemonDeregister, vars

LEMMA AsleepTypes == Asleep \in SweeperOK
  BY DEF Asleep, SweeperOK

LEMMA WakeTypes ==
    ASSUME SInv, NEW S \in SUBSET {t \in Task : task[t].status \in Active}, Wake("count", S)
    PROVE  sweeper' \in SweeperOK
  <1>1. {task[t].agent : t \in S} \subseteq Agent
    <2>1. ASSUME NEW t \in S PROVE task[t].agent \in Agent
      <3>1. task[t].status \in Live
        BY DEF Active, Live
      <3>2. task[t] \in Row
        BY <3>1, RowTypes, ServiceTypes
      <3> QED BY <3>2 DEF Row
    <2> QED BY <2>1
  <1> QED BY <1>1, AsleepTypes DEF Wake, Asleep, SweeperOK

LEMMA SweepsBeside ==
    ASSUME SInv, Sweeps
    PROVE  Beside
  <1>0. sweeper \in SweeperOK
    BY ServiceTypes
  <1>1. CASE MarkStaleRuntimesOffline
    <2>1. runtime' \in RuntimeTable
      BY <1>1, ServiceTypes DEF MarkStaleRuntimesOffline, RuntimeTable
    <2>2. sweeper' \in SweeperOK
      BY <1>1 DEF MarkStaleRuntimesOffline, Asleep, SweeperOK
    <2> QED BY <1>1, <2>1, <2>2, ServiceTypes DEF Beside, MarkStaleRuntimesOffline, vars
  <1>2. CASE SweepOrphans
    <2>1. Next
      BY <1>2 DEF SweepOrphans, Offline, Next, Sweep
    <2>2. sweeper' \in SweeperOK
      BY <1>2, WakeTypes DEF SweepOrphans, OrphansOf
    <2> QED BY <1>2, <2>1, <2>2, ServiceTypes DEF Beside, SweepOrphans, rows
  <1>3. ASSUME NEW S \in SUBSET Task, SweepStaleTasks(S) PROVE Beside
    <2>1. Next
      BY <1>3 DEF SweepStaleTasks, Next, Sweep
    <2>2. sweeper' \in SweeperOK
      BY <1>3, WakeTypes DEF SweepStaleTasks, FailStaleTasks
    <2> QED BY <1>3, <2>1, <2>2, ServiceTypes DEF Beside, SweepStaleTasks, rows
  <1>4. ASSUME NEW a \in Agent, SweepCount(a) PROVE Beside
    <2>1. sweeper' \in SweeperOK
      <3>1. \A b \in BOOLEAN : [sweeper EXCEPT !.pc = "set", !.agent = a, !.busy = b] \in SweeperOK
        BY <1>0 DEF SweeperOK
      <3> QED BY <1>4, <3>1 DEF SweepCount
    <2> QED BY <1>4, <2>1, ServiceTypes DEF Beside, SweepCount, vars, rows
  <1>5. CASE SweepSetStatus
    <2>1. agent' \in AgentTable
      BY <1>5, AgentStatusTypes DEF SweepSetStatus
    <2>2. sweeper' \in SweeperOK
      BY <1>0, <1>5, AsleepTypes DEF SweepSetStatus, SweeperOK, Asleep
    <2> QED BY <1>5, <2>1, <2>2, ServiceTypes DEF Beside, SweepSetStatus, vars
  <1> QED BY <1>1, <1>2, <1>3, <1>4, <1>5 DEF Sweeps

-----------------------------------------------------------------------------
LEMMA ServiceInitEstablishes == ServiceInit => SInv
  <1> SUFFICES ASSUME ServiceInit PROVE SInv
    OBVIOUS
  <1>1. IInv
    BY InitEstablishes DEF ServiceInit
  <1>2. \A s \in Session : req[s] = Free
    BY DEF ServiceInit
  <1>3. \A s \in Session : Ready(req[s], task)
    BY <1>2, FreeIsReady
  <1>4. req \in [Session -> ReqOK]
    BY FreeIsReady DEF ServiceInit
  <1>5. sweeper \in SweeperOK
    BY AsleepTypes DEF ServiceInit
  <1>6. ServiceTypeOK
    BY <1>1, <1>4, <1>5 DEF ServiceInit, ServiceTypeOK, SweeperOK, IInv, Stage
  <1> QED BY <1>1, <1>3, <1>6 DEF SInv

LEMMA ServiceSteps ==
    ASSUME SInv, ServiceNext
    PROVE  Beside \/ \E s \in Session : Advances(s)
  BY PollsAdvance, TaskUpdatesAdvance, EnqueuesAdvance, FansAdvance, AgentUpdatesAdvance,
     AbandonAdvances, RuntimesBeside, SweepsBeside DEF ServiceNext

\* What a handler has read stays true while others change the rows.
LEMMA ReadyStays ==
    ASSUME SInv, [Next]_vars, NEW s \in Session
    PROVE  Ready(req[s], task')
  <1>1. req[s] \in ReqOK /\ Ready(req[s], task)
    BY ServiceTypes
  <1>2. \A t \in req[s].todo : task'[t].status # "absent"
    BY <1>1, RowsStay, ServiceTypes DEF Ready, Exists, ReqOK
  <1>3. req[s].pc = "fanInsert" =>
          /\ task'[req[s].task].status # "absent"
          /\ task'[req[s].task].issue = req[s].issue
    BY <1>1, RowsStay, ServiceTypes DEF Ready, Exists
  <1> QED BY <1>1, <1>2, <1>3 DEF Ready

LEMMA ServiceNextPreserves == SInv /\ [ServiceNext]_serviceVars => SInv'
  <1> SUFFICES ASSUME SInv, [ServiceNext]_serviceVars PROVE SInv'
    OBVIOUS
  <1>1. CASE UNCHANGED serviceVars
    <2>1. UNCHANGED vars
      BY <1>1 DEF serviceVars, vars
    <2>2. IInv'
      BY <2>1, ServiceTypes, NextPreserves
    <2>3. ServiceTypeOK'
      BY <1>1, <2>2, ServiceTypes DEF serviceVars, ServiceTypeOK, IInv, AgentTable,
         IssueTable, RuntimeTable, SweeperOK, SInv, TypeOK
    <2> QED BY <1>1, <2>2, <2>3, ServiceTypes DEF SInv, serviceVars
  <1>2. CASE ServiceNext
    <2>1. /\ [Next]_vars
          /\ agent' \in AgentTable /\ issue' \in IssueTable /\ runtime' \in RuntimeTable
          /\ delivered' \in [Task -> BOOLEAN] /\ sweeper' \in SweeperOK
      BY <1>2, ServiceSteps DEF Advances, Beside
    <2>2. IInv'
      BY <2>1, ServiceTypes, NextPreserves
    <2>3. req' \in [Session -> ReqOK] /\ \A s \in Session : Ready(req'[s], task')
      <3>1. CASE Beside
        BY <2>1, <3>1, ReadyStays, ServiceTypes DEF Beside
      <3>2. CASE \E z \in Session : Advances(z)
        <4>1. PICK z \in Session, r \in ReqOK :
                req' = [req EXCEPT ![z] = r] /\ Ready(r, task')
          BY <3>2 DEF Advances
        <4>2. \A s \in Session : Ready(req[s], task')
          BY <2>1, ReadyStays
        <4> QED BY <4>1, <4>2, ServiceTypes
      <3> QED BY <1>2, <3>1, <3>2, ServiceSteps
    <2>4. ServiceTypeOK'
      BY <2>1, <2>2, <2>3 DEF ServiceTypeOK, IInv, AgentTable, IssueTable, RuntimeTable,
         SweeperOK
    <2> QED BY <2>2, <2>3, <2>4 DEF SInv
  <1> QED BY <1>1, <1>2

LEMMA SInvHolds == ServiceSpec => []SInv
  BY ServiceInitEstablishes, ServiceNextPreserves, PTL DEF ServiceSpec

\* Every reachable state of the tables, the handlers and the sweeper is well formed.
THEOREM ServiceTypeCorrect == ServiceSpec => []ServiceTypeOK
  BY SInvHolds, PTL DEF SInv

LEMMA QueueSteps == SInv /\ [ServiceNext]_serviceVars => [Next]_vars
  BY ServiceSteps DEF Advances, Beside, serviceVars, vars

\* Every step of a handler, of a daemon's request or of the sweeper changes the rows
\* as one statement of TaskQueue does, or leaves them alone.
THEOREM ServiceImplementsQueue == ServiceSpec => ImplementsQueue
  <1>1. ServiceInit => Init
    BY DEF ServiceInit
  <1> QED BY <1>1, SInvHolds, QueueSteps, PTL DEF ServiceSpec, Spec, ImplementsQueue

\* What is proved of the table holds of the server, whatever overlaps or stops.
THEOREM ServerKeepsLanes == ServiceSpec => [](OnePendingRoot /\ OneActiveRoot)
  BY SInvHolds, PTL DEF SInv, IInv

\* So every issue has one lane, whatever its handlers do: what the rows of its root
\* tasks go through is what the coalescing queue promises.
THEOREM ServerImplementsLanes == ServiceSpec => ImplementsLane
  BY ServiceImplementsQueue, TableImplementsLanes, PTL DEF ImplementsQueue

-----------------------------------------------------------------------------
(* An issue is never built before it is planned, whatever overlaps.  The   *)
(* mode of a root task comes from a stage that was read some statements    *)
(* ago, and the stage from a task or another mode.  What keeps BuildAfter- *)
(* Plan is that the evidence for a build (a completed plan, or a child in  *)
(* build mode) never goes away: a stage, a request or a row that says      *)
(* build had it when it was written, and has it still (BInv).              *)

Evidence(i, tasks) ==
    \E u \in Task :
        /\ tasks[u].issue = i
        /\ \/ tasks[u].mode = "plan" /\ tasks[u].status = "completed"
           \/ tasks[u].mode = "build" /\ tasks[u].parent # 0

Built == {"build_ready", "building"}

\* Where a handler relies on the mode it has chosen, and on the task it reported on.
Choosing  == {"cancelIssue", "nextMention", "checkPending", "getAgent", "queueStage", "insert"}
Reporting == {"getIssue", "setStage", "count", "setStatus"}

Warranted(r, tasks) ==
    /\ r.pc \in Reporting => r.task \in Task /\ tasks[r.task].status # "absent"
    /\ r.pc \in Choosing /\ r.mode = "build" => Evidence(r.issue, tasks)
    /\ r.pc = "fanInsert" => /\ r.mode = r.specs[1].mode
                             /\ r.k > 1 /\ r.mode = "build" => Evidence(r.issue, tasks)

BInv ==
    /\ SInv
    /\ BuildAfterPlan
    /\ \A i \in Issue : issue[i].stage \in Built => Evidence(i, task)
    /\ \A s \in Session : Warranted(req[s], task)

\* A step that writes build only on evidence.
Careful ==
    /\ \A i \in Issue : issue'[i].stage \in Built =>
          issue[i].stage = issue'[i].stage \/ Evidence(i, task')
    /\ \A t \in Task : ~Exists(t) /\ task'[t] # task[t] =>
          /\ IsNextId(t)
          /\ task'[t].parent = 0 /\ task'[t].mode = "build" => Evidence(task'[t].issue, task)

-----------------------------------------------------------------------------
LEMMA Facts ==
    ASSUME BInv
    PROVE  /\ SInv /\ IInv /\ TypeOK /\ LocksHold /\ NoGaps
           /\ issue \in IssueTable /\ req \in [Session -> ReqOK]
           /\ \A s \in Session : /\ req[s] \in ReqOK
                                 /\ Ready(req[s], task) /\ Warranted(req[s], task)
           /\ \A i \in Issue : issue[i].stage \in Built => Evidence(i, task)
           /\ Mode = {"plan", "build"} /\ None \notin Mode
  BY ServiceTypes, TaskServiceAssumption, TaskQueueAssumption DEF BInv, IInv, OrderInv

\* A row keeps all but its status, and a completed one that too.
LEMMA RowKept ==
    ASSUME IInv, [Next]_vars, NEW t \in Task, Exists(t)
    PROVE  /\ task'[t].status # "absent"
           /\ task'[t].issue = task[t].issue /\ task'[t].mode = task[t].mode
           /\ task'[t].parent = task[t].parent
           /\ task[t].status = "completed" => task'[t].status = "completed"
  <1>1. CASE task'[t] = task[t]
    BY <1>1 DEF Exists
  <1>2. CASE task'[t] # task[t]
    <2>1. StepOK(t)
      BY <1>2, StepsAreOK DEF vars
    <2>2. task[t] \in Row
      BY RowTypes DEF IInv
    <2> QED BY <2>1, <2>2 DEF StepOK, Successors, Row, Live, Terminal
  <1> QED BY <1>1, <1>2

LEMMA EvidenceExists ==
    ASSUME TypeOK, NEW u \in Task,
           \/ task[u].mode = "plan" /\ task[u].status = "completed"
           \/ task[u].mode = "build" /\ task[u].parent # 0
    PROVE  Exists(u)
  <1>1. None \notin Mode /\ "build" \in Mode
    BY TaskServiceAssumption, TaskQueueAssumption
  <1> QED BY <1>1, RowTypes DEF NoRow

LEMMA EvidenceStays ==
    ASSUME IInv, [Next]_vars, NEW i, Evidence(i, task)
    PROVE  Evidence(i, task')
  <1>1. PICK u \in Task :
          /\ task[u].issue = i
          /\ \/ task[u].mode = "plan" /\ task[u].status = "completed"
             \/ task[u].mode = "build" /\ task[u].parent # 0
    BY DEF Evidence
  <1>2. Exists(u)
    BY <1>1, EvidenceExists DEF IInv
  <1> QED BY <1>1, <1>2, RowKept DEF Evidence

LEMMA WarrantStays ==
    ASSUME IInv, [Next]_vars, NEW r \in ReqOK, Warranted(r, task)
    PROVE  Warranted(r, task')
  <1>1. r.pc \in Reporting => task'[r.task].status # "absent"
    BY RowKept DEF Warranted, Exists
  <1> QED BY <1>1, EvidenceStays DEF Warranted

LEMMA Unwatched ==
    ASSUME NEW r, r.pc \notin Reporting, r.pc \notin Choosing, r.pc # "fanInsert"
    PROVE  \A tasks : Warranted(r, tasks)
  BY DEF Warranted

LEMMA FreeIsWarranted == \A tasks : Warranted(Free, tasks)
  BY DEF Free, Warranted, Reporting, Choosing

\* A task in build mode is the evidence itself, or was created on some.
LEMMA BuildHasEvidence ==
    ASSUME BInv, NEW t \in Task, Exists(t), task[t].mode = "build"
    PROVE  Evidence(task[t].issue, task)
  <1>1. CASE IsRoot(t)
    BY <1>1 DEF BInv, BuildAfterPlan, TasksOf, IsRoot, Evidence
  <1>2. CASE ~IsRoot(t)
    BY <1>2 DEF IsRoot, Evidence
  <1> QED BY <1>1, <1>2

\* Careful steps, one handler at a time or none, keep the invariant.
LEMMA CarefulPreserves ==
    ASSUME BInv, SInv', [Next]_vars, Careful,
           \/ UNCHANGED req
           \/ \E s \in Session, r \in ReqOK :
                 req' = [req EXCEPT ![s] = r] /\ Warranted(r, task')
    PROVE  BInv'
  <1>1. \A s \in Session : Warranted(req'[s], task')
    <2>1. \A s \in Session : Warranted(req[s], task')
      BY Facts, WarrantStays
    <2> QED BY <2>1, Facts
  <1>2. \A i \in Issue : issue'[i].stage \in Built => Evidence(i, task')
    BY Facts, EvidenceStays DEF Careful
  <1>3. BuildAfterPlan'
    <2> SUFFICES ASSUME NEW t \in Task, task'[t].status # "absent", task'[t].parent = 0,
                        task'[t].mode = "build"
                 PROVE  \E u \in Task :
                          /\ task'[u].issue = task'[t].issue
                          /\ u < t
                          /\ \/ task'[u].mode = "plan" /\ task'[u].status = "completed"
                             \/ task'[u].mode = "build" /\ task'[u].parent # 0
      BY DEF BuildAfterPlan, TasksOf, Exists, IsRoot
    <2>1. \E u \in Task :
            /\ task[u].issue = task'[t].issue
            /\ u < t
            /\ \/ task[u].mode = "plan" /\ task[u].status = "completed"
               \/ task[u].mode = "build" /\ task[u].parent # 0
      <3>1. CASE Exists(t)
        <4>1. /\ task'[t].issue = task[t].issue /\ task[t].mode = "build"
              /\ IsRoot(t)
          BY <3>1, Facts, RowKept DEF IsRoot
        <4> QED BY <3>1, <4>1 DEF BInv, BuildAfterPlan, TasksOf, IsRoot
      <3>2. CASE ~Exists(t)
        <4>1. IsNextId(t) /\ Evidence(task'[t].issue, task)
          BY <3>2 DEF Careful, Exists
        <4>2. PICK u \in Task :
                /\ task[u].issue = task'[t].issue
                /\ \/ task[u].mode = "plan" /\ task[u].status = "completed"
                   \/ task[u].mode = "build" /\ task[u].parent # 0
          BY <4>1 DEF Evidence
        <4>3. Exists(u)
          BY <4>2, Facts, EvidenceExists
        <4>4. u < t
          BY <3>2, <4>3, Facts DEF NoGaps, Task
        <4> QED BY <4>2, <4>4
      <3> QED BY <3>1, <3>2
    <2>2. PICK u \in Task :
            /\ task[u].issue = task'[t].issue
            /\ u < t
            /\ \/ task[u].mode = "plan" /\ task[u].status = "completed"
               \/ task[u].mode = "build" /\ task[u].parent # 0
      BY <2>1
    <2>3. Exists(u)
      BY <2>2, Facts, EvidenceExists
    <2> QED BY <2>2, <2>3, Facts, RowKept
  <1> QED BY <1>1, <1>2, <1>3 DEF BInv
-----------------------------------------------------------------------------
\* What a step of handler s has to show.
Keeps(s) ==
    /\ Careful
    /\ \E r \in ReqOK : req' = [req EXCEPT ![s] = r] /\ Warranted(r, task')

\* No row is created and no stage written.
Plain ==
    /\ \A t \in Task : ~Exists(t) => task'[t] = task[t]
    /\ \A i \in Issue : issue'[i].stage = issue[i].stage

LEMMA PlainIsCareful == Plain => Careful
  BY DEF Plain, Careful

LEMMA SameIsPlain == UNCHANGED <<task, issue>> => Plain
  BY DEF Plain

\* Statements on live rows create none.
LEMMA UpdatesArePlain ==
    ASSUME NEW S \in SUBSET Task, NEW status, SetStatus(S, status), UNCHANGED issue,
           \A t \in S : Exists(t)
    PROVE  Plain
  BY DEF SetStatus, Plain, Exists

LEMMA Step ==
    ASSUME BInv, NEW s \in Session, NEW r \in ReqOK, Become(s, r), Careful,
           Warranted(r, task')
    PROVE  Keeps(s)
  BY DEF Keeps, Become

\* Where the handler is after its step.
LEMMA Goes ==
    ASSUME BInv, NEW s \in Session
    PROVE  /\ \A r : Become(s, r) => req'[s] = r
           /\ \A pc : Goto(s, pc) => req'[s].pc = pc
           /\ Finish(s) => req'[s].pc = "free"
           /\ NextCandidate(s) => req'[s].pc \in {"free", "nextAgent"}
  <1>1. req[s] \in ReqOK /\ req \in [Session -> ReqOK]
    BY Facts
  <1>2. \A r : Become(s, r) => req'[s] = r
    BY <1>1 DEF Become
  <1>3. \A pc : [req[s] EXCEPT !.pc = pc].pc = pc
    BY <1>1 DEF ReqOK
  <1>4. \A left : [req[s] EXCEPT !.pc = "nextAgent", !.todo = left,
                                !.agent = None, !.task = 0].pc = "nextAgent"
    BY <1>1 DEF ReqOK
  <1>5. Free.pc = "free"
    BY DEF Free
  <1>6. \A pc : Goto(s, pc) => req'[s].pc = pc
    BY <1>2, <1>3 DEF Goto
  <1>7. Finish(s) => req'[s].pc = "free"
    BY <1>2, <1>5 DEF Finish
  <1>8. NextCandidate(s) => req'[s].pc \in {"free", "nextAgent"}
    BY <1>2, <1>4, <1>7 DEF NextCandidate
  <1> QED BY <1>2, <1>6, <1>7, <1>8

LEMMA PollsKeep ==
    ASSUME BInv, NEW s \in Session, Polls(s)
    PROVE  Keeps(s)
  <1>1. Advances(s)
    BY Facts, PollsAdvance
  <1>2. Plain
    <2>1. UNCHANGED issue
      BY DEF Polls, Poll, CheckCapacity, BeginClaim, EndClaim, MarkWorking, NoTask, rows
    <2>2. CASE UNCHANGED task
      BY <2>1, <2>2, SameIsPlain
    <2>3. CASE ClaimCommit(s)
      BY <2>1, <2>3, Facts DEF ClaimCommit, SetStatus, Plain, Exists, LocksHold, TypeOK
    <2> QED BY <2>2, <2>3 DEF Polls, Poll, CheckCapacity, BeginClaim, EndClaim, MarkWorking,
           NoTask, vars, ClaimSnapshot, ClaimLock, ClaimNothing
  <1>3. PICK r \in ReqOK : req' = [req EXCEPT ![s] = r]
    BY <1>1 DEF Advances
  <1>4. r.pc \notin Reporting /\ r.pc \notin Choosing /\ r.pc # "fanInsert"
    <2>1. req'[s] = r
      BY <1>3, Facts
    <2>2. req'[s].pc \in {"free", "nextAgent", "claim", "claiming", "markWorking", "noTask"}
      <3>1. req[s] \in ReqOK
        BY Facts
      <3>2. CASE \E rt \in Runtime : Poll(s, rt)
        BY <3>2, Goes DEF Poll, Free
      <3>3. CASE CheckCapacity(s)
        <4>1. \A a : [req[s] EXCEPT !.agent = a,
                         !.pc = IF AtCapacity(a) THEN "noTask" ELSE "claim"].pc
                      \in {"noTask", "claim"}
          BY <3>1 DEF ReqOK
        <4> QED BY <3>3, <4>1, Goes DEF CheckCapacity
      <3>4. CASE BeginClaim(s)
        BY <3>4, Goes DEF BeginClaim
      <3>5. CASE EndClaim(s)
        <4>1. CASE UNCHANGED req
          BY <3>5, <4>1 DEF EndClaim, At
        <4>2. CASE Become(s, [req[s] EXCEPT !.pc = "markWorking", !.task = claim[s].row])
          <5>1. \A t : [req[s] EXCEPT !.pc = "markWorking", !.task = t].pc = "markWorking"
            BY <3>1 DEF ReqOK
          <5> QED BY <4>2, <5>1, Goes
        <4>3. CASE Goto(s, "noTask")
          BY <4>3, Goes
        <4> QED BY <3>5, <4>1, <4>2, <4>3 DEF EndClaim
      <3>6. CASE MarkWorking(s) \/ NoTask(s)
        BY <3>6, Goes DEF MarkWorking, NoTask
      <3> QED BY <3>2, <3>3, <3>4, <3>5, <3>6 DEF Polls
    <2> QED BY <2>1, <2>2 DEF Reporting, Choosing
  <1> QED BY <1>2, <1>3, <1>4, PlainIsCareful, Unwatched DEF Keeps

-----------------------------------------------------------------------------
LEMMA HandleKeeps ==
    ASSUME BInv, NEW s \in Session, NEW t \in Task, NEW op, NEW pc \in {"getIssue", "count"},
           Exists(t), Handle(s, op, t, pc), Advances(s), Plain
    PROVE  Keeps(s)
  <1>1. PICK r \in ReqOK : req' = [req EXCEPT ![s] = r]
    BY DEF Advances
  <1>2. r = [Free EXCEPT !.pc = pc, !.op = op, !.task = t]
    BY <1>1, Goes, Facts DEF Handle
  <1>3. r.pc = pc /\ r.task = t
    BY <1>2 DEF Free
  <1>4. task'[t].status # "absent"
    BY Facts, RowKept DEF Advances
  <1>5. Warranted(r, task')
    BY <1>3, <1>4 DEF Warranted, Choosing, Reporting
  <1> QED BY <1>1, <1>5, PlainIsCareful DEF Keeps

\* A handler that reported goes on with its task.
LEMMA ProceedKeeps ==
    ASSUME BInv, NEW s \in Session, NEW pc \in {"free"} \cup Reporting,
           req[s].pc \in Reporting, Proceed(s, pc), UNCHANGED task, Careful, Advances(s)
    PROVE  Keeps(s)
  <1>1. PICK r \in ReqOK : req' = [req EXCEPT ![s] = r]
    BY DEF Advances
  <1>2. req[s] \in ReqOK /\ Warranted(req[s], task)
    BY Facts
  <1>3. CASE Finish(s)
    BY <1>3, FreeIsWarranted, FreeIsReady, Step DEF Finish
  <1>4. CASE Goto(s, pc)
    <2> DEFINE q == [req[s] EXCEPT !.pc = pc]
    <2>1. r = q
      BY <1>1, <1>4, Goes, Facts DEF Goto
    <2>2. q.pc = pc /\ q.task = req[s].task
      BY <1>2 DEF ReqOK
    <2>3. Warranted(q, task)
      BY <1>2, <2>2 DEF Warranted, Reporting, Choosing
    <2> QED BY <1>1, <2>1, <2>3 DEF Keeps
  <1> QED BY <1>3, <1>4 DEF Proceed

LEMMA StageHasEvidence ==
    ASSUME BInv, NEW t \in Task, Exists(t), NEW op, StageAfter(op, t) \in Built
    PROVE  Evidence(task[t].issue, task)
  <1>1. task[t].mode \in Mode
    BY Facts, RowTypes DEF Row
  <1>2. task[t].mode = "build"
    BY <1>1, Facts DEF StageAfter, RunningStage, CompletedStage, FailedStage, Built
  <1> QED BY <1>2, BuildHasEvidence

LEMMA TaskUpdatesKeep ==
    ASSUME BInv, NEW s \in Session, TaskUpdates(s)
    PROVE  Keeps(s)
  <1>0. /\ req[s] \in ReqOK /\ Warranted(req[s], task) /\ Advances(s)
        /\ issue \in IssueTable
    BY Facts, TaskUpdatesAdvance
  <1>1. ASSUME NEW t \in Task, NEW status, Exists(t), SetStatus({t}, status), UNCHANGED issue
        PROVE  Plain
    BY <1>1, UpdatesArePlain
  <1>2. ASSUME NEW t \in Task, StartTask(s, t) PROVE Keeps(s)
    <2>1. Exists(t) /\ Plain
      BY <1>1, <1>2 DEF StartTask, StartAgentTask, Handle, rows, Exists
    <2> QED BY <1>0, <1>2, <2>1, HandleKeeps DEF StartTask
  <1>3. ASSUME NEW t \in Task, CompleteTask(s, t) PROVE Keeps(s)
    <2>1. Exists(t) /\ Plain
      BY <1>1, <1>3 DEF CompleteTask, CompleteAgentTask, Handle, rows, Exists
    <2> QED BY <1>0, <1>3, <2>1, HandleKeeps DEF CompleteTask
  <1>4. ASSUME NEW t \in Task, FailTask(s, t) PROVE Keeps(s)
    <2>1. Exists(t) /\ Plain
      BY <1>1, <1>4 DEF FailTask, FailAgentTask, Handle, rows, Exists, Active
    <2> QED BY <1>0, <1>4, <2>1, HandleKeeps DEF FailTask
  <1>5. ASSUME NEW t \in Task, CancelTask(s, t) PROVE Keeps(s)
    <2>1. Exists(t) /\ Plain
      BY <1>1, <1>5 DEF CancelTask, CancelAgentTask, CancelTasks, Handle, rows, Exists, Live
    <2> QED BY <1>0, <1>5, <2>1, HandleKeeps DEF CancelTask
  <1>6. CASE GetIssue(s)
    <2>1. \E pc \in {"free", "setStage", "count"} : Proceed(s, pc)
      BY <1>6 DEF GetIssue, Proceed
    <2>2. Careful /\ UNCHANGED task
      BY <1>6, SameIsPlain, PlainIsCareful DEF GetIssue, vars, rows
    <2> QED BY <1>0, <1>6, <2>1, <2>2, ProceedKeeps DEF GetIssue, At, Reporting
  <1>7. CASE SetStage(s)
    <2> DEFINE t == req[s].task
    <2>1. t \in Task /\ Exists(t)
      BY <1>0, <1>7 DEF SetStage, At, Warranted, Reporting, Exists
    <2>2. /\ issue' = [issue EXCEPT ![task[t].issue].stage = StageAfter(req[s].op, t)]
          /\ UNCHANGED task
      BY <1>7 DEF SetStage, vars
    <2>3. ASSUME NEW i \in Issue, issue'[i].stage \in Built
          PROVE  issue[i].stage = issue'[i].stage \/ Evidence(i, task')
      <3>1. CASE i = task[t].issue
        <4>1. issue'[i].stage = StageAfter(req[s].op, t)
          BY <1>0, <2>2, <3>1 DEF IssueTable
        <4> QED BY <2>1, <2>2, <2>3, <3>1, <4>1, StageHasEvidence
      <3>2. CASE i # task[t].issue
        BY <1>0, <2>2, <3>2 DEF IssueTable
      <3> QED BY <3>1, <3>2
    <2>4. Careful
      BY <2>2, <2>3 DEF Careful
    <2> QED BY <1>0, <1>7, <2>2, <2>4, ProceedKeeps DEF SetStage, At, Reporting
  <1>8. CASE CountTasks(s)
    <2>1. PICK r \in ReqOK : req' = [req EXCEPT ![s] = r]
      BY <1>0 DEF Advances
    <2>2. r.pc = "setStatus" /\ r.task = req[s].task
      <3>1. \A b : LET q == [req[s] EXCEPT !.pc = "setStatus", !.busy = b]
                    IN  q.pc = "setStatus" /\ q.task = req[s].task
        BY <1>0 DEF ReqOK
      <3>2. req'[s] = r
        BY <2>1, Facts
      <3> QED BY <1>8, <3>1, <3>2, Goes DEF CountTasks
    <2>3. UNCHANGED <<task, issue>>
      BY <1>8 DEF CountTasks, vars, rows
    <2>4. Warranted(r, task')
      BY <1>0, <1>8, <2>2, <2>3 DEF CountTasks, At, Warranted, Reporting, Choosing
    <2> QED BY <2>1, <2>3, <2>4, SameIsPlain, PlainIsCareful DEF Keeps
  <1>9. CASE ReconcileStatus(s)
    <2>1. \E pc \in {"free", "getIssue"} : Proceed(s, pc)
      BY <1>9 DEF ReconcileStatus
    <2>2. Careful /\ UNCHANGED task
      BY <1>9, SameIsPlain, PlainIsCareful DEF ReconcileStatus, vars
    <2> QED BY <1>0, <1>9, <2>1, <2>2, ProceedKeeps DEF ReconcileStatus, At, Reporting
  <1> QED BY <1>2, <1>3, <1>4, <1>5, <1>6, <1>7, <1>8, <1>9 DEF TaskUpdates

-----------------------------------------------------------------------------
\* A handler that has chosen its mode goes on with it.
LEMMA GotoKeeps ==
    ASSUME BInv, NEW s \in Session, NEW pc \in Choosing \cup {"checkActive", "latestPlan"},
           Goto(s, pc), Careful, Advances(s),
           pc \in Choosing /\ req[s].mode = "build" => Evidence(req[s].issue, task)
    PROVE  Keeps(s)
  <1> DEFINE q == [req[s] EXCEPT !.pc = pc]
  <1>1. req[s] \in ReqOK
    BY Facts
  <1>2. q.pc = pc /\ q.mode = req[s].mode /\ q.issue = req[s].issue
    BY <1>1 DEF ReqOK
  <1>3. PICK r \in ReqOK : req' = [req EXCEPT ![s] = r]
    BY DEF Advances
  <1>4. r = q
    BY <1>3, Goes, Facts DEF Goto
  <1>5. pc \in Choosing /\ req[s].mode = "build" => Evidence(req[s].issue, task')
    BY Facts, EvidenceStays DEF Advances
  <1>6. Warranted(q, task')
    BY <1>2, <1>5 DEF Warranted, Choosing, Reporting
  <1> QED BY <1>3, <1>4, <1>6 DEF Keeps

LEMMA FinishKeeps ==
    ASSUME BInv, NEW s \in Session, Finish(s), Careful
    PROVE  Keeps(s)
  BY FreeIsReady, FreeIsWarranted DEF Keeps, Finish, Become

LEMMA AfterEnqueueKeeps ==
    ASSUME BInv, NEW s \in Session, AfterEnqueue(s), Careful, Advances(s),
           req[s].mode = "build" => Evidence(req[s].issue, task)
    PROVE  Keeps(s)
  BY FinishKeeps, GotoKeeps DEF AfterEnqueue, Choosing

\* A mode chosen from the stage has the evidence the stage had.
LEMMA PreferredHasEvidence ==
    ASSUME BInv, NEW i \in Issue, PreferredTaskMode(issue[i].stage) = "build"
    PROVE  Evidence(i, task)
  BY Facts DEF PreferredTaskMode, Built

LEMMA LoadKeeps ==
    ASSUME BInv, NEW s \in Session, NEW i \in Issue, NEW a, NEW mode, NEW op, NEW M,
           NEW pc \in {"updateIssue", "cancelIssue", "nextMention", "checkPending", "checkActive"},
           \/ Load(s, op, i, a, mode, pc)
           \/ Become(s, [Loaded(op, i, a, mode, pc) EXCEPT !.mentions = M]),
           pc \in Choosing => mode = PreferredTaskMode(issue[i].stage),
           UNCHANGED task, \A j \in Issue : issue'[j].stage = issue[j].stage, Advances(s)
    PROVE  Keeps(s)
  <1>1. PICK r \in ReqOK : req' = [req EXCEPT ![s] = r]
    BY DEF Advances
  <1>2. req'[s] = r
    BY <1>1, Facts
  <1>3. r.pc = pc /\ r.mode = mode /\ r.issue = i
    <2> DEFINE l == Loaded(op, i, a, mode, pc)
               m == [l EXCEPT !.mentions = M]
    <2>1. l.pc = pc /\ l.mode = mode /\ l.issue = i
      BY DEF Loaded, Free
    <2>2. m.pc = pc /\ m.mode = mode /\ m.issue = i
      BY DEF Loaded, Free
    <2> HIDE DEF l, m
    <2>3. r = l \/ r = m
      <3>1. Become(s, l) \/ Become(s, m)
        BY DEF Load, l, m
      <3> QED BY <1>2, <3>1, Goes
    <2> QED BY <2>1, <2>2, <2>3
  <1>4. pc \in Choosing /\ mode = "build" => Evidence(i, task')
    BY PreferredHasEvidence
  <1>5. Warranted(r, task')
    BY <1>3, <1>4 DEF Warranted, Reporting, Choosing
  <1>6. Careful
    BY PlainIsCareful DEF Plain
  <1> QED BY <1>1, <1>5, <1>6 DEF Keeps

LEMMA EnqueuesKeep ==
    ASSUME BInv, NEW s \in Session, Enqueues(s)
    PROVE  Keeps(s)
  <1>0. /\ req[s] \in ReqOK /\ Ready(req[s], task) /\ Warranted(req[s], task)
        /\ Advances(s) /\ issue \in IssueTable
    BY Facts, EnqueuesAdvance
  <1>1. ASSUME UNCHANGED <<vars, rows, sweeper>>
        PROVE  Careful /\ UNCHANGED task /\ \A j \in Issue : issue'[j].stage = issue[j].stage
    BY <1>1, SameIsPlain, PlainIsCareful DEF vars, rows
  <1>2. ASSUME NEW i \in Issue, NEW a \in Agent, AssignIssue(s, i, a) PROVE Keeps(s)
    BY <1>0, <1>1, <1>2, LoadKeeps DEF AssignIssue, Choosing
  <1>3. ASSUME NEW i \in Issue, NEW a \in Agent \cup {None}, EditIssue(s, i, a) PROVE Keeps(s)
    BY <1>0, <1>1, <1>3, LoadKeeps DEF EditIssue, Choosing
  <1>4. ASSUME NEW i \in Issue, NEW M \in SUBSET Agent, Comment(s, i, M) PROVE Keeps(s)
    BY <1>0, <1>1, <1>4, LoadKeeps DEF Comment
  <1>5. ASSUME NEW i \in Issue, NEW M \in SUBSET Agent, Mention(s, i, M) PROVE Keeps(s)
    BY <1>0, <1>1, <1>5, LoadKeeps DEF Mention
  <1>6. ASSUME NEW i \in Issue, ConfirmPlan(s, i) PROVE Keeps(s)
    BY <1>0, <1>1, <1>6, LoadKeeps DEF ConfirmPlan, Choosing
  <1>7. CASE UpdateIssue(s)
    <2> DEFINE i == req[s].issue
    <2>1. i \in Issue
      BY <1>0, <1>7 DEF UpdateIssue, At, Ready
    <2>2. UNCHANGED task /\ issue' = [issue EXCEPT ![i].assignee = req[s].agent]
      BY <1>7 DEF UpdateIssue, vars
    <2>3. \A j \in Issue : issue'[j].stage = issue[j].stage
      BY <1>0, <2>2 DEF IssueTable
    <2>4. CASE req[s].op = "assign"
      BY <1>0, <1>7, <2>1, <2>2, <2>3, <2>4, LoadKeeps DEF UpdateIssue
    <2>5. CASE req[s].op # "assign"
      <3>1. Careful
        BY <2>2, <2>3, PlainIsCareful DEF Plain
      <3> QED BY <1>7, <2>5, <3>1, FinishKeeps DEF UpdateIssue
    <2> QED BY <2>4, <2>5
  <1>8. ASSUME NEW pc \in Choosing, At(s, pc), req[s].mode = "build"
        PROVE  Evidence(req[s].issue, task)
    BY <1>0, <1>8 DEF At, Warranted
  <1>9. CASE CancelTasksForIssue(s)
    <2>1. Plain
      BY <1>9, UpdatesArePlain DEF CancelTasksForIssue, CancelAgentTasksByIssue, CancelTasks,
         rows, Exists, Live, TasksOf
    <2> QED BY <1>0, <1>8, <1>9, <2>1, PlainIsCareful, GotoKeeps
            DEF CancelTasksForIssue, Choosing
  <1>10. CASE NextMention(s)
    <2>1. CASE Finish(s)
      BY <1>1, <1>10, <2>1, FinishKeeps DEF NextMention
    <2>2. CASE \E a \in req[s].mentions :
                 Become(s, [req[s] EXCEPT !.pc = "checkPending", !.op = "mention",
                            !.agent = a, !.mentions = @ \ {a}])
      <3>1. PICK r \in ReqOK : req' = [req EXCEPT ![s] = r]
        BY <1>0 DEF Advances
      <3>2. r.pc = "checkPending" /\ r.mode = req[s].mode /\ r.issue = req[s].issue
        <4>1. PICK a \in req[s].mentions :
                 Become(s, [req[s] EXCEPT !.pc = "checkPending", !.op = "mention",
                            !.agent = a, !.mentions = @ \ {a}])
          BY <2>2
        <4>2. r = [req[s] EXCEPT !.pc = "checkPending", !.op = "mention",
                            !.agent = a, !.mentions = @ \ {a}]
          BY <3>1, <4>1, Facts, Goes
        <4> QED BY <1>0, <4>2 DEF ReqOK
      <3>3. Careful /\ UNCHANGED task
        BY <1>1, <1>10 DEF NextMention
      <3>4. Warranted(r, task')
        BY <1>8, <1>10, <3>2, <3>3 DEF NextMention, Warranted, Choosing, Reporting
      <3> QED BY <3>1, <3>3, <3>4 DEF Keeps
    <2> QED BY <1>10, <2>1, <2>2 DEF NextMention
  <1>11. CASE CheckPending(s)
    BY <1>0, <1>1, <1>8, <1>11, AfterEnqueueKeeps, GotoKeeps DEF CheckPending, Choosing
  <1>12. CASE CheckActive(s)
    BY <1>0, <1>1, <1>12, FinishKeeps, GotoKeeps DEF CheckActive, Choosing
  <1>13. CASE LatestPlan(s)
    <2>1. CASE Finish(s)
      BY <1>1, <1>13, <2>1, FinishKeeps DEF LatestPlan
    <2>2. CASE Goto(s, "getAgent") /\ \E t \in TasksOf(req[s].issue) :
                   task[t].status = "completed" /\ task[t].mode = "plan"
      <3>1. Evidence(req[s].issue, task)
        BY <2>2 DEF Evidence, TasksOf
      <3> QED BY <1>0, <1>1, <1>13, <2>2, <3>1, GotoKeeps DEF LatestPlan, Choosing
    <2> QED BY <1>13, <2>1, <2>2 DEF LatestPlan
  <1>14. CASE GetAgent(s)
    <2>1. CASE AfterEnqueue(s)
      BY <1>0, <1>1, <1>8, <1>14, <2>1, AfterEnqueueKeeps DEF GetAgent, Choosing
    <2>2. CASE \E pc \in {"insert", "queueStage"} : \E rt :
                 Become(s, [req[s] EXCEPT !.runtime = rt, !.pc = pc])
      <3>1. PICK r \in ReqOK : req' = [req EXCEPT ![s] = r]
        BY <1>0 DEF Advances
      <3>2. r.pc \in {"insert", "queueStage"} /\ r.mode = req[s].mode /\ r.issue = req[s].issue
        <4>1. PICK pc \in {"insert", "queueStage"} : \E rt :
                 Become(s, [req[s] EXCEPT !.runtime = rt, !.pc = pc])
          BY <2>2
        <4>2. PICK rt : Become(s, [req[s] EXCEPT !.runtime = rt, !.pc = pc])
          BY <4>1
        <4>3. r = [req[s] EXCEPT !.runtime = rt, !.pc = pc]
          BY <3>1, <4>2, Facts, Goes
        <4> QED BY <1>0, <4>3 DEF ReqOK
      <3>3. Careful /\ UNCHANGED task
        BY <1>1, <1>14 DEF GetAgent
      <3>4. Warranted(r, task')
        BY <1>8, <1>14, <3>2, <3>3 DEF GetAgent, Warranted, Choosing, Reporting
      <3> QED BY <3>1, <3>3, <3>4 DEF Keeps
    <2> QED BY <1>14, <2>1, <2>2 DEF GetAgent
  <1>15. CASE WriteQueueStage(s)
    <2> DEFINE i == req[s].issue
    <2>1. UNCHANGED task /\ issue' = [issue EXCEPT ![i].stage = QueueStage(req[s].mode)]
      BY <1>15 DEF WriteQueueStage, vars
    <2>2. req[s].mode \in Mode
      BY <1>0, <1>15 DEF WriteQueueStage, At, Ready, Enqueuing
    <2>3. QueueStage(req[s].mode) \in Built => Evidence(i, task)
      BY <1>8, <1>15, <2>2, Facts DEF WriteQueueStage, QueueStage, Built, Choosing
    <2>4. Careful
      BY <1>0, <2>1, <2>3 DEF Careful, IssueTable
    <2> QED BY <1>0, <1>8, <1>15, <2>4, FinishKeeps, GotoKeeps DEF WriteQueueStage, Choosing
  <1>16. CASE InsertTask(s)
    <2>1. CASE UNCHANGED vars
      BY <1>0, <1>1, <1>8, <1>16, <2>1, AfterEnqueueKeeps, SameIsPlain, PlainIsCareful
         DEF InsertTask, Choosing, vars, rows
    <2>2. CASE \E t \in Task, p \in Priority :
                 CreateAgentTask(t, req[s].agent, req[s].issue, req[s].runtime,
                                 req[s].mode, p, 0)
      <3>1. PICK n \in Task, p \in Priority :
                 CreateAgentTask(n, req[s].agent, req[s].issue, req[s].runtime,
                                 req[s].mode, p, 0)
        BY <2>2
      <3>2. /\ IsNextId(n)
            /\ task'[n].mode = req[s].mode /\ task'[n].issue = req[s].issue
            /\ \A t \in Task : t # n => task'[t] = task[t]
        BY <3>1, Facts DEF CreateAgentTask, TypeOK
      <3>3. UNCHANGED issue
        BY <1>16 DEF InsertTask, rows
      <3>4. Careful
        BY <1>8, <1>16, <3>2, <3>3 DEF Careful, InsertTask, Choosing
      <3> QED BY <1>0, <1>8, <1>16, <3>4, AfterEnqueueKeeps DEF InsertTask, Choosing
    <2> QED BY <1>16, <2>1, <2>2 DEF InsertTask
  <1> QED BY <1>2, <1>3, <1>4, <1>5, <1>6, <1>7, <1>9, <1>10, <1>11, <1>12, <1>13, <1>14,
             <1>15, <1>16 DEF Enqueues

-----------------------------------------------------------------------------
LEMMA FansKeep ==
    ASSUME BInv, NEW s \in Session, Fans(s)
    PROVE  Keeps(s)
  <1>0. /\ req[s] \in ReqOK /\ Ready(req[s], task) /\ Warranted(req[s], task)
        /\ Advances(s) /\ issue \in IssueTable
    BY Facts, FansAdvance
  <1>1. PICK r \in ReqOK : req' = [req EXCEPT ![s] = r]
    BY <1>0 DEF Advances
  <1>2. req'[s] = r
    BY <1>1, Facts
  <1>3. ASSUME NEW t \in Task, NEW specs \in FanOuts, FanOutTask(s, t, specs)
        PROVE  Keeps(s)
    <2>1. r = [Free EXCEPT !.pc = "fanInsert", !.op = "fanOut", !.task = t,
                    !.issue = task[t].issue, !.stage = issue[task[t].issue].stage,
                    !.mode = specs[1].mode, !.specs = specs, !.k = 1]
      BY <1>2, <1>3, Goes DEF FanOutTask
    <2>2. r.pc = "fanInsert" /\ r.mode = specs[1].mode /\ r.specs = specs /\ r.k = 1
      BY <2>1 DEF Free
    <2>3. Warranted(r, task')
      BY <2>2 DEF Warranted, Choosing, Reporting
    <2>4. Careful
      BY <1>3, SameIsPlain, PlainIsCareful DEF FanOutTask, vars, rows
    <2> QED BY <1>1, <2>3, <2>4 DEF Keeps
  <1>4. CASE InsertChild(s)
    <2> DEFINE specs == req[s].specs
               k     == req[s].k
               a     == specs[k].agent
    <2>1. /\ At(s, "fanInsert") /\ UNCHANGED issue
          /\ \/ Finish(s) /\ UNCHANGED vars
             \/ /\ \E t \in Task, p \in Priority :
                     CreateAgentTask(t, a, req[s].issue, agent[a].runtime,
                                     specs[k].mode, p, req[s].task)
                /\ \/ Finish(s)
                   \/ Become(s, [req[s] EXCEPT !.pc = "fanInsert", !.k = k + 1])
                   \/ Become(s, [req[s] EXCEPT !.pc = "queueStage", !.k = k + 1])
      BY <1>4 DEF InsertChild, rows
    <2>2. /\ req[s].task \in Task /\ req[s].specs \in FanOuts /\ k \in 1 .. Len(specs)
          /\ req[s].mode = specs[1].mode
          /\ k > 1 /\ req[s].mode = "build" => Evidence(req[s].issue, task)
      BY <1>0, <2>1 DEF At, Ready, Warranted
    <2>3. CASE Finish(s) /\ UNCHANGED vars
      BY <2>1, <2>3, FinishKeeps, SameIsPlain, PlainIsCareful DEF vars
    <2>4. CASE \E t \in Task, p \in Priority :
                 CreateAgentTask(t, a, req[s].issue, agent[a].runtime,
                                 specs[k].mode, p, req[s].task)
      <3> HIDE DEF a, specs, k
      <3>1. PICK n \in Task, p \in Priority :
                 CreateAgentTask(n, a, req[s].issue, agent[a].runtime,
                                 specs[k].mode, p, req[s].task)
        BY <2>4
      <3>2. /\ IsNextId(n)
            /\ task'[n].mode = specs[k].mode /\ task'[n].issue = req[s].issue
            /\ task'[n].parent = req[s].task
            /\ \A t \in Task : t # n => task'[t] = task[t]
        BY <3>1, Facts DEF CreateAgentTask, TypeOK
      <3>3. req[s].task # 0
        BY <2>2 DEF Task
      <3>4. Careful
        BY <2>1, <3>2, <3>3 DEF Careful
      <3>5. req[s].mode = "build" => Evidence(req[s].issue, task')
        <4>1. CASE k > 1
          BY <1>0, <2>2, <4>1, Facts, EvidenceStays DEF Advances
        <4>2. CASE ~(k > 1)
          <5>1. k = 1 /\ specs[k].mode = req[s].mode
            BY <2>2, <4>2, SpecTypes DEF k, specs
          <5> QED BY <3>2, <3>3, <5>1 DEF Evidence
        <4> QED BY <4>1, <4>2
      <3>6. ASSUME NEW pc \in {"fanInsert", "queueStage"},
                   r = [req[s] EXCEPT !.pc = pc, !.k = k + 1]
            PROVE  Warranted(r, task')
        <4>1. r.pc = pc /\ r.mode = req[s].mode /\ r.issue = req[s].issue /\ r.specs = specs
          BY <1>0, <3>6 DEF ReqOK, specs
        <4> QED BY <2>2, <3>5, <4>1 DEF Warranted, Choosing, Reporting, specs
      <3>7. CASE Finish(s)
        BY <3>4, <3>7, FinishKeeps
      <3>8. CASE ~Finish(s)
        <4>1. \E pc \in {"fanInsert", "queueStage"} : r = [req[s] EXCEPT !.pc = pc, !.k = k + 1]
          <5>1. IsNextId(n) /\ task'[n] # task[n]
            BY <3>1, Facts DEF CreateAgentTask, IsNextId, Exists, TypeOK
          <5>2. ~UNCHANGED vars
            BY <5>1 DEF vars
          <5>3. CASE Become(s, [req[s] EXCEPT !.pc = "fanInsert", !.k = k + 1])
            BY <1>2, <5>3, Goes
          <5>4. CASE Become(s, [req[s] EXCEPT !.pc = "queueStage", !.k = k + 1])
            BY <1>2, <5>4, Goes
          <5> QED BY <2>1, <3>8, <5>2, <5>3, <5>4 DEF a, specs, k
        <4> QED BY <1>1, <3>4, <3>6, <4>1 DEF Keeps
      <3> QED BY <3>7, <3>8
    <2> QED BY <2>1, <2>3, <2>4
  <1> QED BY <1>3, <1>4 DEF Fans

LEMMA AgentUpdatesKeep ==
    ASSUME BInv, NEW s \in Session, AgentUpdates(s) \/ Abandon(s)
    PROVE  Keeps(s)
  <1>0. req[s] \in ReqOK /\ Warranted(req[s], task) /\ req \in [Session -> ReqOK]
    BY Facts
  <1>1. ASSUME UNCHANGED <<task, issue, req>> PROVE Keeps(s)
    <2>1. req' = [req EXCEPT ![s] = req[s]] /\ Warranted(req[s], task')
      BY <1>0, <1>1
    <2> QED BY <1>0, <1>1, <2>1, SameIsPlain, PlainIsCareful DEF Keeps
  <1>2. ASSUME NEW a \in Agent, NEW rt \in Runtime, MoveAgent(s, a, rt) PROVE Keeps(s)
    BY <1>1, <1>2 DEF MoveAgent, vars
  <1>3. ASSUME NEW a \in Agent, RestoreAgent(s, a) PROVE Keeps(s)
    BY <1>1, <1>3 DEF RestoreAgent, vars
  <1>4. ASSUME NEW a \in Agent, ArchiveAgent(s, a) PROVE Keeps(s)
    <2> DEFINE q == [Free EXCEPT !.pc = "cancelAgent", !.op = "archive", !.agent = a]
    <2>1. q \in ReqOK /\ q.pc = "cancelAgent"
      BY FreeIsReady DEF Free, ReqOK
    <2>2. Warranted(q, task')
      BY <2>1, Unwatched DEF Reporting, Choosing
    <2>3. Careful
      BY <1>4, SameIsPlain, PlainIsCareful DEF ArchiveAgent, vars
    <2> QED BY <1>4, <2>1, <2>2, <2>3, Step DEF ArchiveAgent
  <1>5. CASE CancelTasksForAgent(s)
    <2>1. Plain
      BY <1>5, UpdatesArePlain DEF CancelTasksForAgent, CancelAgentTasksByAgent, CancelTasks,
         rows, Exists, Live
    <2> QED BY <1>5, <2>1, PlainIsCareful, FinishKeeps DEF CancelTasksForAgent
  <1>6. CASE Abandon(s)
    BY <1>6, SameIsPlain, PlainIsCareful, FinishKeeps DEF Abandon, ClaimAbort, rows
  <1> QED BY <1>2, <1>3, <1>4, <1>5, <1>6 DEF AgentUpdates

LEMMA BesideIsCareful ==
    ASSUME BInv, Runtimes \/ Sweeps
    PROVE  Careful /\ UNCHANGED req
  <1>1. CASE Runtimes
    BY <1>1, SameIsPlain, PlainIsCareful DEF Runtimes, Heartbeat, Lapse, DaemonDeregister, vars
  <1>2. ASSUME NEW S \in SUBSET Task, SweepStaleTasks(S) PROVE Careful /\ UNCHANGED req
    BY <1>2, UpdatesArePlain, PlainIsCareful DEF SweepStaleTasks, FailStaleTasks, rows, Exists,
       Active
  <1>3. CASE SweepOrphans
    BY <1>3, UpdatesArePlain, PlainIsCareful DEF SweepOrphans, FailTasksForOfflineRuntimes,
       OrphansOf, rows, Exists, Active
  <1>4. CASE MarkStaleRuntimesOffline \/ SweepSetStatus \/ \E a \in Agent : SweepCount(a)
    BY <1>4, SameIsPlain, PlainIsCareful DEF MarkStaleRuntimesOffline, SweepSetStatus,
       SweepCount, vars, rows
  <1> QED BY <1>1, <1>2, <1>3, <1>4 DEF Sweeps

-----------------------------------------------------------------------------
LEMMA BuildInitEstablishes == ServiceInit => BInv
  <1> SUFFICES ASSUME ServiceInit PROVE BInv
    OBVIOUS
  <1>1. SInv
    BY ServiceInitEstablishes
  <1>2. BuildAfterPlan
    BY DEF ServiceInit, Init, NoRow, BuildAfterPlan, Exists
  <1>3. \A i \in Issue : issue[i].stage \notin Built
    BY DEF ServiceInit, Built
  <1>4. \A s \in Session : Warranted(req[s], task)
    BY FreeIsWarranted DEF ServiceInit
  <1> QED BY <1>1, <1>2, <1>3, <1>4 DEF BInv

LEMMA BuildNextPreserves == BInv /\ [ServiceNext]_serviceVars => BInv'
  <1> SUFFICES ASSUME BInv, [ServiceNext]_serviceVars PROVE BInv'
    OBVIOUS
  <1>1. SInv' /\ [Next]_vars
    BY Facts, ServiceNextPreserves, QueueSteps
  <1>2. CASE UNCHANGED serviceVars
    BY <1>1, <1>2, SameIsPlain, PlainIsCareful, CarefulPreserves DEF serviceVars
  <1>3. CASE \E s \in Session : Polls(s) \/ TaskUpdates(s) \/ Enqueues(s)
                               \/ Fans(s) \/ AgentUpdates(s) \/ Abandon(s)
    <2>1. \E s \in Session : Keeps(s)
      BY <1>3, PollsKeep, TaskUpdatesKeep, EnqueuesKeep, FansKeep, AgentUpdatesKeep
    <2> QED BY <1>1, <2>1, CarefulPreserves DEF Keeps
  <1>4. CASE Runtimes \/ Sweeps
    BY <1>1, <1>4, BesideIsCareful, CarefulPreserves
  <1> QED BY <1>2, <1>3, <1>4 DEF ServiceNext

LEMMA BInvHolds == ServiceSpec => []BInv
  BY BuildInitEstablishes, BuildNextPreserves, PTL DEF ServiceSpec

\* A root task in build mode exists only after a plan task of its issue completed or a
\* fan-out put children in build mode on it, for any number of handlers that write the
\* stage from stale reads, stop half way or lose their issue to another request.
THEOREM NothingIsBuiltUnplanned == ServiceSpec => []BuildAfterPlan
  BY BInvHolds, PTL DEF BInv

-----------------------------------------------------------------------------
(***************************************************************************)
(* What the server leaves behind when its handlers are done.  Some of it   *)
(* holds however the handlers overlap; some only of requests served one    *)
(* after another (One), as the violating runs of TaskService show; and     *)
(* each theorem says which requests have to stay away (NoneOf) for it to   *)
(* hold.                                                                   *)
(***************************************************************************)
One == \A s, z \in Session : s = z

NoneOf(kinds) == kinds \cap Inputs = {}

-----------------------------------------------------------------------------
(* What one statement of a handler does with what the handler carries.     *)

Kept(r, q) == /\ q.op = r.op /\ q.task = r.task /\ q.issue = r.issue
              /\ q.agent = r.agent /\ q.mentions = r.mentions

KeptPoll(r, q) == q.op = r.op /\ q.mentions = r.mentions /\ q.runtime = r.runtime

AfterMoves(r, q) == q = Free \/ (q.pc = "nextMention" /\ Kept(r, q) /\ r.mentions # {})

LEMMA FreeFields ==
    /\ Free.pc = "free" /\ Free.op = "none" /\ Free.mentions = {} /\ Free.todo = {}
    /\ Free \in ReqOK
  BY FreeIsReady DEF Free

LEMMA Moved ==
    ASSUME BInv, NEW s \in Session
    PROVE  /\ \A pc : Goto(s, pc) => /\ req'[s].pc = pc /\ Kept(req[s], req'[s])
                                     /\ req'[s].todo = req[s].todo
                                     /\ req'[s].runtime = req[s].runtime
           /\ Finish(s) => req'[s] = Free
           /\ AfterEnqueue(s) => AfterMoves(req[s], req'[s])
           /\ NextCandidate(s) => \/ req'[s] = Free
                                  \/ /\ req'[s].pc = "nextAgent" /\ KeptPoll(req[s], req'[s])
                                     /\ req'[s].todo \subseteq req[s].todo
  <1>1. req[s] \in ReqOK /\ \A r : Become(s, r) => req'[s] = r
    BY Facts, Goes
  <1>2. ASSUME NEW pc, Goto(s, pc)
        PROVE  /\ req'[s].pc = pc /\ Kept(req[s], req'[s]) /\ req'[s].todo = req[s].todo
               /\ req'[s].runtime = req[s].runtime
    <2>1. req'[s] = [req[s] EXCEPT !.pc = pc]
      BY <1>1, <1>2 DEF Goto
    <2> QED BY <1>1, <2>1 DEF ReqOK, Kept
  <1>3. Finish(s) => req'[s] = Free
    BY <1>1 DEF Finish
  <1>4. AfterEnqueue(s) => AfterMoves(req[s], req'[s])
    BY <1>2, <1>3 DEF AfterEnqueue, AfterMoves
  <1>5. ASSUME NextCandidate(s)
        PROVE  \/ req'[s] = Free
               \/ /\ req'[s].pc = "nextAgent" /\ KeptPoll(req[s], req'[s])
                  /\ req'[s].todo \subseteq req[s].todo
    <2> DEFINE left == {t \in req[s].todo : task[t].agent # req[s].agent}
               q == [req[s] EXCEPT !.pc = "nextAgent", !.todo = left, !.agent = None, !.task = 0]
    <2>1. req'[s] = Free \/ req'[s] = q
      BY <1>1, <1>3, <1>5 DEF NextCandidate
    <2>2. left \subseteq req[s].todo
      OBVIOUS
    <2> HIDE DEF left
    <2>3. q.pc = "nextAgent" /\ KeptPoll(req[s], q) /\ q.todo = left
      BY <1>1 DEF ReqOK, KeptPoll
    <2> QED BY <2>1, <2>2, <2>3
  <1> QED BY <1>2, <1>3, <1>4, <1>5

LEMMA PollMoves ==
    ASSUME BInv, NEW s \in Session
    PROVE  /\ \A rt \in Runtime : Poll(s, rt) =>
                /\ req[s].pc = "free" /\ req'[s].pc = "nextAgent"
                /\ req'[s].op = "poll" /\ req'[s].mentions = {} /\ req'[s].runtime = rt
                /\ \A t \in req'[s].todo : t \in Task /\ task[t].runtime = rt
           /\ CheckCapacity(s) =>
                /\ req[s].pc = "nextAgent" /\ req'[s].pc \in {"noTask", "claim"}
                /\ KeptPoll(req[s], req'[s]) /\ req'[s].todo = req[s].todo
                /\ \E t \in req[s].todo : req'[s].agent = task[t].agent
           /\ BeginClaim(s) =>
                /\ req[s].pc = "claim" /\ req'[s].pc = "claiming"
                /\ KeptPoll(req[s], req'[s]) /\ req'[s].todo = req[s].todo
                /\ req'[s].agent = req[s].agent
           /\ EndClaim(s) =>
                /\ req[s].pc = "claiming"
                /\ \/ req'[s] = req[s] /\ UNCHANGED task
                   \/ /\ ClaimCommit(s)
                      /\ req'[s].pc = "markWorking" /\ req'[s].task = claim[s].row
                      /\ KeptPoll(req[s], req'[s]) /\ req'[s].todo = req[s].todo
                      /\ req'[s].agent = req[s].agent
                   \/ /\ req'[s].pc = "noTask" /\ UNCHANGED task
                      /\ KeptPoll(req[s], req'[s]) /\ req'[s].todo = req[s].todo
                      /\ req'[s].agent = req[s].agent
           /\ MarkWorking(s) \/ NoTask(s) =>
                /\ req[s].pc \in {"markWorking", "noTask"}
                /\ \/ req'[s] = Free
                   \/ /\ req'[s].pc = "nextAgent" /\ KeptPoll(req[s], req'[s])
                      /\ req'[s].todo \subseteq req[s].todo
  <1>0. req[s] \in ReqOK /\ \A r : Become(s, r) => req'[s] = r
    BY Facts, Goes
  <1>1. ASSUME NEW rt \in Runtime, Poll(s, rt)
        PROVE  /\ req[s].pc = "free" /\ req'[s].pc = "nextAgent"
               /\ req'[s].op = "poll" /\ req'[s].mentions = {} /\ req'[s].runtime = rt
               /\ \A t \in req'[s].todo : t \in Task /\ task[t].runtime = rt
    <2> DEFINE listed == {t \in Task : task[t].runtime = rt /\ task[t].status \in Pending}
               q == [Free EXCEPT !.pc = "nextAgent", !.op = "poll", !.runtime = rt, !.todo = listed]
    <2>1. req[s].pc = "free" /\ req'[s] = q
      BY <1>0, <1>1 DEF Poll, Receive, At
    <2>2. q.pc = "nextAgent" /\ q.op = "poll" /\ q.mentions = {} /\ q.runtime = rt /\ q.todo = listed
      BY DEF Free
    <2> QED BY <2>1, <2>2
  <1>2. ASSUME CheckCapacity(s)
        PROVE  /\ req[s].pc = "nextAgent" /\ req'[s].pc \in {"noTask", "claim"}
               /\ KeptPoll(req[s], req'[s]) /\ req'[s].todo = req[s].todo
               /\ \E t \in req[s].todo : req'[s].agent = task[t].agent
    <2>1. PICK t \in req[s].todo :
            Become(s, [req[s] EXCEPT !.agent = task[t].agent,
                         !.pc = IF AtCapacity(task[t].agent) THEN "noTask" ELSE "claim"])
      BY <1>2 DEF CheckCapacity
    <2>2. PICK pc \in {"noTask", "claim"} : req'[s] = [req[s] EXCEPT !.agent = task[t].agent, !.pc = pc]
      BY <1>0, <2>1
    <2>3. /\ req'[s].pc = pc /\ KeptPoll(req[s], req'[s]) /\ req'[s].todo = req[s].todo
          /\ req'[s].agent = task[t].agent
      BY <1>0, <2>2 DEF ReqOK, KeptPoll
    <2> QED BY <1>2, <2>3 DEF CheckCapacity, At
  <1>3. BeginClaim(s) =>
                /\ req[s].pc = "claim" /\ req'[s].pc = "claiming"
                /\ KeptPoll(req[s], req'[s]) /\ req'[s].todo = req[s].todo
                /\ req'[s].agent = req[s].agent
    BY Moved DEF BeginClaim, At, Kept, KeptPoll
  <1>4. ASSUME EndClaim(s), ClaimCommit(s),
               Become(s, [req[s] EXCEPT !.pc = "markWorking", !.task = claim[s].row])
        PROVE  /\ req'[s].pc = "markWorking" /\ req'[s].task = claim[s].row
               /\ KeptPoll(req[s], req'[s]) /\ req'[s].todo = req[s].todo
               /\ req'[s].agent = req[s].agent
    <2> DEFINE t == claim[s].row
               q == [req[s] EXCEPT !.pc = "markWorking", !.task = t]
    <2>1. req'[s] = q
      BY <1>0, <1>4
    <2> HIDE DEF t
    <2>2. /\ q.pc = "markWorking" /\ q.task = t
          /\ KeptPoll(req[s], q) /\ q.todo = req[s].todo /\ q.agent = req[s].agent
      BY <1>0 DEF ReqOK, KeptPoll
    <2> QED BY <2>1, <2>2 DEF t
  <1>5. EndClaim(s) =>
                /\ req[s].pc = "claiming"
                /\ \/ req'[s] = req[s] /\ UNCHANGED task
                   \/ /\ ClaimCommit(s)
                      /\ req'[s].pc = "markWorking" /\ req'[s].task = claim[s].row
                      /\ KeptPoll(req[s], req'[s]) /\ req'[s].todo = req[s].todo
                      /\ req'[s].agent = req[s].agent
                   \/ /\ req'[s].pc = "noTask" /\ UNCHANGED task
                      /\ KeptPoll(req[s], req'[s]) /\ req'[s].todo = req[s].todo
                      /\ req'[s].agent = req[s].agent
    <2> SUFFICES ASSUME EndClaim(s)
                 PROVE  \/ req'[s] = req[s] /\ UNCHANGED task
                        \/ /\ ClaimCommit(s)
                           /\ req'[s].pc = "markWorking" /\ req'[s].task = claim[s].row
                           /\ KeptPoll(req[s], req'[s]) /\ req'[s].todo = req[s].todo
                           /\ req'[s].agent = req[s].agent
                        \/ /\ req'[s].pc = "noTask" /\ UNCHANGED task
                           /\ KeptPoll(req[s], req'[s]) /\ req'[s].todo = req[s].todo
                           /\ req'[s].agent = req[s].agent
      BY DEF EndClaim, At
    <2>1. CASE \E t \in Task : ClaimLock(s, t) /\ UNCHANGED req
      BY <2>1 DEF ClaimLock
    <2>2. CASE ClaimNothing(s) /\ Goto(s, "noTask")
      BY <2>2, Moved DEF ClaimNothing, Kept, KeptPoll
    <2> QED BY <1>4, <2>1, <2>2 DEF EndClaim
  <1>6. MarkWorking(s) \/ NoTask(s) =>
                /\ req[s].pc \in {"markWorking", "noTask"}
                /\ \/ req'[s] = Free
                   \/ /\ req'[s].pc = "nextAgent" /\ KeptPoll(req[s], req'[s])
                      /\ req'[s].todo \subseteq req[s].todo
    BY Moved DEF MarkWorking, NoTask, At
  <1> QED BY <1>1, <1>2, <1>3, <1>5, <1>6

-----------------------------------------------------------------------------
LEMMA HandleMoves ==
    ASSUME BInv, NEW s \in Session, NEW op, NEW t, NEW pc, Handle(s, op, t, pc)
    PROVE  /\ req'[s].pc = pc /\ req'[s].op = op /\ req'[s].task = t
           /\ req'[s].mentions = {}
           /\ UNCHANGED <<rows, sweeper>>
  <1>1. req'[s] = [Free EXCEPT !.pc = pc, !.op = op, !.task = t]
    BY Goes DEF Handle
  <1> QED BY <1>1 DEF Handle, Free

LEMMA UpdateMoves ==
    ASSUME BInv, NEW s \in Session
    PROVE  /\ GetIssue(s) =>
                /\ req[s].pc = "getIssue"
                /\ \/ /\ req'[s] = Free \/ (req'[s].pc = "count" /\ Kept(req[s], req'[s]))
                      /\ issue[task[req[s].task].issue].stage = StageAfter(req[s].op, req[s].task)
                   \/ req'[s].pc = "setStage" /\ Kept(req[s], req'[s])
           /\ SetStage(s) =>
                /\ req[s].pc = "setStage"
                /\ req'[s] = Free \/ (req'[s].pc = "count" /\ Kept(req[s], req'[s]))
           /\ GetIssue(s) \/ SetStage(s) =>
                (req[s].op = "complete" => req'[s].pc \in {"setStage", "count"})
           /\ CountTasks(s) =>
                /\ req[s].pc = "count"
                /\ req'[s].pc = "setStatus" /\ Kept(req[s], req'[s])
                /\ req'[s].busy = (RunningOf(task[req[s].task].agent) # {})
           /\ ReconcileStatus(s) =>
                /\ req[s].pc = "setStatus"
                /\ \/ req'[s] = Free /\ req[s].op = "complete"
                   \/ req'[s].pc = "getIssue" /\ Kept(req[s], req'[s])
  <1>0. req[s] \in ReqOK /\ \A r : Become(s, r) => req'[s] = r
    BY Facts, Goes
  <1>1. \A pc : Proceed(s, pc) =>
           \/ pc = "free" /\ req'[s] = Free
           \/ pc # "free" /\ req'[s].pc = pc /\ Kept(req[s], req'[s])
    BY Moved DEF Proceed
  <1>2. GetIssue(s) =>
                /\ req[s].pc = "getIssue"
                /\ \/ /\ req'[s] = Free \/ (req'[s].pc = "count" /\ Kept(req[s], req'[s]))
                      /\ issue[task[req[s].task].issue].stage = StageAfter(req[s].op, req[s].task)
                   \/ req'[s].pc = "setStage" /\ Kept(req[s], req'[s])
    BY <1>1, Moved DEF GetIssue, At
  <1>3. SetStage(s) =>
                /\ req[s].pc = "setStage"
                /\ req'[s] = Free \/ (req'[s].pc = "count" /\ Kept(req[s], req'[s]))
    BY <1>1 DEF SetStage, At
  <1>4. GetIssue(s) \/ SetStage(s) =>
                (req[s].op = "complete" => req'[s].pc \in {"setStage", "count"})
    BY <1>1, Moved DEF GetIssue, SetStage
  <1>5. ASSUME CountTasks(s)
        PROVE  /\ req'[s].pc = "setStatus" /\ Kept(req[s], req'[s])
               /\ req'[s].busy = (RunningOf(task[req[s].task].agent) # {})
    <2> DEFINE b == RunningOf(task[req[s].task].agent) # {}
               q == [req[s] EXCEPT !.pc = "setStatus", !.busy = b]
    <2>1. req'[s] = q
      BY <1>0, <1>5 DEF CountTasks
    <2> HIDE DEF b
    <2>2. q.pc = "setStatus" /\ Kept(req[s], q) /\ q.busy = b
      BY <1>0 DEF ReqOK, Kept
    <2> QED BY <2>1, <2>2 DEF b
  <1>6. ReconcileStatus(s) =>
                /\ req[s].pc = "setStatus"
                /\ \/ req'[s] = Free /\ req[s].op = "complete"
                   \/ req'[s].pc = "getIssue" /\ Kept(req[s], req'[s])
    BY <1>1 DEF ReconcileStatus, At
  <1> QED BY <1>2, <1>3, <1>4, <1>5, <1>6 DEF CountTasks, At

LEMMA LoadMoves ==
    ASSUME BInv, NEW s \in Session
    PROVE  \A op, i, a, mode, pc : Load(s, op, i, a, mode, pc) =>
                /\ req'[s].pc = pc /\ req'[s].op = op /\ req'[s].issue = i
                /\ req'[s].agent = a /\ req'[s].mentions = {}
  <1> SUFFICES ASSUME NEW op, NEW i, NEW a, NEW mode, NEW pc, Load(s, op, i, a, mode, pc)
               PROVE  /\ req'[s].pc = pc /\ req'[s].op = op /\ req'[s].issue = i
                      /\ req'[s].agent = a /\ req'[s].mentions = {}
    OBVIOUS
  <1>1. req'[s] = Loaded(op, i, a, mode, pc)
    BY Goes DEF Load
  <1> QED BY <1>1 DEF Loaded, Free

LEMMA EnqueueMoves ==
    ASSUME BInv, NEW s \in Session
    PROVE  /\ UpdateIssue(s) =>
                /\ req[s].pc = "updateIssue"
                /\ \/ /\ req[s].op = "assign"
                      /\ req'[s].pc = "cancelIssue" /\ req'[s].op = "assign"
                      /\ req'[s].issue = req[s].issue /\ req'[s].agent = req[s].agent
                      /\ req'[s].mentions = {}
                   \/ req[s].op # "assign" /\ req'[s] = Free
           /\ CancelTasksForIssue(s) =>
                /\ req[s].pc = "cancelIssue"
                /\ req'[s].pc = "getAgent" /\ Kept(req[s], req'[s])
           /\ NextMention(s) =>
                /\ req[s].pc = "nextMention"
                /\ \/ req'[s] = Free
                   \/ /\ req'[s].pc = "checkPending" /\ req'[s].op = "mention"
                      /\ req'[s].issue = req[s].issue /\ req[s].mentions # {}
           /\ CheckPending(s) =>
                /\ req[s].pc = "checkPending"
                /\ \/ AfterMoves(req[s], req'[s])
                   \/ req'[s].pc = "getAgent" /\ Kept(req[s], req'[s])
           /\ CheckActive(s) =>
                /\ req[s].pc = "checkActive"
                /\ \/ req'[s] = Free
                   \/ /\ req'[s].pc = "latestPlan" /\ Kept(req[s], req'[s])
                      /\ ~HasActiveTaskForIssue(req[s].issue)
           /\ LatestPlan(s) =>
                /\ req[s].pc = "latestPlan"
                /\ \/ req'[s] = Free
                   \/ req'[s].pc = "getAgent" /\ Kept(req[s], req'[s])
           /\ GetAgent(s) =>
                /\ req[s].pc = "getAgent"
                /\ \/ AfterMoves(req[s], req'[s])
                   \/ /\ req'[s].pc \in {"insert", "queueStage"} /\ Kept(req[s], req'[s])
                      /\ ~agent[req[s].agent].archived
           /\ WriteQueueStage(s) =>
                /\ req[s].pc = "queueStage"
                /\ \/ req[s].op = "fanOut" /\ req'[s] = Free
                   \/ /\ req[s].op # "fanOut"
                      /\ req'[s].pc = "insert" /\ Kept(req[s], req'[s])
           /\ InsertTask(s) =>
                req[s].pc = "insert" /\ AfterMoves(req[s], req'[s])
  <1>0. req[s] \in ReqOK /\ \A r : Become(s, r) => req'[s] = r
    BY Facts, Goes
  <1>1. UpdateIssue(s) =>
                /\ req[s].pc = "updateIssue"
                /\ \/ /\ req[s].op = "assign"
                      /\ req'[s].pc = "cancelIssue" /\ req'[s].op = "assign"
                      /\ req'[s].issue = req[s].issue /\ req'[s].agent = req[s].agent
                      /\ req'[s].mentions = {}
                   \/ req[s].op # "assign" /\ req'[s] = Free
    BY Moved, LoadMoves DEF UpdateIssue, At
  <1>2. CancelTasksForIssue(s) =>
                /\ req[s].pc = "cancelIssue"
                /\ req'[s].pc = "getAgent" /\ Kept(req[s], req'[s])
    BY Moved DEF CancelTasksForIssue, At
  <1>3. NextMention(s) =>
                /\ req[s].pc = "nextMention"
                /\ \/ req'[s] = Free
                   \/ /\ req'[s].pc = "checkPending" /\ req'[s].op = "mention"
                      /\ req'[s].issue = req[s].issue /\ req[s].mentions # {}
    <2>1. ASSUME NEW a, Become(s, [req[s] EXCEPT !.pc = "checkPending", !.op = "mention",
                                     !.agent = a, !.mentions = @ \ {a}])
          PROVE  /\ req'[s].pc = "checkPending" /\ req'[s].op = "mention"
                 /\ req'[s].issue = req[s].issue
      <3>1. req'[s] = [req[s] EXCEPT !.pc = "checkPending", !.op = "mention",
                                     !.agent = a, !.mentions = @ \ {a}]
        BY <1>0, <2>1
      <3> QED BY <1>0, <3>1 DEF ReqOK
    <2> QED BY <2>1, Moved DEF NextMention, At
  <1>4. CheckPending(s) =>
                /\ req[s].pc = "checkPending"
                /\ \/ AfterMoves(req[s], req'[s])
                   \/ req'[s].pc = "getAgent" /\ Kept(req[s], req'[s])
    BY Moved DEF CheckPending, At
  <1>5. CheckActive(s) =>
                /\ req[s].pc = "checkActive"
                /\ \/ req'[s] = Free
                   \/ /\ req'[s].pc = "latestPlan" /\ Kept(req[s], req'[s])
                      /\ ~HasActiveTaskForIssue(req[s].issue)
    BY Moved DEF CheckActive, At
  <1>6. LatestPlan(s) =>
                /\ req[s].pc = "latestPlan"
                /\ \/ req'[s] = Free
                   \/ req'[s].pc = "getAgent" /\ Kept(req[s], req'[s])
    BY Moved DEF LatestPlan, At
  <1>7. GetAgent(s) =>
                /\ req[s].pc = "getAgent"
                /\ \/ AfterMoves(req[s], req'[s])
                   \/ /\ req'[s].pc \in {"insert", "queueStage"} /\ Kept(req[s], req'[s])
                      /\ ~agent[req[s].agent].archived
    <2>1. ASSUME NEW rt, NEW pc \in {"insert", "queueStage"},
                 Become(s, [req[s] EXCEPT !.runtime = rt, !.pc = pc])
          PROVE  req'[s].pc \in {"insert", "queueStage"} /\ Kept(req[s], req'[s])
      <3>1. req'[s] = [req[s] EXCEPT !.runtime = rt, !.pc = pc]
        BY <1>0, <2>1
      <3> QED BY <1>0, <3>1 DEF ReqOK, Kept
    <2>2. ASSUME GetAgent(s), ~agent[req[s].agent].archived
          PROVE  req'[s].pc \in {"insert", "queueStage"} /\ Kept(req[s], req'[s])
      BY <2>1, <2>2 DEF GetAgent, MayEnqueue
    <2> QED BY <2>2, Moved DEF GetAgent, MayEnqueue, At
  <1>8. WriteQueueStage(s) =>
                /\ req[s].pc = "queueStage"
                /\ \/ req[s].op = "fanOut" /\ req'[s] = Free
                   \/ /\ req[s].op # "fanOut"
                      /\ req'[s].pc = "insert" /\ Kept(req[s], req'[s])
    BY Moved DEF WriteQueueStage, At
  <1>9. InsertTask(s) => req[s].pc = "insert" /\ AfterMoves(req[s], req'[s])
    BY Moved DEF InsertTask, At
  <1> QED BY <1>1, <1>2, <1>3, <1>4, <1>5, <1>6, <1>7, <1>8, <1>9

\* The requests that come in.
LEMMA Arrives ==
    ASSUME BInv, NEW s \in Session
    PROVE  /\ \A i \in Issue, a \in Agent : AssignIssue(s, i, a) =>
                /\ req[s].pc = "free" /\ "assign" \in Inputs
                /\ req'[s].pc = "updateIssue" /\ req'[s].op = "assign"
                /\ req'[s].issue = i /\ req'[s].agent = a /\ req'[s].mentions = {}
           /\ \A i \in Issue, a \in Agent \cup {None} : EditIssue(s, i, a) =>
                /\ req[s].pc = "free"
                /\ a = issue[i].assignee \/ "unassign" \in Inputs
                /\ req'[s].pc = "updateIssue" /\ req'[s].op = "edit"
                /\ req'[s].issue = i /\ req'[s].agent = a /\ req'[s].mentions = {}
           /\ \A i \in Issue, M \in SUBSET Agent : Comment(s, i, M) =>
                /\ req[s].pc = "free" /\ (M = {} \/ "mention" \in Inputs)
                /\ req'[s].pc = "checkPending" /\ req'[s].op = "comment"
                /\ req'[s].issue = i /\ req'[s].agent = issue[i].assignee /\ req'[s].mentions = M
           /\ \A i \in Issue, M \in SUBSET Agent : Mention(s, i, M) =>
                /\ req[s].pc = "free" /\ "mention" \in Inputs
                /\ req'[s].pc = "nextMention" /\ req'[s].op = "mention"
                /\ req'[s].issue = i /\ req'[s].mentions = M
           /\ \A i \in Issue : ConfirmPlan(s, i) =>
                /\ req[s].pc = "free"
                /\ req'[s].pc = "checkActive" /\ req'[s].op = "confirm"
                /\ req'[s].issue = i /\ req'[s].agent = issue[i].assignee /\ req'[s].mentions = {}
  <1>0. \A r : Become(s, r) => req'[s] = r
    BY Goes
  <1>1. ASSUME NEW i \in Issue, NEW a \in Agent, AssignIssue(s, i, a)
        PROVE  /\ req[s].pc = "free" /\ "assign" \in Inputs
               /\ req'[s].pc = "updateIssue" /\ req'[s].op = "assign"
               /\ req'[s].issue = i /\ req'[s].agent = a /\ req'[s].mentions = {}
    BY <1>1, LoadMoves DEF AssignIssue, Receive, At
  <1>2. ASSUME NEW i \in Issue, NEW a \in Agent \cup {None}, EditIssue(s, i, a)
        PROVE  /\ req[s].pc = "free"
               /\ a = issue[i].assignee \/ "unassign" \in Inputs
               /\ req'[s].pc = "updateIssue" /\ req'[s].op = "edit"
               /\ req'[s].issue = i /\ req'[s].agent = a /\ req'[s].mentions = {}
    <2>1. Load(s, "edit", i, a, "plan", "updateIssue")
      BY <1>2 DEF EditIssue
    <2>2. /\ req'[s].pc = "updateIssue" /\ req'[s].op = "edit"
          /\ req'[s].issue = i /\ req'[s].agent = a /\ req'[s].mentions = {}
      BY <2>1, LoadMoves
    <2> QED BY <1>2, <2>2 DEF EditIssue, Receive, At
  <1>3. ASSUME NEW i \in Issue, NEW M \in SUBSET Agent, Comment(s, i, M)
        PROVE  /\ req[s].pc = "free" /\ (M = {} \/ "mention" \in Inputs)
               /\ req'[s].pc = "checkPending" /\ req'[s].op = "comment"
               /\ req'[s].issue = i /\ req'[s].agent = issue[i].assignee /\ req'[s].mentions = M
    <2> DEFINE mode == PreferredTaskMode(issue[i].stage)
               assignee == issue[i].assignee
    <2>1. req'[s] = [Loaded("comment", i, assignee, mode, "checkPending") EXCEPT !.mentions = M]
      BY <1>0, <1>3 DEF Comment
    <2> HIDE DEF mode, assignee
    <2>2. /\ req'[s].pc = "checkPending" /\ req'[s].op = "comment"
          /\ req'[s].issue = i /\ req'[s].agent = assignee /\ req'[s].mentions = M
      BY <2>1 DEF Loaded, Free
    <2> QED BY <1>3, <2>2 DEF Comment, Receive, At, assignee
  <1>4. ASSUME NEW i \in Issue, NEW M \in SUBSET Agent, Mention(s, i, M)
        PROVE  /\ req[s].pc = "free" /\ "mention" \in Inputs
               /\ req'[s].pc = "nextMention" /\ req'[s].op = "mention"
               /\ req'[s].issue = i /\ req'[s].mentions = M
    <2> DEFINE mode == PreferredTaskMode(issue[i].stage)
    <2>1. req'[s] = [Loaded("mention", i, None, mode, "nextMention") EXCEPT !.mentions = M]
      BY <1>0, <1>4 DEF Mention
    <2> HIDE DEF mode
    <2>2. /\ req'[s].pc = "nextMention" /\ req'[s].op = "mention"
          /\ req'[s].issue = i /\ req'[s].mentions = M
      BY <2>1 DEF Loaded, Free
    <2> QED BY <1>4, <2>2 DEF Mention, Receive, At
  <1>5. ASSUME NEW i \in Issue, ConfirmPlan(s, i)
        PROVE  /\ req[s].pc = "free"
               /\ req'[s].pc = "checkActive" /\ req'[s].op = "confirm"
               /\ req'[s].issue = i /\ req'[s].agent = issue[i].assignee /\ req'[s].mentions = {}
    BY <1>5, LoadMoves DEF ConfirmPlan, Receive, At
  <1> QED BY <1>1, <1>2, <1>3, <1>4, <1>5

Arriving(s) ==
    \/ \E i \in Issue, a \in Agent : AssignIssue(s, i, a)
    \/ \E i \in Issue, M \in SUBSET Agent : Comment(s, i, M) \/ Mention(s, i, M)
    \/ \E i \in Issue, a \in Agent \cup {None} : EditIssue(s, i, a)
    \/ \E i \in Issue : ConfirmPlan(s, i)

LEMMA Arrived ==
    ASSUME BInv, NEW s \in Session, Arriving(s)
    PROVE  /\ req[s].pc = "free"
           /\ req'[s].pc \in {"updateIssue", "checkPending", "checkActive", "nextMention"}
  <1>1. CASE \E i \in Issue, a \in Agent : AssignIssue(s, i, a)
    BY <1>1, Arrives
  <1>2. ASSUME NEW i \in Issue, NEW M \in SUBSET Agent, Comment(s, i, M)
        PROVE  /\ req[s].pc = "free"
               /\ req'[s].pc \in {"updateIssue", "checkPending", "checkActive", "nextMention"}
    BY <1>2, Arrives
  <1>3. ASSUME NEW i \in Issue, NEW M \in SUBSET Agent, Mention(s, i, M)
        PROVE  /\ req[s].pc = "free"
               /\ req'[s].pc \in {"updateIssue", "checkPending", "checkActive", "nextMention"}
    BY <1>3, Arrives
  <1>4. CASE \E i \in Issue, a \in Agent \cup {None} : EditIssue(s, i, a)
    BY <1>4, Arrives
  <1>5. CASE \E i \in Issue : ConfirmPlan(s, i)
    BY <1>5, Arrives
  <1> QED BY <1>1, <1>2, <1>3, <1>4, <1>5 DEF Arriving

LEMMA OtherMoves ==
    ASSUME BInv, NEW s \in Session
    PROVE  /\ \A t \in Task, specs \in FanOuts : FanOutTask(s, t, specs) =>
                /\ req[s].pc = "free" /\ "fanOut" \in Inputs
                /\ req'[s].pc = "fanInsert" /\ req'[s].op = "fanOut" /\ req'[s].mentions = {}
           /\ InsertChild(s) =>
                /\ req[s].pc = "fanInsert"
                /\ \/ req'[s] = Free
                   \/ req'[s].pc \in {"fanInsert", "queueStage"} /\ Kept(req[s], req'[s])
           /\ \A a \in Agent : ArchiveAgent(s, a) =>
                /\ req[s].pc = "free" /\ "archive" \in Inputs
                /\ req'[s].pc = "cancelAgent" /\ req'[s].op = "archive"
                /\ req'[s].agent = a /\ req'[s].mentions = {}
           /\ CancelTasksForAgent(s) => req[s].pc = "cancelAgent" /\ req'[s] = Free
           /\ Abandon(s) => /\ "abandon" \in Inputs \/ ("hangUp" \in Inputs /\ req[s].op = "poll")
                            /\ req[s].pc # "free" /\ req'[s] = Free
  <1>0. req[s] \in ReqOK /\ \A r : Become(s, r) => req'[s] = r
    BY Facts, Goes
  <1>1. ASSUME NEW t \in Task, NEW specs \in FanOuts, FanOutTask(s, t, specs)
        PROVE  /\ req[s].pc = "free" /\ "fanOut" \in Inputs
               /\ req'[s].pc = "fanInsert" /\ req'[s].op = "fanOut" /\ req'[s].mentions = {}
    <2>1. req'[s] = [Free EXCEPT !.pc = "fanInsert", !.op = "fanOut", !.task = t,
                    !.issue = task[t].issue, !.stage = issue[task[t].issue].stage,
                    !.mode = specs[1].mode, !.specs = specs, !.k = 1]
      BY <1>0, <1>1 DEF FanOutTask
    <2>2. req'[s].pc = "fanInsert" /\ req'[s].op = "fanOut" /\ req'[s].mentions = {}
      BY <2>1 DEF Free
    <2> QED BY <1>1, <2>2 DEF FanOutTask, Receive, At
  <1>2. InsertChild(s) =>
                /\ req[s].pc = "fanInsert"
                /\ \/ req'[s] = Free
                   \/ req'[s].pc \in {"fanInsert", "queueStage"} /\ Kept(req[s], req'[s])
    <2>1. ASSUME NEW pc \in {"fanInsert", "queueStage"},
                 Become(s, [req[s] EXCEPT !.pc = pc, !.k = req[s].k + 1])
          PROVE  req'[s].pc \in {"fanInsert", "queueStage"} /\ Kept(req[s], req'[s])
      <3>1. req'[s] = [req[s] EXCEPT !.pc = pc, !.k = req[s].k + 1]
        BY <1>0, <2>1
      <3> QED BY <1>0, <3>1 DEF ReqOK, Kept
    <2> QED BY <2>1, Moved DEF InsertChild, At
  <1>3. ASSUME NEW a \in Agent, ArchiveAgent(s, a)
        PROVE  /\ req[s].pc = "free" /\ "archive" \in Inputs
               /\ req'[s].pc = "cancelAgent" /\ req'[s].op = "archive"
               /\ req'[s].agent = a /\ req'[s].mentions = {}
    <2>1. req'[s] = [Free EXCEPT !.pc = "cancelAgent", !.op = "archive", !.agent = a]
      BY <1>0, <1>3 DEF ArchiveAgent
    <2> QED BY <1>3, <2>1 DEF ArchiveAgent, Receive, At, Free
  <1>4. CancelTasksForAgent(s) => req[s].pc = "cancelAgent" /\ req'[s] = Free
    BY Moved DEF CancelTasksForAgent, At
  <1>5. Abandon(s) => /\ "abandon" \in Inputs \/ ("hangUp" \in Inputs /\ req[s].op = "poll")
                      /\ req[s].pc # "free" /\ req'[s] = Free
    BY Moved DEF Abandon, At
  <1> QED BY <1>1, <1>2, <1>3, <1>4, <1>5

-----------------------------------------------------------------------------
(* One handler moves at a time, and the rows change as StepOK says.        *)

Handles(s) ==
    Polls(s) \/ TaskUpdates(s) \/ Enqueues(s) \/ Fans(s) \/ AgentUpdates(s) \/ Abandon(s)

LEMMA OthersWait ==
    ASSUME BInv, NEW s \in Session, Handles(s)
    PROVE  /\ \A z \in Session : z # s => req'[z] = req[z]
           /\ [Next]_vars
  <1>1. Keeps(s)
    BY PollsKeep, TaskUpdatesKeep, EnqueuesKeep, FansKeep, AgentUpdatesKeep DEF Handles
  <1>2. ServiceNext
    BY DEF ServiceNext, Handles
  <1> QED BY <1>1, <1>2, Facts, QueueSteps DEF Keeps

\* A row that exists keeps all but its status; a live row was live before, or is new.
LEMMA RowsKeep ==
    ASSUME IInv, [Next]_vars, NEW t \in Task, Exists(t)
    PROVE  /\ task'[t].status # "absent"
           /\ task'[t].agent = task[t].agent /\ task'[t].issue = task[t].issue
           /\ task'[t].runtime = task[t].runtime /\ task'[t].parent = task[t].parent
           /\ task'[t].status \in Live => task[t].status \in Live
           /\ task'[t].status = "queued" => task[t].status = "queued"
           /\ task'[t].status = "dispatched" => task[t].status \in Pending
           /\ task[t].status \in Terminal => task'[t].status = task[t].status
  <1>1. CASE task'[t] = task[t]
    BY <1>1 DEF Exists, Pending
  <1>2. CASE task'[t] # task[t]
    <2>1. StepOK(t)
      BY <1>2, StepsAreOK DEF vars
    <2>2. task[t] \in Row
      BY RowTypes DEF IInv
    <2> QED BY <2>1, <2>2 DEF StepOK, Successors, Row, Live, Terminal, Pending
  <1> QED BY <1>1, <1>2

-----------------------------------------------------------------------------
(* Which requests a handler can be serving, and where it then can be.      *)

Polling == {"nextAgent", "claim", "claiming", "markWorking", "noTask"}

Shaped(r) ==
    /\ r.op = "poll" => r.pc \in Polling
    /\ r.pc \in Reporting => r.op \in {"start", "complete", "fail", "cancel"}
    /\ r.pc = "cancelIssue" => r.op = "assign"
    /\ r.pc = "cancelAgent" => r.op = "archive"
    /\ r.pc = "checkPending" => r.op \in {"comment", "mention"}
    /\ r.op \in {"assign", "cancel", "fanOut", "archive"} => r.op \in Inputs
    /\ r.op = "mention" \/ r.mentions # {} => "mention" \in Inputs

Quiet ==
    \/ "timeout" \in Inputs \/ "runtime" \in Inputs
    \/ sweeper = Asleep /\ \A r \in Runtime : runtime[r].fresh

Shape == BInv /\ Quiet /\ \A s \in Session : Shaped(req[s])

LEMMA FreeIsShaped == Shaped(Free)
  BY FreeFields DEF Shaped, Polling, Reporting

LEMMA HandlersKeepShape ==
    ASSUME Shape, NEW s \in Session, Handles(s)
    PROVE  Shaped(req'[s])
  <1>0. BInv /\ Shaped(req[s])
    BY DEF Shape
  <1>1. req'[s] = Free => Shaped(req'[s])
    BY FreeIsShaped
  <1>2. AfterMoves(req[s], req'[s]) /\ req[s].pc \in {"checkPending", "getAgent", "insert"}
           => Shaped(req'[s])
    BY <1>0, FreeIsShaped DEF AfterMoves, Shaped, Kept, Polling, Reporting
  <1>3. CASE Polls(s)
    BY <1>0, <1>1, <1>3, PollMoves DEF Polls, Shaped, KeptPoll, Polling, Reporting
  <1>4. CASE TaskUpdates(s)
    <2>1. ASSUME NEW t \in Task,
                 StartTask(s, t) \/ CompleteTask(s, t) \/ FailTask(s, t) \/ CancelTask(s, t)
          PROVE  Shaped(req'[s])
      <3>1. \E op \in {"start", "complete", "fail", "cancel"}, pc \in {"getIssue", "count"} :
               Handle(s, op, t, pc) /\ (op = "cancel" => op \in Inputs)
        BY <2>1 DEF StartTask, CompleteTask, FailTask, CancelTask, Receive
      <3>2. PICK op \in {"start", "complete", "fail", "cancel"}, pc \in {"getIssue", "count"} :
               Handle(s, op, t, pc) /\ (op = "cancel" => op \in Inputs)
        BY <3>1
      <3> QED BY <1>0, <3>2, HandleMoves DEF Shaped, Polling, Reporting
    <2>2. CASE GetIssue(s) \/ SetStage(s) \/ CountTasks(s) \/ ReconcileStatus(s)
      BY <1>0, <1>1, <2>2, UpdateMoves DEF Shaped, Kept, Polling, Reporting
    <2> QED BY <1>4, <2>1, <2>2 DEF TaskUpdates
  <1>5. CASE Enqueues(s)
    <2>1. ASSUME NEW i \in Issue, NEW a \in Agent, AssignIssue(s, i, a) PROVE Shaped(req'[s])
      BY <1>0, <2>1, Arrives DEF Shaped, Polling, Reporting
    <2>2. ASSUME NEW i \in Issue, NEW a \in Agent \cup {None}, EditIssue(s, i, a)
          PROVE  Shaped(req'[s])
      BY <1>0, <2>2, Arrives DEF Shaped, Polling, Reporting
    <2>3. ASSUME NEW i \in Issue, NEW M \in SUBSET Agent, Comment(s, i, M) \/ Mention(s, i, M)
          PROVE  Shaped(req'[s])
      BY <1>0, <2>3, Arrives DEF Shaped, Polling, Reporting
    <2>4. ASSUME NEW i \in Issue, ConfirmPlan(s, i) PROVE Shaped(req'[s])
      BY <1>0, <2>4, Arrives DEF Shaped, Polling, Reporting
    <2>5. CASE CheckPending(s) \/ GetAgent(s) \/ InsertTask(s)
      BY <1>0, <1>2, <2>5, EnqueueMoves DEF Shaped, Kept, Polling, Reporting
    <2>6. CASE UpdateIssue(s) \/ CancelTasksForIssue(s) \/ NextMention(s)
      BY <1>0, <1>1, <2>6, EnqueueMoves, Facts DEF Shaped, Kept, Polling, Reporting, ReqOK
    <2>7. CASE CheckActive(s) \/ LatestPlan(s) \/ WriteQueueStage(s)
      BY <1>0, <1>1, <2>7, EnqueueMoves DEF Shaped, Kept, Polling, Reporting
    <2> QED BY <1>5, <2>1, <2>2, <2>3, <2>4, <2>5, <2>6, <2>7 DEF Enqueues
  <1>6. CASE Fans(s)
    BY <1>0, <1>1, <1>6, OtherMoves DEF Fans, Shaped, Kept, Polling, Reporting
  <1>7. CASE AgentUpdates(s)
    <2>1. CASE UNCHANGED req
      BY <1>0, <2>1
    <2>2. CASE \E a \in Agent : ArchiveAgent(s, a)
      BY <1>0, <2>2, OtherMoves DEF Shaped, Polling, Reporting
    <2> QED BY <1>0, <1>1, <1>7, <2>1, <2>2, OtherMoves DEF AgentUpdates, MoveAgent, RestoreAgent
  <1>8. CASE Abandon(s)
    BY <1>0, <1>1, <1>8, OtherMoves
  <1> QED BY <1>3, <1>4, <1>5, <1>6, <1>7, <1>8 DEF Handles

LEMMA ShapeInit == ServiceInit => Shape
  <1> SUFFICES ASSUME ServiceInit PROVE Shape
    OBVIOUS
  <1>1. Quiet
    BY DEF ServiceInit, Quiet
  <1> QED BY <1>1, BuildInitEstablishes, FreeIsShaped DEF ServiceInit, Shape

\* Handlers leave the sweeper and the runtimes alone.
LEMMA HandlersLeave ==
    ASSUME NEW s \in Session, Handles(s)
    PROVE  UNCHANGED <<runtime, sweeper>>
  <1>1. CASE Polls(s)
    BY <1>1 DEF Polls, Poll, CheckCapacity, BeginClaim, EndClaim, MarkWorking, NoTask, rows
  <1>2. CASE TaskUpdates(s)
    BY <1>2 DEF TaskUpdates, StartTask, CompleteTask, FailTask, CancelTask, Handle, GetIssue,
       SetStage, CountTasks, ReconcileStatus, rows
  <1>3. CASE Enqueues(s)
    BY <1>3 DEF Enqueues, AssignIssue, Comment, Mention, EditIssue, ConfirmPlan, UpdateIssue,
       CancelTasksForIssue, NextMention, CheckPending, CheckActive, LatestPlan, GetAgent,
       WriteQueueStage, InsertTask, rows
  <1>4. CASE Fans(s) \/ AgentUpdates(s) \/ Abandon(s)
    BY <1>4 DEF Fans, FanOutTask, InsertChild, AgentUpdates, MoveAgent, ArchiveAgent,
       RestoreAgent, CancelTasksForAgent, Abandon, rows
  <1> QED BY <1>1, <1>2, <1>3, <1>4 DEF Handles

\* Where nothing times out and no runtime goes away, the sweeper finds nothing.
LEMMA QuietNights ==
    ASSUME Shape, NoneOf({"timeout", "runtime"})
    PROVE  /\ sweeper = Asleep /\ ~Runtimes /\ ~Sweeps
           /\ [ServiceNext]_serviceVars => Quiet'
  <1>1. "timeout" \notin Inputs /\ "runtime" \notin Inputs
    BY DEF NoneOf
  <1>2. sweeper = Asleep /\ \A r \in Runtime : runtime[r].fresh
    BY <1>1 DEF Shape, Quiet
  <1>3. sweeper.pc = "asleep"
    BY <1>2 DEF Asleep
  <1>4. ~Runtimes
    BY <1>1 DEF Runtimes, Heartbeat, Lapse, DaemonDeregister
  <1>5. ~Sweeps
    BY <1>1, <1>2, <1>3 DEF Sweeps, MarkStaleRuntimesOffline, SweepOrphans, SweepCount,
       SweepSetStatus
  <1>6. [ServiceNext]_serviceVars => UNCHANGED <<runtime, sweeper>>
    BY <1>4, <1>5, HandlersLeave DEF ServiceNext, Handles, serviceVars
  <1> QED BY <1>2, <1>4, <1>5, <1>6 DEF Quiet

LEMMA ShapeNext == Shape /\ [ServiceNext]_serviceVars => Shape'
  <1> SUFFICES ASSUME Shape, [ServiceNext]_serviceVars PROVE Shape'
    OBVIOUS
  <1>1. BInv'
    BY BuildNextPreserves DEF Shape
  <1>2. Quiet'
    <2>1. CASE NoneOf({"timeout", "runtime"})
      BY <2>1, QuietNights
    <2>2. CASE ~NoneOf({"timeout", "runtime"})
      BY <2>2 DEF NoneOf, Quiet
    <2> QED BY <2>1, <2>2
  <1>3. \A s \in Session : Shaped(req'[s])
    <2>1. CASE UNCHANGED req
      BY <2>1 DEF Shape
    <2>2. ASSUME NEW s \in Session, Handles(s), NEW z \in Session PROVE Shaped(req'[z])
      BY <2>2, HandlersKeepShape, OthersWait DEF Shape
    <2>3. Runtimes \/ Sweeps => UNCHANGED req
      BY BesideIsCareful DEF Shape
    <2> QED BY <2>1, <2>2, <2>3 DEF ServiceNext, Handles, serviceVars
  <1> QED BY <1>1, <1>2, <1>3 DEF Shape

LEMMA ShapeHolds == ServiceSpec => []Shape
  BY ShapeInit, ShapeNext, PTL DEF ServiceSpec

-----------------------------------------------------------------------------
(* Where a handler is before and after its statement.                      *)

LEMMA Where ==
    ASSUME BInv, NEW s \in Session
    PROVE  /\ Polls(s) => /\ req[s].pc \in {"free"} \cup Polling
                          /\ req'[s] = Free \/ req'[s].pc \in Polling
           /\ TaskUpdates(s) => /\ req[s].pc \in {"free"} \cup Reporting
                                /\ req'[s] = Free \/ req'[s].pc \in Reporting
           /\ Enqueues(s) => /\ req[s].pc \in {"free", "updateIssue"} \cup Enqueuing
                             /\ req'[s] = Free \/ req'[s].pc \in {"updateIssue"} \cup Enqueuing
           /\ Fans(s) => /\ req[s].pc \in {"free", "fanInsert"}
                         /\ req'[s] = Free \/ req'[s].pc \in {"fanInsert", "queueStage"}
           /\ AgentUpdates(s) => /\ req[s].pc \in {"free", "cancelAgent"}
                                 /\ \/ req'[s] = Free \/ req'[s] = req[s]
                                    \/ req'[s].pc = "cancelAgent"
           /\ Abandon(s) => req'[s] = Free
  <1>1. ASSUME Polls(s)
        PROVE  /\ req[s].pc \in {"free"} \cup Polling
               /\ req'[s] = Free \/ req'[s].pc \in Polling
    BY <1>1, PollMoves DEF Polls, Polling
  <1>2. ASSUME TaskUpdates(s)
        PROVE  /\ req[s].pc \in {"free"} \cup Reporting
               /\ req'[s] = Free \/ req'[s].pc \in Reporting
    <2>1. ASSUME NEW t \in Task,
                 StartTask(s, t) \/ CompleteTask(s, t) \/ FailTask(s, t) \/ CancelTask(s, t)
          PROVE  req[s].pc = "free" /\ req'[s].pc \in Reporting
      <3>1. \E op : \E pc \in {"getIssue", "count"} : Handle(s, op, t, pc)
        BY <2>1 DEF StartTask, CompleteTask, FailTask, CancelTask
      <3>2. req'[s].pc \in {"getIssue", "count"}
        BY <3>1, HandleMoves
      <3> QED BY <2>1, <3>2 DEF StartTask, CompleteTask, FailTask, CancelTask, Receive, At,
                Reporting
    <2> QED BY <1>2, <2>1, UpdateMoves DEF TaskUpdates, Reporting
  <1>3. ASSUME Enqueues(s)
        PROVE  /\ req[s].pc \in {"free", "updateIssue"} \cup Enqueuing
               /\ req'[s] = Free \/ req'[s].pc \in {"updateIssue"} \cup Enqueuing
    BY <1>3, Arrived, EnqueueMoves DEF Enqueues, Arriving, Enqueuing, AfterMoves
  <1>4. ASSUME Fans(s)
        PROVE  /\ req[s].pc \in {"free", "fanInsert"}
               /\ req'[s] = Free \/ req'[s].pc \in {"fanInsert", "queueStage"}
    BY <1>4, OtherMoves DEF Fans
  <1>5. ASSUME AgentUpdates(s)
        PROVE  /\ req[s].pc \in {"free", "cancelAgent"}
               /\ \/ req'[s] = Free \/ req'[s] = req[s]
                  \/ req'[s].pc = "cancelAgent"
    BY <1>5, OtherMoves DEF AgentUpdates, MoveAgent, RestoreAgent, Receive, At
  <1> QED BY <1>1, <1>2, <1>3, <1>4, <1>5, OtherMoves

\* Only polls claim.
LEMMA ClaimsLeft ==
    /\ \A s \in Session : TaskUpdates(s) \/ Enqueues(s) \/ Fans(s) \/ AgentUpdates(s)
                            => UNCHANGED claim
    /\ Runtimes \/ Sweeps => UNCHANGED claim
  <1>1. ASSUME NEW s \in Session, TaskUpdates(s) PROVE UNCHANGED claim
    BY <1>1 DEF TaskUpdates, StartTask, CompleteTask, FailTask, CancelTask, GetIssue, SetStage,
       CountTasks, ReconcileStatus, StartAgentTask, CompleteAgentTask, FailAgentTask,
       CancelAgentTask, CancelTasks, vars
  <1>2. ASSUME NEW s \in Session, Enqueues(s) PROVE UNCHANGED claim
    BY <1>2 DEF Enqueues, AssignIssue, Comment, Mention, EditIssue, ConfirmPlan, UpdateIssue,
       CancelTasksForIssue, NextMention, CheckPending, CheckActive, LatestPlan, GetAgent,
       WriteQueueStage, InsertTask, CancelAgentTasksByIssue, CancelTasks, CreateAgentTask, vars
  <1>3. ASSUME NEW s \in Session, Fans(s) \/ AgentUpdates(s) PROVE UNCHANGED claim
    BY <1>3 DEF Fans, FanOutTask, InsertChild, AgentUpdates, MoveAgent, ArchiveAgent,
       RestoreAgent, CancelTasksForAgent, CancelAgentTasksByAgent, CancelTasks,
       CreateAgentTask, vars
  <1>4. Runtimes => UNCHANGED claim
    BY DEF Runtimes, Heartbeat, Lapse, DaemonDeregister, vars
  <1>5. Sweeps => UNCHANGED claim
    BY DEF Sweeps, MarkStaleRuntimesOffline, SweepOrphans, SweepStaleTasks, SweepCount,
       SweepSetStatus, FailTasksForOfflineRuntimes, FailStaleTasks, vars
  <1> QED BY <1>1, <1>2, <1>3, <1>4, <1>5

\* A claim belongs to the handler that began it.
LEMMA OthersClaims ==
    ASSUME BInv, NEW s \in Session, Handles(s), NEW z \in Session, z # s
    PROVE  claim'[z] = claim[z]
  <1>1. claim \in [Session -> [agent : Agent \cup {None}, seen : SUBSET Task, row : Task \cup {0}]]
    BY Facts DEF TypeOK
  <1>2. CASE Polls(s)
    BY <1>1, <1>2 DEF Polls, Poll, CheckCapacity, BeginClaim, EndClaim, MarkWorking, NoTask,
       ClaimSnapshot, ClaimLock, ClaimCommit, ClaimNothing, vars
  <1>3. CASE Abandon(s)
    BY <1>1, <1>3 DEF Abandon, ClaimAbort
  <1> QED BY <1>2, <1>3, ClaimsLeft DEF Handles

\* A row is new and queued, or it is dispatched by the claim of a poll, or it goes on.
LEMMA NewAreQueued ==
    ASSUME IInv, [Next]_vars, NEW t \in Task, ~Exists(t), task'[t] # task[t]
    PROVE  task'[t].status = "queued"
  <1>1. StepOK(t)
    BY StepsAreOK DEF vars
  <1> QED BY <1>1 DEF StepOK, Successors, Exists

LEMMA Dispatches ==
    ASSUME BInv, [ServiceNext]_serviceVars, NEW t \in Task,
           task'[t].status = "dispatched", task[t].status # "dispatched"
    PROVE  \E s \in Session : EndClaim(s) /\ ClaimCommit(s) /\ claim[s].row = t
  <1>1. [Next]_vars /\ TypeOK /\ LocksHold
    BY Facts, QueueSteps
  <1>2. task'[t] # task[t]
    OBVIOUS
  <1>3. \E z \in Session : ClaimCommit(z)
    <2>1. ASSUME NEW n \in Task, Inserts(n) PROVE FALSE
      BY <1>1, <1>2, <2>1 DEF Inserts, CreateAgentTask, TypeOK
    <2>2. ASSUME NEW u \in Task, StartAgentTask(u) PROVE FALSE
      BY <1>1, <1>2, <2>2, SetStatusEffect DEF StartAgentTask
    <2>3. ASSUME NEW S \in SUBSET Task, NEW status \in Terminal, Ends(S, status) PROVE FALSE
      BY <1>1, <1>2, <2>3, SetStatusEffect DEF Ends, Terminal
    <2>4. ASSUME UNCHANGED task PROVE FALSE
      BY <1>2, <2>4
    <2> QED BY <1>1, <2>1, <2>2, <2>3, <2>4, StepKinds
            DEF ClaimSnapshot, ClaimLock, Releases, vars
  <1>4. ~UNCHANGED claim /\ ~UNCHANGED task
    <2>1. PICK z \in Session : ClaimCommit(z)
      BY <1>3
    <2> QED BY <1>1, <1>2, <2>1 DEF ClaimCommit, NoClaim, TypeOK
  <1>5. PICK s \in Session : Polls(s) \/ Abandon(s)
    BY <1>4, ClaimsLeft DEF ServiceNext, serviceVars
  <1>6. EndClaim(s) /\ ClaimCommit(s)
    BY <1>4, <1>5 DEF Abandon, ClaimAbort, Polls, Poll, CheckCapacity, BeginClaim, EndClaim,
       MarkWorking, NoTask, ClaimSnapshot, ClaimLock, ClaimNothing, vars
  <1>7. claim[s].row = t
    BY <1>1, <1>2, <1>6, SetStatusEffect DEF ClaimCommit, TypeOK
  <1> QED BY <1>6, <1>7

LEMMA DeliveredStays ==
    ASSUME BInv, [ServiceNext]_serviceVars, NEW t \in Task, delivered[t]
    PROVE  delivered'[t]
  <1>1. delivered \in [Task -> BOOLEAN]
    BY Facts, ServiceTypes
  <1>2. ASSUME NEW s \in Session, Polls(s) PROVE delivered'[t]
    BY <1>1, <1>2 DEF Polls, Poll, CheckCapacity, BeginClaim, EndClaim, MarkWorking, NoTask, rows
  <1>3. ASSUME NEW s \in Session, TaskUpdates(s) PROVE UNCHANGED delivered
    BY <1>3 DEF TaskUpdates, StartTask, CompleteTask, FailTask, CancelTask, Handle, GetIssue,
       SetStage, CountTasks, ReconcileStatus, rows
  <1>4. ASSUME NEW s \in Session, Enqueues(s) PROVE UNCHANGED delivered
    BY <1>4 DEF Enqueues, AssignIssue, Comment, Mention, EditIssue, ConfirmPlan, UpdateIssue,
       CancelTasksForIssue, NextMention, CheckPending, CheckActive, LatestPlan, GetAgent,
       WriteQueueStage, InsertTask, rows
  <1>5. ASSUME NEW s \in Session, Fans(s) \/ AgentUpdates(s) \/ Abandon(s) PROVE UNCHANGED delivered
    BY <1>5 DEF Fans, FanOutTask, InsertChild, AgentUpdates, MoveAgent, ArchiveAgent,
       RestoreAgent, CancelTasksForAgent, Abandon, rows
  <1>6. ASSUME Runtimes PROVE UNCHANGED delivered
    BY <1>6 DEF Runtimes, Heartbeat, Lapse, DaemonDeregister
  <1>7. ASSUME Sweeps PROVE UNCHANGED delivered
    BY <1>7 DEF Sweeps, MarkStaleRuntimesOffline, SweepOrphans, SweepStaleTasks, SweepCount,
       SweepSetStatus, rows
  <1> QED BY <1>2, <1>3, <1>4, <1>5, <1>6, <1>7 DEF ServiceNext, serviceVars

-----------------------------------------------------------------------------
(* A claimed task reaches its daemon, or its agent was moved.              *)

\* What a poll knows of the tasks it has listed, claimed or seen.
Looks(s) ==
    /\ req[s].pc \in Polling =>
         /\ req[s].runtime \in Runtime
         /\ \A u \in req[s].todo : task[u].runtime = req[s].runtime
    /\ req[s].pc \in Polling \ {"nextAgent"} =>
         \E u \in req[s].todo : task[u].agent = req[s].agent
    /\ req[s].pc = "claiming" =>
         \A t \in claim[s].seen : task[t].agent = req[s].agent
    /\ req[s].pc = "markWorking" =>
         /\ req[s].task \in Task /\ Exists(req[s].task)
         /\ task[req[s].task].agent = req[s].agent

OInv == Shape /\ OrphanedOnlyByMove /\ \A s \in Session : Looks(s)

LEMMA LooksStay ==
    ASSUME OInv, [Next]_vars, NEW z \in Session, req'[z] = req[z], claim'[z] = claim[z]
    PROVE  Looks(z)'
  <1>1. /\ IInv /\ req[z] \in ReqOK /\ Ready(req[z], task) /\ Looks(z)
        /\ \A t \in claim[z].seen : Exists(t)
        /\ claim[z].seen \subseteq Task /\ req[z].todo \subseteq Task
    BY Facts DEF OInv, Shape, IInv, ClaimInv, SeenExist, TypeOK, ReqOK
  <1>2. \A u \in req[z].todo : /\ task'[u].runtime = task[u].runtime
                               /\ task'[u].agent = task[u].agent
    BY <1>1, RowsKeep DEF Ready, Exists
  <1>3. \A t \in claim[z].seen : task'[t].agent = task[t].agent
    BY <1>1, RowsKeep
  <1>4. req[z].pc = "markWorking" => /\ task'[req[z].task].status # "absent"
                                     /\ task'[req[z].task].agent = task[req[z].task].agent
    BY <1>1, RowsKeep DEF Looks
  <1> QED BY <1>1, <1>2, <1>3, <1>4 DEF Looks, Exists

LEMMA HandlersLook ==
    ASSUME OInv, NEW s \in Session, Handles(s)
    PROVE  Looks(s)'
  <1>0. /\ BInv /\ Looks(s) /\ [Next]_vars /\ IInv
        /\ req[s] \in ReqOK /\ Ready(req[s], task)
        /\ req[s].todo \subseteq Task /\ TypeOK /\ LocksHold
    BY Facts, OthersWait DEF OInv, Shape, ReqOK
  <1>1. req'[s].pc \notin Polling => Looks(s)'
    BY DEF Looks, Polling
  <1>2. CASE Free = req'[s] \/ TaskUpdates(s) \/ Enqueues(s) \/ Fans(s) \/ Abandon(s)
    BY <1>0, <1>1, <1>2, Where, FreeFields DEF Polling, Reporting, Enqueuing
  <1>3. CASE AgentUpdates(s)
    <2>1. UNCHANGED claim
      BY <1>3, ClaimsLeft
    <2> QED BY <1>0, <1>1, <1>2, <1>3, <2>1, Where, LooksStay DEF Polling
  <1>4. ASSUME NEW u \in req[s].todo
        PROVE  task'[u].runtime = task[u].runtime /\ task'[u].agent = task[u].agent
    BY <1>0, <1>4, RowsKeep DEF Ready, Exists
  <1>5. CASE Polls(s)
    <2>1. ASSUME NEW rt \in Runtime, Poll(s, rt) PROVE Looks(s)'
      <3>1. UNCHANGED task
        BY <2>1 DEF Poll, vars
      <3> QED BY <1>0, <2>1, <3>1, PollMoves DEF Looks, Polling
    <2>2. CASE CheckCapacity(s)
      BY <1>0, <1>4, <2>2, PollMoves DEF Looks, Polling, KeptPoll
    <2>3. CASE BeginClaim(s)
      <3>1. \A t \in claim'[s].seen : task[t].agent = req[s].agent
        BY <1>0, <2>3 DEF BeginClaim, ClaimSnapshot, Claimable, NoClaim, TypeOK
      <3>2. UNCHANGED task
        BY <2>3 DEF BeginClaim, ClaimSnapshot
      <3> QED BY <1>0, <2>3, <3>1, <3>2, PollMoves DEF Looks, Polling, KeptPoll
    <2>4. CASE EndClaim(s)
      <3>1. CASE req'[s] = req[s] /\ UNCHANGED task
        <4>1. req[s].pc = "claiming" /\ claim'[s].seen = claim[s].seen
          <5>1. ~ClaimCommit(s)
            BY <1>0, <3>1, SetStatusEffect DEF ClaimCommit, LocksHold, TypeOK
          <5>2. req[s].pc = "claiming" /\ ~Goto(s, "noTask")
            BY <1>0, <2>4, <3>1, Moved DEF EndClaim, At
          <5>3. PICK t \in Task : ClaimLock(s, t)
            BY <2>4, <5>1, <5>2 DEF EndClaim
          <5> QED BY <1>0, <5>2, <5>3 DEF ClaimLock, TypeOK
        <4> QED BY <1>0, <3>1, <4>1 DEF Looks, Polling, Exists
      <3>2. CASE ClaimCommit(s) /\ req'[s].pc = "markWorking" /\ req'[s].task = claim[s].row
        <4>1. /\ claim[s].row \in Task /\ claim[s].row \in claim[s].seen
              /\ Exists(claim[s].row)
          BY <1>0, <3>2 DEF ClaimCommit, LocksHold, TypeOK, Exists
        <4>2. /\ task'[claim[s].row].status # "absent"
              /\ task'[claim[s].row].agent = task[claim[s].row].agent
          BY <1>0, <4>1, RowsKeep
        <4> QED BY <1>0, <1>4, <2>4, <3>2, <4>1, <4>2, PollMoves
                DEF Looks, Polling, KeptPoll, Exists
      <3>3. CASE req'[s].pc = "noTask"
        BY <1>0, <1>4, <2>4, <3>3, PollMoves DEF Looks, Polling, KeptPoll
      <3> QED BY <1>0, <2>4, <3>1, <3>2, <3>3, PollMoves
    <2>5. CASE MarkWorking(s) \/ NoTask(s)
      BY <1>0, <1>2, <1>4, <2>5, PollMoves DEF Looks, Polling, KeptPoll
    <2> QED BY <1>5, <2>1, <2>2, <2>3, <2>4, <2>5 DEF Polls
  <1> QED BY <1>2, <1>3, <1>5 DEF Handles

LEMMA OrphansKeep ==
    ASSUME OInv, NoneOf({"hangUp", "abandon"}), [ServiceNext]_serviceVars
    PROVE  OrphanedOnlyByMove'
  <1>0. BInv /\ IInv /\ TypeOK /\ [Next]_vars /\ "hangUp" \notin Inputs /\ "abandon" \notin Inputs
    BY Facts, QueueSteps DEF OInv, Shape, NoneOf
  <1> SUFFICES ASSUME NEW t \in Task, task'[t].status = "dispatched", ~delivered'[t],
                      \A z \in Session : ~(req'[z].pc = "markWorking" /\ req'[z].task = t)
               PROVE  \E u \in Task : /\ task'[u].agent = task'[t].agent
                                      /\ task'[u].runtime \in Runtime \ {task'[t].runtime}
    BY DEF OrphanedOnlyByMove, At
  <1>1. task[t].status = "dispatched"
    <2> SUFFICES ASSUME task[t].status # "dispatched" PROVE FALSE
      OBVIOUS
    <2>1. PICK z \in Session : EndClaim(z) /\ ClaimCommit(z) /\ claim[z].row = t
      BY <1>0, Dispatches
    <2>2. ~UNCHANGED task
      BY <1>0, <2>1 DEF vars
    <2> QED BY <1>0, <2>1, <2>2, PollMoves DEF ClaimCommit, EndClaim, Task
  <1>2. ~delivered[t]
    BY <1>0, DeliveredStays
  <1>3. \E u \in Task : /\ task[u].agent = task[t].agent
                        /\ task[u].runtime \in Runtime \ {task[t].runtime}
    <2>1. CASE \A z \in Session : ~(req[z].pc = "markWorking" /\ req[z].task = t)
      BY <1>1, <1>2, <2>1 DEF OInv, OrphanedOnlyByMove, At
    <2>2. CASE \E z \in Session : req[z].pc = "markWorking" /\ req[z].task = t
      <3>1. PICK z \in Session : req[z].pc = "markWorking" /\ req[z].task = t
        BY <2>2
      <3>2. PICK s \in Session : Handles(s)
        BY <1>0, <3>1, BesideIsCareful DEF ServiceNext, Handles, serviceVars
      <3>3. s = z /\ req'[z] # req[z]
        BY <1>0, <3>1, <3>2, OthersWait
      <3>4. MarkWorking(z)
        <4>1. ~Abandon(z)
          BY <1>0 DEF Abandon
        <4>2. Polls(z)
          BY <1>0, <3>1, <3>2, <3>3, <4>1, Where DEF Handles, Reporting, Enqueuing
        <4> QED BY <1>0, <3>1, <4>2 DEF Polls, Poll, CheckCapacity, BeginClaim, EndClaim,
                  NoTask, Receive, At
      <3>5. task[t].runtime # req[z].runtime
        <4>1. delivered \in [Task -> BOOLEAN]
          BY <1>0, Facts, ServiceTypes
        <4> QED BY <3>1, <3>4, <4>1 DEF MarkWorking, SameRuntime
      <3>6. PICK u \in req[z].todo : task[u].agent = req[z].agent
        BY <3>1 DEF OInv, Looks, Polling
      <3>7. u \in Task
        BY <1>0, Facts DEF ReqOK
      <3>8. /\ task[u].runtime = req[z].runtime /\ req[z].runtime \in Runtime
            /\ task[t].agent = req[z].agent
        BY <3>1 DEF OInv, Looks, Polling
      <3> QED BY <3>5, <3>6, <3>7, <3>8
    <2> QED BY <2>1, <2>2
  <1>4. PICK u \in Task : /\ task[u].agent = task[t].agent
                          /\ task[u].runtime \in Runtime \ {task[t].runtime}
    BY <1>3
  <1>5. Exists(u) /\ Exists(t)
    BY <1>0, <1>1, <1>4, RowTypes, TaskQueueAssumption DEF NoRow, Exists
  <1> QED BY <1>0, <1>4, <1>5, RowsKeep

LEMMA OrphansNext ==
    NoneOf({"hangUp", "abandon"}) => (OInv /\ [ServiceNext]_serviceVars => OInv')
  <1> SUFFICES ASSUME NoneOf({"hangUp", "abandon"}), OInv, [ServiceNext]_serviceVars
               PROVE  OInv'
    OBVIOUS
  <1>1. BInv /\ [Next]_vars
    BY Facts, QueueSteps DEF OInv, Shape
  <1>2. \A z \in Session : Looks(z)'
    <2>1. CASE UNCHANGED <<req, claim>>
      BY <1>1, <2>1, LooksStay
    <2>2. ASSUME NEW s \in Session, Handles(s), NEW z \in Session PROVE Looks(z)'
      BY <1>1, <2>2, HandlersLook, LooksStay, OthersWait, OthersClaims
    <2>3. Runtimes \/ Sweeps => UNCHANGED <<req, claim>>
      BY <1>1, BesideIsCareful, ClaimsLeft
    <2> QED BY <2>1, <2>2, <2>3 DEF ServiceNext, Handles, serviceVars
  <1> QED BY <1>2, OrphansKeep, ShapeNext DEF OInv

LEMMA OrphansInit == ServiceInit => OInv
  <1> SUFFICES ASSUME ServiceInit PROVE OInv
    OBVIOUS
  <1>1. \A s \in Session : Looks(s)
    BY FreeFields DEF ServiceInit, Looks, Polling
  <1>2. OrphanedOnlyByMove
    BY DEF ServiceInit, Init, NoRow, OrphanedOnlyByMove
  <1> QED BY <1>1, <1>2, ShapeInit DEF OInv

\* A claimed task reaches the daemon of its runtime, unless its agent was moved with
\* tasks queued, however many polls overlap, as long as none is cut off half way.
THEOREM ClaimsAreDelivered ==
    NoneOf({"hangUp", "abandon"}) => (ServiceSpec => []OrphanedOnlyByMove)
  <1> SUFFICES ASSUME NoneOf({"hangUp", "abandon"}) PROVE ServiceSpec => []OrphanedOnlyByMove
    OBVIOUS
  <1>1. OInv /\ [ServiceNext]_serviceVars => OInv'
    BY OrphansNext
  <1>2. OInv => OrphanedOnlyByMove
    BY DEF OInv
  <1> QED BY <1>1, <1>2, OrphansInit, PTL DEF ServiceSpec

-----------------------------------------------------------------------------
(* Only the two inserts make rows.                                         *)

NoneNew == \A t \in Task : ~Exists(t) => task'[t] = task[t]

LEMMA UpdatesAddNone ==
    ASSUME NEW S \in SUBSET Task, NEW status, SetStatus(S, status), \A t \in S : Exists(t)
    PROVE  NoneNew
  BY DEF SetStatus, NoneNew

LEMMA BesideAddsNone ==
    ASSUME BInv, Runtimes \/ Sweeps
    PROVE  NoneNew
  <1>1. CASE UNCHANGED task
    BY <1>1 DEF NoneNew
  <1>2. ASSUME NEW S \in SUBSET Task, SweepStaleTasks(S) PROVE NoneNew
    BY <1>2, UpdatesAddNone DEF SweepStaleTasks, FailStaleTasks, Exists, Active
  <1>3. CASE SweepOrphans
    BY <1>3, UpdatesAddNone DEF SweepOrphans, FailTasksForOfflineRuntimes, OrphansOf, Exists,
       Active
  <1> QED BY <1>1, <1>2, <1>3 DEF Runtimes, Heartbeat, Lapse, DaemonDeregister, Sweeps,
       MarkStaleRuntimesOffline, SweepCount, SweepSetStatus, vars

LEMMA HandlersAddNone ==
    ASSUME BInv, NEW s \in Session,
           Polls(s) \/ TaskUpdates(s) \/ AgentUpdates(s) \/ Abandon(s) \/ CancelTasksForIssue(s)
    PROVE  NoneNew
  <1>1. CASE UNCHANGED task
    BY <1>1 DEF NoneNew
  <1>2. CASE ClaimCommit(s)
    BY <1>2, UpdatesAddNone, Facts DEF ClaimCommit, LocksHold, Exists, TypeOK
  <1>3. CASE Polls(s)
    BY <1>1, <1>2, <1>3 DEF Polls, Poll, CheckCapacity, BeginClaim, EndClaim, MarkWorking,
       NoTask, vars, ClaimSnapshot, ClaimLock, ClaimNothing
  <1>4. ASSUME NEW t \in Task,
               StartTask(s, t) \/ CompleteTask(s, t) \/ FailTask(s, t) \/ CancelTask(s, t)
        PROVE  NoneNew
    <2>1. Exists(t) /\ \E status : SetStatus({t}, status)
      BY <1>4 DEF StartTask, CompleteTask, FailTask, CancelTask, StartAgentTask,
         CompleteAgentTask, FailAgentTask, CancelAgentTask, CancelTasks, Exists, Live, Active
    <2> QED BY <2>1, UpdatesAddNone
  <1>5. CASE TaskUpdates(s)
    BY <1>1, <1>4, <1>5 DEF TaskUpdates, GetIssue, SetStage, CountTasks, ReconcileStatus, vars
  <1>6. CASE CancelTasksForAgent(s)
    BY <1>6, UpdatesAddNone DEF CancelTasksForAgent, CancelAgentTasksByAgent, CancelTasks,
       Exists, Live
  <1>7. CASE CancelTasksForIssue(s)
    BY <1>7, UpdatesAddNone DEF CancelTasksForIssue, CancelAgentTasksByIssue, CancelTasks,
       Exists, Live, TasksOf
  <1>8. CASE AgentUpdates(s) \/ Abandon(s)
    BY <1>1, <1>6, <1>8 DEF AgentUpdates, MoveAgent, ArchiveAgent, RestoreAgent, Abandon,
       ClaimAbort, vars
  <1> QED BY <1>3, <1>5, <1>7, <1>8

LEMMA EnqueuesRows ==
    ASSUME BInv, NEW s \in Session, Enqueues(s) \/ Fans(s)
    PROVE  UNCHANGED task \/ CancelTasksForIssue(s) \/ InsertTask(s) \/ InsertChild(s)
  BY DEF Enqueues, AssignIssue, Comment, Mention, EditIssue, ConfirmPlan, UpdateIssue,
     NextMention, CheckPending, CheckActive, LatestPlan, GetAgent, WriteQueueStage, Fans,
     FanOutTask, vars

LEMMA NewRows ==
    ASSUME BInv, [ServiceNext]_serviceVars, NEW t \in Task, ~Exists(t), task'[t] # task[t]
    PROVE  \E s \in Session :
             \/ /\ InsertTask(s)
                /\ task'[t].agent = req[s].agent /\ task'[t].issue = req[s].issue
                /\ task'[t].parent = 0
             \/ /\ InsertChild(s)
                /\ task'[t].parent # 0 /\ ~agent[task'[t].agent].archived
  <1>1. ~NoneNew /\ ~UNCHANGED task
    BY DEF NoneNew
  <1>2. PICK s \in Session : Enqueues(s) \/ Fans(s)
    BY <1>1, BesideAddsNone, HandlersAddNone DEF ServiceNext, serviceVars
  <1>3. TypeOK /\ Ready(req[s], task)
    BY Facts
  <1>4. ASSUME NEW n \in Task, NEW a, NEW i, NEW rt, NEW m, NEW p, NEW parent,
               CreateAgentTask(n, a, i, rt, m, p, parent)
        PROVE  task'[t].agent = a /\ task'[t].issue = i /\ task'[t].parent = parent
    <2>1. task' = [task EXCEPT ![n] =
                  [status |-> "queued", agent |-> a, issue |-> i, runtime |-> rt,
                   mode |-> m, priority |-> p, parent |-> parent]]
      BY <1>4 DEF CreateAgentTask
    <2>2. n = t
      BY <1>3, <2>1 DEF TypeOK
    <2> QED BY <1>3, <2>1, <2>2 DEF TypeOK
  <1>5. CASE InsertTask(s)
    BY <1>1, <1>4, <1>5 DEF InsertTask, vars
  <1>6. CASE InsertChild(s)
    <2> DEFINE a == req[s].specs[req[s].k].agent
    <2>1. ~agent[a].archived /\ task'[t].agent = a /\ task'[t].parent = req[s].task
      BY <1>1, <1>4, <1>6 DEF InsertChild, MayEnqueue, vars
    <2>2. req[s].task # 0
      BY <1>3, <1>6 DEF InsertChild, At, Ready, Task
    <2> QED BY <1>6, <2>1, <2>2
  <1> QED BY <1>1, <1>2, <1>5, <1>6, EnqueuesRows, HandlersAddNone

-----------------------------------------------------------------------------
(* The build is queued only when the active run of the issue is over.      *)

Confirms(r) == r.op = "confirm" /\ r.pc \in {"latestPlan", "getAgent", "queueStage", "insert"}

\* No live task belongs to issue i.
Idle(i, tasks) == \A t \in Task : tasks[t].issue = i => tasks[t].status \notin Live

CInv ==
    /\ Shape
    /\ \A s \in Session : Confirms(req[s]) => Idle(req[s].issue, task)

\* No row is revived: an issue that has no live task gets one only by an insert.
LEMMA NoRevival ==
    ASSUME BInv, [Next]_vars, NoneNew, NEW i, Idle(i, task)
    PROVE  Idle(i, task')
  <1> SUFFICES ASSUME NEW t \in Task, task'[t].issue = i, task'[t].status \in Live
               PROVE  FALSE
    BY DEF Idle
  <1>1. Exists(t)
    BY Facts, RowTypes DEF NoneNew, NoRow, Live
  <1> QED BY <1>1, Facts, RowsKeep DEF Idle

LEMMA ConfirmsKeep ==
    ASSUME CInv, NEW s \in Session, Handles(s), Confirms(req'[s])
    PROVE  Idle(req'[s].issue, task')
  <1>0. BInv
    BY DEF CInv, Shape
  <1>1. /\ req'[s].op = "confirm" /\ req'[s].pc \in {"latestPlan", "getAgent", "queueStage", "insert"}
        /\ req'[s] # Free
    BY FreeFields DEF Confirms
  <1>2. Enqueues(s) /\ ~Arriving(s)
    <2>1. ~Fans(s)
      <3>1. Ready(req[s], task)
        BY <1>0, Facts
      <3> QED BY <1>0, <1>1, <3>1, OtherMoves DEF Fans, Ready, Kept
    <2>2. ~Polls(s) /\ ~TaskUpdates(s) /\ ~AgentUpdates(s) /\ ~Abandon(s)
      BY <1>0, <1>1, Where DEF Polling, Reporting
    <2>3. ~Arriving(s)
      BY <1>0, <1>1, Arrived
    <2> QED BY <2>1, <2>2, <2>3 DEF Handles
  <1>3. /\ req[s].pc \in {"checkActive", "latestPlan", "getAgent", "queueStage"}
        /\ req[s].pc # "checkActive" => Confirms(req[s])
        /\ req[s].pc = "checkActive" => ~HasActiveTaskForIssue(req[s].issue)
        /\ req'[s].issue = req[s].issue
    <2>1. Shaped(req[s])
      BY DEF CInv, Shape
    <2> QED BY <1>0, <1>1, <1>2, <2>1, EnqueueMoves
            DEF Enqueues, Arriving, AfterMoves, Kept, Confirms, Shaped
  <1>4. Idle(req[s].issue, task)
    BY <1>3 DEF CInv, HasActiveTaskForIssue, TasksOf, Idle
  <1>5. UNCHANGED task
    BY <1>0, <1>2, <1>3, EnqueuesRows DEF CancelTasksForIssue, InsertTask, InsertChild, At
  <1> QED BY <1>3, <1>4, <1>5

LEMMA ConfirmsNext ==
    One => (CInv /\ [ServiceNext]_serviceVars => CInv')
  <1> SUFFICES ASSUME One, CInv, [ServiceNext]_serviceVars PROVE CInv'
    OBVIOUS
  <1>0. BInv /\ [Next]_vars
    BY Facts, QueueSteps DEF CInv, Shape
  <1> SUFFICES ASSUME NEW s \in Session, Confirms(req'[s]) PROVE Idle(req'[s].issue, task')
    BY ShapeNext DEF CInv
  <1>1. CASE Handles(s)
    BY <1>1, ConfirmsKeep
  <1>2. CASE ~Handles(s)
    <2>1. UNCHANGED req /\ NoneNew
      <3>1. CASE UNCHANGED serviceVars
        BY <3>1 DEF serviceVars, NoneNew
      <3>2. CASE Runtimes \/ Sweeps
        BY <1>0, <3>2, BesideIsCareful, BesideAddsNone
      <3> QED BY <1>2, <3>1, <3>2 DEF One, ServiceNext, Handles
    <2> QED BY <1>0, <2>1, NoRevival DEF CInv
  <1> QED BY <1>1, <1>2

LEMMA ConfirmsInit == ServiceInit => CInv
  <1> SUFFICES ASSUME ServiceInit PROVE CInv
    OBVIOUS
  <1>1. \A s \in Session : ~Confirms(req[s])
    BY FreeFields DEF ServiceInit, Confirms
  <1> QED BY <1>1, ShapeInit DEF CInv

LEMMA ConfirmsWait ==
    CInv => [\A t \in Task, s \in Session :
               /\ ~Exists(t) /\ task'[t].status = "queued"
               /\ At(s, "insert") /\ req[s].op = "confirm" /\ req'[s] = Free
               => ~HasActiveTaskForIssue(req[s].issue)]_serviceVars
  BY DEF CInv, Confirms, At, Idle, HasActiveTaskForIssue, TasksOf

\* Where requests are served one after another, a build is queued only after the
\* active run of the issue has finished: what ConfirmPlan read is still so.
THEOREM ConfirmsWaitForRuns ==
    One => (ServiceSpec => ConfirmWaitsForActiveRun)
  <1> SUFFICES ASSUME One PROVE ServiceSpec => ConfirmWaitsForActiveRun
    OBVIOUS
  <1>1. CInv /\ [ServiceNext]_serviceVars => CInv'
    BY ConfirmsNext
  <1> QED BY <1>1, ConfirmsInit, ConfirmsWait, PTL DEF ServiceSpec, ConfirmWaitsForActiveRun

-----------------------------------------------------------------------------
(* What ends a task.                                                       *)

LEMMA InsertsEndNone ==
    ASSUME TypeOK, NEW t \in Task, Exists(t), NEW n \in Task, NEW a, NEW i, NEW rt, NEW m,
           NEW p, NEW parent, CreateAgentTask(n, a, i, rt, m, p, parent)
    PROVE  task'[t] = task[t]
  BY DEF CreateAgentTask, IsNextId, TypeOK

LEMMA OnlyOne ==
    ASSUME TypeOK, NEW t \in Task, NEW u \in Task, NEW status, SetStatus({u}, status),
           task'[t] # task[t]
    PROVE  u = t /\ task'[t].status = status
  BY SetStatusEffect

LEMMA EndedBy ==
    ASSUME BInv, [ServiceNext]_serviceVars, NEW t \in Task,
           task[t].status \in Live, task'[t].status \notin Live
    PROVE  \/ Sweeps
           \/ \E s \in Session :
                 \/ CompleteTask(s, t) \/ FailTask(s, t) \/ CancelTask(s, t)
                 \/ CancelTasksForIssue(s) \/ CancelTasksForAgent(s)
  <1>1. /\ TypeOK /\ LocksHold /\ Exists(t) /\ task'[t] # task[t] /\ ~UNCHANGED task
        /\ \A s \in Session : Ready(req[s], task)
    BY Facts DEF Exists, Live
  <1>2. ASSUME NEW s \in Session, Polls(s) PROVE FALSE
    <2>1. ClaimCommit(s)
      BY <1>1, <1>2 DEF Polls, Poll, CheckCapacity, BeginClaim, EndClaim, MarkWorking, NoTask,
         ClaimSnapshot, ClaimLock, ClaimNothing, vars
    <2>2. claim[s].row \in Task
      BY <1>1, <2>1 DEF ClaimCommit, TypeOK
    <2> QED BY <1>1, <2>1, <2>2, OnlyOne DEF ClaimCommit, Live
  <1>3. ASSUME NEW s \in Session, TaskUpdates(s)
        PROVE  CompleteTask(s, t) \/ FailTask(s, t) \/ CancelTask(s, t)
    <2>1. PICK u \in Task :
            StartTask(s, u) \/ CompleteTask(s, u) \/ FailTask(s, u) \/ CancelTask(s, u)
      BY <1>1, <1>3 DEF TaskUpdates, GetIssue, SetStage, CountTasks, ReconcileStatus, vars
    <2>2. ~StartTask(s, u)
      BY <1>1, OnlyOne DEF StartTask, StartAgentTask, Live
    <2>3. \E status : SetStatus({u}, status)
      BY <2>1, <2>2 DEF CompleteTask, FailTask, CancelTask, CompleteAgentTask, FailAgentTask,
         CancelAgentTask, CancelTasks
    <2>4. u = t
      BY <1>1, <2>3, OnlyOne
    <2> QED BY <2>1, <2>2, <2>4
  <1>4. ASSUME NEW s \in Session, Enqueues(s) \/ Fans(s) PROVE CancelTasksForIssue(s)
    <2>1. ~InsertTask(s)
      BY <1>1, InsertsEndNone DEF InsertTask, vars
    <2>2. ~InsertChild(s)
      <3> SUFFICES ASSUME InsertChild(s) PROVE FALSE
        OBVIOUS
      <3>1. UNCHANGED task \/ \E n \in Task, p \in Priority :
                     CreateAgentTask(n, req[s].specs[req[s].k].agent, req[s].issue,
                                     agent[req[s].specs[req[s].k].agent].runtime,
                                     req[s].specs[req[s].k].mode, p, req[s].task)
        BY DEF InsertChild, vars
      <3> QED BY <1>1, <3>1, InsertsEndNone
    <2> QED BY <1>1, <1>4, <2>1, <2>2, EnqueuesRows
  <1>5. ASSUME NEW s \in Session, AgentUpdates(s) \/ Abandon(s) PROVE CancelTasksForAgent(s)
    BY <1>1, <1>5 DEF AgentUpdates, MoveAgent, ArchiveAgent, RestoreAgent, Abandon, ClaimAbort,
       vars
  <1>6. ~Runtimes
    BY <1>1 DEF Runtimes, Heartbeat, Lapse, DaemonDeregister, vars
  <1> QED BY <1>1, <1>2, <1>3, <1>4, <1>5, <1>6 DEF ServiceNext, serviceVars, vars

-----------------------------------------------------------------------------
(* No issue is left in a stage that says somebody works on it.             *)

Worked == {"planning", "building"}

Lively(i) == \E t \in Task : task[t].issue = i /\ task[t].status \in Live

\* A handler that will queue a task of issue i, or write the stage of a task it ended.
Promises(r, i, tasks) ==
    \/ r.pc = "insert" /\ r.issue = i
    \/ /\ r.pc \in Reporting /\ tasks[r.task].issue = i
       /\ \/ r.op = "complete" /\ r.pc \in {"getIssue", "setStage"}
          \/ r.op = "fail"

StartIsOn(r, tasks) ==
    r.op = "start" /\ r.pc \in Reporting => tasks[r.task].status = "running"

GInv ==
    /\ Shape
    /\ \A i \in Issue : issue[i].stage \in Worked =>
          Lively(i) \/ \E s \in Session : Promises(req[s], i, task)
    /\ \A s \in Session : StartIsOn(req[s], task)

Undisturbed ==
    NoneOf({"cancel", "assign", "archive", "fanOut", "runtime", "timeout", "abandon"})

LEMMA UndisturbedRequests ==
    ASSUME Shape, Undisturbed
    PROVE  /\ \A s \in Session :
                /\ req[s].op \notin {"assign", "cancel", "fanOut", "archive"}
                /\ req[s].pc \notin {"cancelIssue", "cancelAgent", "fanInsert"}
                /\ \A t \in Task : ~CancelTask(s, t)
                /\ Abandon(s) => req[s].pc \in Polling
           /\ ~Runtimes /\ ~Sweeps
  <1>1. /\ NoneOf({"timeout", "runtime"})
        /\ \A k \in {"cancel", "assign", "archive", "fanOut", "abandon"} : k \notin Inputs
    BY DEF Undisturbed, NoneOf
  <1>2. ASSUME NEW s \in Session
        PROVE  /\ req[s].op \notin {"assign", "cancel", "fanOut", "archive"}
               /\ req[s].pc \notin {"cancelIssue", "cancelAgent", "fanInsert"}
               /\ \A t \in Task : ~CancelTask(s, t)
               /\ Abandon(s) => req[s].pc \in Polling
    <2>1. BInv /\ Shaped(req[s]) /\ Ready(req[s], task)
      BY Facts DEF Shape
    <2> QED BY <1>1, <2>1 DEF Shaped, Ready, CancelTask, Receive, Abandon
  <1> QED BY <1>1, <1>2, QuietNights

LEMMA EndedByReport ==
    ASSUME Shape, Undisturbed, [ServiceNext]_serviceVars, NEW t \in Task,
           task[t].status \in Live, task'[t].status \notin Live
    PROVE  \E s \in Session : CompleteTask(s, t) \/ FailTask(s, t)
  BY EndedBy, UndisturbedRequests DEF Shape, CancelTasksForIssue, CancelTasksForAgent, At

LEMMA StartsStayOn ==
    ASSUME GInv, Undisturbed, [ServiceNext]_serviceVars, NEW z \in Session
    PROVE  StartIsOn(req'[z], task')
  <1>0. BInv /\ Shape /\ Warranted(req[z], task) /\ TypeOK /\ IInv /\ [Next]_vars
    BY Facts, QueueSteps DEF GInv, Shape
  <1> SUFFICES ASSUME req'[z].op = "start", req'[z].pc \in Reporting
               PROVE  task'[req'[z].task].status = "running"
    BY DEF StartIsOn
  <1>1. CASE /\ req[z].op = "start" /\ req[z].pc \in Reporting
             /\ req'[z].task = req[z].task
    <2> DEFINE t == req[z].task
    <2>1. t \in Task /\ task[t].status = "running"
      BY <1>0, <1>1 DEF Warranted, GInv, StartIsOn
    <2>2. task'[t].status \in Live
      <3> SUFFICES ASSUME task'[t].status \notin Live PROVE FALSE
        OBVIOUS
      <3>1. PICK s \in Session : CompleteTask(s, t) \/ FailTask(s, t)
        BY <1>0, <2>1, EndedByReport DEF Live
      <3> QED BY <1>1, <3>1 DEF CompleteTask, FailTask, DaemonReports, Reports
    <2>3. task'[t].status \notin {"queued", "dispatched"}
      BY <1>0, <2>1, RowsKeep DEF Exists, Pending
    <2> QED BY <1>1, <2>2, <2>3 DEF Live
  <1>2. CASE req'[z] = req[z]
    BY <1>1, <1>2
  <1>3. CASE req'[z] # req[z]
    <2>1. Handles(z)
      BY <1>0, <1>3, OthersWait, UndisturbedRequests DEF ServiceNext, Handles, serviceVars
    <2>2. TaskUpdates(z)
      BY <1>0, <1>3, <2>1, Where, FreeFields DEF Handles, Polling, Reporting, Enqueuing
    <2>3. ASSUME NEW t \in Task, StartTask(z, t) PROVE req'[z].task = t /\ task'[t].status = "running"
      BY <1>0, <2>3, HandleMoves, SetStatusEffect DEF StartTask, StartAgentTask
    <2>4. ASSUME NEW t \in Task, CompleteTask(z, t) \/ FailTask(z, t) PROVE FALSE
      BY <1>0, <2>4, HandleMoves DEF CompleteTask, FailTask
    <2>5. CASE GetIssue(z) \/ SetStage(z) \/ CountTasks(z) \/ ReconcileStatus(z)
      BY <1>0, <1>1, <2>5, UpdateMoves, FreeFields DEF Kept, Reporting
    <2> QED BY <1>0, <2>2, <2>3, <2>4, <2>5, UndisturbedRequests DEF TaskUpdates
  <1> QED BY <1>2, <1>3

\* Only these statements write the table of issues.
LEMMA IssuesWritten ==
    ASSUME [ServiceNext]_serviceVars, ~UNCHANGED issue
    PROVE  \E s \in Session : SetStage(s) \/ WriteQueueStage(s) \/ UpdateIssue(s)
  <1>1. ASSUME NEW s \in Session, Polls(s) PROVE FALSE
    BY <1>1 DEF Polls, Poll, CheckCapacity, BeginClaim, EndClaim, MarkWorking, NoTask, rows
  <1>2. ASSUME NEW s \in Session, TaskUpdates(s) PROVE SetStage(s)
    BY <1>2 DEF TaskUpdates, StartTask, CompleteTask, FailTask, CancelTask, Handle,
       GetIssue, CountTasks, ReconcileStatus, rows
  <1>3. ASSUME NEW s \in Session, Enqueues(s) PROVE UpdateIssue(s) \/ WriteQueueStage(s)
    BY <1>3 DEF Enqueues, AssignIssue, Comment, Mention, EditIssue, ConfirmPlan,
       CancelTasksForIssue, NextMention, CheckPending, CheckActive, LatestPlan, GetAgent,
       InsertTask, rows
  <1>4. ASSUME NEW s \in Session, Fans(s) \/ AgentUpdates(s) \/ Abandon(s) PROVE FALSE
    BY <1>4 DEF Fans, FanOutTask, InsertChild, AgentUpdates, MoveAgent, ArchiveAgent,
       RestoreAgent, CancelTasksForAgent, Abandon, rows
  <1>5. ~Runtimes /\ ~Sweeps
    BY DEF Runtimes, Heartbeat, Lapse, DaemonDeregister, Sweeps,
       MarkStaleRuntimesOffline, SweepOrphans, SweepStaleTasks, SweepCount, SweepSetStatus, rows
  <1> QED BY <1>1, <1>2, <1>3, <1>4, <1>5 DEF ServiceNext, serviceVars

\* The stages that are written: by a report, or on the way to an insert.
LEMMA StagesWritten ==
    ASSUME BInv, [ServiceNext]_serviceVars, NEW i \in Issue, issue'[i].stage # issue[i].stage
    PROVE  \E s \in Session :
             \/ /\ SetStage(s) /\ task[req[s].task].issue = i
                /\ issue'[i].stage = StageAfter(req[s].op, req[s].task)
             \/ WriteQueueStage(s) /\ req[s].issue = i
  <1>1. issue \in IssueTable
    BY Facts
  <1>2. ~UNCHANGED issue
    OBVIOUS
  <1>3. PICK s \in Session : SetStage(s) \/ WriteQueueStage(s) \/ UpdateIssue(s)
    BY <1>2, IssuesWritten
  <1>4. ~UpdateIssue(s)
    BY <1>1 DEF UpdateIssue, IssueTable
  <1>5. CASE SetStage(s)
    <2>1. issue' = [issue EXCEPT ![task[req[s].task].issue].stage =
                                    StageAfter(req[s].op, req[s].task)]
      BY <1>5 DEF SetStage
    <2> QED BY <1>1, <1>5, <2>1 DEF IssueTable
  <1>6. CASE WriteQueueStage(s)
    <2>1. issue' = [issue EXCEPT ![req[s].issue].stage = QueueStage(req[s].mode)]
      BY <1>6 DEF WriteQueueStage
    <2> QED BY <1>1, <1>6, <2>1 DEF IssueTable
  <1> QED BY <1>3, <1>4, <1>5, <1>6

LEMMA StartedIsLively ==
    ASSUME GInv, Undisturbed, [ServiceNext]_serviceVars, NEW i \in Issue,
           issue'[i].stage \in Worked, issue'[i].stage # issue[i].stage
    PROVE  Lively(i)' \/ \E s \in Session : Promises(req'[s], i, task')
  <1>0. BInv /\ Shape
    BY DEF GInv, Shape
  <1>1. PICK s \in Session :
             \/ /\ SetStage(s) /\ task[req[s].task].issue = i
                /\ issue'[i].stage = StageAfter(req[s].op, req[s].task)
             \/ WriteQueueStage(s) /\ req[s].issue = i
    BY <1>0, StagesWritten
  <1>2. Shaped(req[s]) /\ Warranted(req[s], task)
    BY <1>0, Facts DEF Shape
  <1>3. CASE /\ SetStage(s) /\ task[req[s].task].issue = i
             /\ issue'[i].stage = StageAfter(req[s].op, req[s].task)
    <2>1. req[s].pc \in Reporting /\ UNCHANGED task
      BY <1>3 DEF SetStage, At, Reporting, vars
    <2>2. req[s].op = "start"
      BY <1>0, <1>2, <1>3, <2>1, UndisturbedRequests
         DEF Shaped, StageAfter, CompletedStage, FailedStage, Worked
    <2>3. req[s].task \in Task /\ task[req[s].task].status = "running"
      BY <1>2, <2>1, <2>2 DEF GInv, StartIsOn, Warranted
    <2> QED BY <1>3, <2>1, <2>3 DEF Lively, Live
  <1>4. CASE WriteQueueStage(s) /\ req[s].issue = i
    <2>1. req[s].op # "fanOut"
      BY <1>0, UndisturbedRequests
    <2> QED BY <1>0, <1>4, <2>1, EnqueueMoves DEF Promises, Kept
  <1> QED BY <1>1, <1>3, <1>4

\* A handler keeps its promise, or goes on with it, or the stage says no longer that
\* somebody works.
LEMMA PromiseKept ==
    ASSUME GInv, Undisturbed, [ServiceNext]_serviceVars, NEW i \in Issue,
           issue'[i].stage \in Worked, issue'[i].stage = issue[i].stage,
           NEW s \in Session, Promises(req[s], i, task)
    PROVE  Lively(i)' \/ Promises(req'[s], i, task')
  <1>0. /\ BInv /\ Shape /\ TypeOK /\ IInv /\ [Next]_vars
        /\ Shaped(req[s]) /\ Warranted(req[s], task)
    BY Facts, QueueSteps DEF GInv, Shape
  <1>1. CASE req'[s] = req[s]
    BY <1>0, <1>1, RowsKeep DEF Promises, Warranted, Exists
  <1>2. CASE req'[s] # req[s]
    <2>1. Handles(s)
      BY <1>0, <1>2, OthersWait, UndisturbedRequests DEF ServiceNext, Handles, serviceVars
    <2>2. CASE req[s].pc = "insert"
      <3>1. InsertTask(s)
        <4>1. Enqueues(s)
          BY <1>0, <2>1, <2>2, Where, UndisturbedRequests DEF Handles, Polling, Reporting
        <4> QED BY <1>0, <2>2, <4>1, Arrived, EnqueueMoves DEF Enqueues, Arriving
      <3>2. req[s].issue = i
        BY <2>2 DEF Promises, Reporting
      <3>3. CASE UNCHANGED task
        <4>1. PendingRoots(i) # {}
          <5>1. ~\E t \in Task, p \in Priority :
                   CreateAgentTask(t, req[s].agent, req[s].issue, req[s].runtime,
                            req[s].mode, p, 0)
            BY <1>0, <3>3 DEF CreateAgentTask, IsNextId, Exists, TypeOK
          <5> QED BY <3>1, <3>2, <5>1 DEF InsertTask, IndexAllows
        <4> QED BY <3>3, <4>1 DEF PendingRoots, TasksOf, Pending, Lively, Live
      <3>4. CASE ~UNCHANGED task
        <4>1. PICK t \in Task, p \in Priority :
                   CreateAgentTask(t, req[s].agent, req[s].issue, req[s].runtime,
                            req[s].mode, p, 0)
          BY <3>1, <3>4 DEF InsertTask, vars
        <4>2. task'[t].issue = i /\ task'[t].status = "queued"
          BY <1>0, <3>2, <4>1 DEF CreateAgentTask, TypeOK
        <4> QED BY <4>2 DEF Lively, Live
      <3> QED BY <3>3, <3>4
    <2>3. CASE /\ req[s].pc \in Reporting /\ task[req[s].task].issue = i
               /\ req[s].op \in {"complete", "fail"}
               /\ req[s].op = "complete" => req[s].pc \in {"getIssue", "setStage"}
      <3>1. GetIssue(s) \/ SetStage(s) \/ CountTasks(s) \/ ReconcileStatus(s)
        <4>1. TaskUpdates(s)
          BY <1>0, <2>1, <2>3, Where, UndisturbedRequests DEF Handles, Polling, Reporting, Enqueuing
        <4> QED BY <2>3, <4>1 DEF TaskUpdates, StartTask, CompleteTask, FailTask, CancelTask,
                  Receive, At, Reporting
      <3>2. UNCHANGED task
        BY <3>1 DEF GetIssue, SetStage, CountTasks, ReconcileStatus, vars
      <3>3. StageAfter(req[s].op, req[s].task) \notin Worked
        BY <2>3 DEF StageAfter, CompletedStage, FailedStage, Worked
      <3>4. CASE GetIssue(s)
        <4>1. UNCHANGED issue
          BY <3>4 DEF GetIssue, rows
        <4> QED BY <1>0, <2>3, <3>2, <3>3, <3>4, <4>1, UpdateMoves DEF Promises, Kept, Reporting
      <3>5. CASE SetStage(s)
        <4>1. issue' = [issue EXCEPT ![task[req[s].task].issue].stage =
                                    StageAfter(req[s].op, req[s].task)]
          BY <3>5 DEF SetStage
        <4>2. issue'[i].stage = StageAfter(req[s].op, req[s].task)
          BY <1>0, <2>3, <4>1, Facts DEF IssueTable
        <4> QED BY <3>3, <4>2
      <3>6. CASE CountTasks(s) \/ ReconcileStatus(s)
        <4>1. req[s].op = "fail"
          BY <2>3, <3>6 DEF CountTasks, ReconcileStatus, At
        <4> QED BY <1>0, <2>3, <3>2, <3>6, <4>1, UpdateMoves DEF Promises, Kept, Reporting
      <3> QED BY <3>1, <3>4, <3>5, <3>6
    <2> QED BY <2>2, <2>3 DEF Promises
  <1> QED BY <1>1, <1>2

LEMMA StaysLively ==
    ASSUME GInv, Undisturbed, [ServiceNext]_serviceVars, NEW i \in Issue, Lively(i)
    PROVE  Lively(i)' \/ \E s \in Session : Promises(req'[s], i, task')
  <1>0. /\ BInv /\ Shape /\ TypeOK /\ IInv /\ [Next]_vars
    BY Facts, QueueSteps DEF GInv, Shape
  <1>1. PICK t \in Task : task[t].issue = i /\ task[t].status \in Live
    BY DEF Lively
  <1>2. task'[t].issue = i
    BY <1>0, <1>1, RowsKeep DEF Exists, Live
  <1>3. CASE task'[t].status \in Live
    BY <1>2, <1>3 DEF Lively
  <1>4. CASE task'[t].status \notin Live
    <2>1. PICK s \in Session : CompleteTask(s, t) \/ FailTask(s, t)
      BY <1>0, <1>1, <1>4, EndedByReport
    <2>2. /\ req'[s].task = t
          /\ \/ req'[s].op = "complete" /\ req'[s].pc = "getIssue"
             \/ req'[s].op = "fail" /\ req'[s].pc = "count"
      BY <1>0, <2>1, HandleMoves DEF CompleteTask, FailTask
    <2> QED BY <1>2, <2>2 DEF Promises, Reporting
  <1> QED BY <1>3, <1>4

LEMMA StagesNext ==
    Undisturbed => (GInv /\ [ServiceNext]_serviceVars => GInv')
  <1> SUFFICES ASSUME Undisturbed, GInv, [ServiceNext]_serviceVars PROVE GInv'
    OBVIOUS
  <1>1. Shape'
    BY ShapeNext DEF GInv
  <1>2. \A s \in Session : StartIsOn(req'[s], task')
    BY StartsStayOn
  <1>3. ASSUME NEW i \in Issue, issue'[i].stage \in Worked
        PROVE  Lively(i)' \/ \E s \in Session : Promises(req'[s], i, task')
    <2>1. CASE issue'[i].stage # issue[i].stage
      BY <1>3, <2>1, StartedIsLively
    <2>2. CASE issue'[i].stage = issue[i].stage
      BY <1>3, <2>2, PromiseKept, StaysLively DEF GInv
    <2> QED BY <2>1, <2>2
  <1> QED BY <1>1, <1>2, <1>3 DEF GInv

LEMMA StagesInit == ServiceInit => GInv
  <1> SUFFICES ASSUME ServiceInit PROVE GInv
    OBVIOUS
  <1>1. \A i \in Issue : issue[i].stage \notin Worked
    BY DEF ServiceInit, Worked
  <1>2. \A s \in Session : StartIsOn(req[s], task)
    BY FreeFields DEF ServiceInit, StartIsOn
  <1> QED BY <1>1, <1>2, ShapeInit DEF GInv

LEMMA StagesAtRest == GInv => StageSettles
  <1> SUFFICES ASSUME GInv, AtRest, NEW i \in Issue, issue[i].stage \in {"planning", "building"}
               PROVE  HasActiveTaskForIssue(i)
    BY DEF StageSettles
  <1>1. \A s \in Session : ~Promises(req[s], i, task)
    BY DEF AtRest, At, Promises, Reporting
  <1> QED BY <1>1 DEF GInv, Worked, Lively, HasActiveTaskForIssue, TasksOf

\* However plans, builds, claims, reports, comments and confirmations overlap: once the
\* handlers are done, an issue whose stage says planning or building has a live task.
THEOREM StagesSettle ==
    Undisturbed => (ServiceSpec => []StageSettles)
  <1> SUFFICES ASSUME Undisturbed PROVE ServiceSpec => []StageSettles
    OBVIOUS
  <1>1. GInv /\ [ServiceNext]_serviceVars => GInv'
    BY StagesNext
  <1> QED BY <1>1, StagesInit, StagesAtRest, PTL DEF ServiceSpec

-----------------------------------------------------------------------------
(* The work of an issue is its assignee's.                                 *)

LEMMA AssigneesWritten ==
    ASSUME BInv, [ServiceNext]_serviceVars, NEW i \in Issue,
           issue'[i].assignee # issue[i].assignee
    PROVE  \E s \in Session : /\ UpdateIssue(s) /\ req[s].issue = i
                              /\ issue'[i].assignee = req[s].agent
  <1>1. issue \in IssueTable /\ ~UNCHANGED issue
    BY Facts
  <1>2. PICK s \in Session : SetStage(s) \/ WriteQueueStage(s) \/ UpdateIssue(s)
    BY <1>1, IssuesWritten
  <1>3. ~SetStage(s)
    <2>1. ASSUME NEW k, NEW st, issue' = [issue EXCEPT ![k].stage = st] PROVE FALSE
      BY <1>1, <2>1 DEF IssueTable
    <2> QED BY <2>1 DEF SetStage
  <1>4. ~WriteQueueStage(s)
    <2>1. ASSUME NEW k, NEW st, issue' = [issue EXCEPT ![k].stage = st] PROVE FALSE
      BY <1>1, <2>1 DEF IssueTable
    <2> QED BY <2>1 DEF WriteQueueStage
  <1>5. UpdateIssue(s)
    BY <1>2, <1>3, <1>4
  <1>6. issue' = [issue EXCEPT ![req[s].issue].assignee = req[s].agent]
    BY <1>5 DEF UpdateIssue
  <1> QED BY <1>1, <1>5, <1>6 DEF IssueTable

\* Where a handler relies on the agent it works for: the assignee of its issue.
Chosen(r) ==
    \/ r.pc \in {"cancelIssue", "checkPending", "checkActive", "latestPlan", "getAgent", "insert"}
    \/ r.pc = "queueStage" /\ r.op # "fanOut"
    \/ r.pc = "updateIssue" /\ r.op = "edit"

Follows(r, issues) ==
    /\ r.pc # "nextMention"
    /\ Chosen(r) => r.agent = issues[r.issue].assignee

\* A live root of issue i that is not its assignee's is about to be cancelled.
Settled(t, tasks, issues, reqs) ==
    /\ tasks[t].status # "absent" /\ tasks[t].parent = 0 /\ tasks[t].status \in Live
    => \/ tasks[t].agent = issues[tasks[t].issue].assignee
       \/ \E s \in Session : reqs[s].pc = "cancelIssue" /\ reqs[s].issue = tasks[t].issue

WInv ==
    /\ Shape
    /\ \A s \in Session : Follows(req[s], issue)
    /\ \A t \in Task : Settled(t, task, issue, req)

Assigned == One /\ NoneOf({"mention", "unassign", "abandon"})

\* A handler that goes on with the issue and the agent it has.
LEMMA FollowsOn ==
    ASSUME BInv, NEW s \in Session, Follows(req[s], issue),
           \A i \in Issue : issue'[i].assignee = issue[i].assignee,
           Kept(req[s], req'[s]), Chosen(req'[s]) => Chosen(req[s]), req'[s].pc # "nextMention"
    PROVE  Follows(req'[s], issue')
  <1>1. Chosen(req[s]) => req[s].issue \in Issue
    BY Facts DEF Chosen, Ready, Enqueuing
  <1> QED BY <1>1 DEF Follows, Kept

LEMMA FreeFollows == \A issues : Follows(Free, issues)
  BY FreeFields DEF Follows, Chosen

LEMMA NotChosen ==
    ASSUME BInv, NEW s \in Session, Polls(s) \/ TaskUpdates(s) \/ Fans(s) \/ AgentUpdates(s)
    PROVE  ~Chosen(req'[s])
  <1>1. CASE Fans(s)
    <2>1. ASSUME NEW t \in Task, NEW specs \in FanOuts, FanOutTask(s, t, specs)
          PROVE  ~Chosen(req'[s])
      BY <2>1, OtherMoves DEF Chosen
    <2>2. CASE InsertChild(s)
      <3>1. req[s].pc = "fanInsert" => req[s].op = "fanOut"
        BY Facts DEF Ready
      <3> QED BY <2>2, <3>1, OtherMoves, FreeFields DEF Chosen, Kept
    <2> QED BY <1>1, <2>1, <2>2 DEF Fans
  <1>2. CASE Polls(s) \/ TaskUpdates(s)
    BY <1>2, Where, FreeFields DEF Chosen, Polling, Reporting
  <1>3. CASE AgentUpdates(s)
    BY <1>3, Where, FreeFields DEF Chosen
  <1> QED BY <1>1, <1>2, <1>3

LEMMA HandlersFollow ==
    ASSUME WInv, Assigned, NEW s \in Session, Handles(s)
    PROVE  Follows(req'[s], issue')
  <1>0. /\ BInv /\ Shape /\ Shaped(req[s]) /\ Ready(req[s], task) /\ issue \in IssueTable
        /\ Follows(req[s], issue) /\ [ServiceNext]_serviceVars
        /\ \A k \in {"mention", "unassign", "abandon"} : k \notin Inputs
    BY Facts DEF WInv, Shape, Assigned, NoneOf, ServiceNext, Handles
  <1>1. req'[s] = Free => Follows(req'[s], issue')
    BY FreeFollows
  <1>2. CASE Polls(s) \/ TaskUpdates(s) \/ Fans(s) \/ AgentUpdates(s)
    <2>1. req'[s].pc # "nextMention"
      BY <1>0, <1>2, Where, FreeFields DEF Polling, Reporting, Follows
    <2> QED BY <1>0, <1>2, <2>1, NotChosen DEF Follows
  <1>3. ASSUME ~UpdateIssue(s), Enqueues(s)
        PROVE  \A i \in Issue : issue'[i].assignee = issue[i].assignee
    <2>1. ASSUME NEW i \in Issue, issue'[i].assignee # issue[i].assignee PROVE FALSE
      BY <1>0, <1>3, <2>1, AssigneesWritten DEF Assigned, One
    <2> QED BY <2>1
  <1>4. CASE Enqueues(s)
    <2>1. ASSUME NEW i \in Issue, NEW a \in Agent, AssignIssue(s, i, a)
          PROVE  Follows(req'[s], issue')
      BY <1>0, <2>1, Arrives DEF Follows, Chosen
    <2>2. ASSUME NEW i \in Issue, NEW a \in Agent \cup {None}, EditIssue(s, i, a)
          PROVE  Follows(req'[s], issue')
      <3>1. UNCHANGED issue
        BY <2>2 DEF EditIssue, rows
      <3> QED BY <1>0, <2>2, <3>1, Arrives DEF Follows
    <2>3. ASSUME NEW i \in Issue, NEW M \in SUBSET Agent, Comment(s, i, M)
          PROVE  Follows(req'[s], issue')
      <3>1. UNCHANGED issue
        BY <2>3 DEF Comment, rows
      <3> QED BY <1>0, <2>3, <3>1, Arrives DEF Follows
    <2>4. ASSUME NEW i \in Issue, NEW M \in SUBSET Agent, Mention(s, i, M)
          PROVE  FALSE
      BY <1>0, <2>4, Arrives
    <2>5. ASSUME NEW i \in Issue, ConfirmPlan(s, i)
          PROVE  Follows(req'[s], issue')
      <3>1. UNCHANGED issue
        BY <2>5 DEF ConfirmPlan, rows
      <3> QED BY <1>0, <2>5, <3>1, Arrives DEF Follows
    <2>6. CASE UpdateIssue(s)
      <3>1. CASE req'[s] = Free
        BY <1>1, <3>1
      <3>2. CASE req[s].op = "assign" /\ req'[s].pc = "cancelIssue"
                 /\ req'[s].issue = req[s].issue /\ req'[s].agent = req[s].agent
        <4>1. req[s].issue \in Issue
          BY <1>0, <2>6 DEF UpdateIssue, At, Ready
        <4>2. issue' = [issue EXCEPT ![req[s].issue].assignee = req[s].agent]
          BY <2>6 DEF UpdateIssue
        <4> QED BY <1>0, <3>2, <4>1, <4>2 DEF Follows, IssueTable
      <3> QED BY <1>0, <2>6, <3>1, <3>2, EnqueueMoves
    <2>7. req[s].pc # "nextMention" /\ req[s].mentions = {}
      BY <1>0 DEF Follows, Shaped
    <2>8. CASE /\ ~UpdateIssue(s)
               /\ Kept(req[s], req'[s])
               /\ Chosen(req'[s]) => Chosen(req[s])
               /\ req'[s].pc # "nextMention"
      BY <1>0, <1>3, <1>4, <2>8, FollowsOn
    <2>9. CASE CancelTasksForIssue(s) \/ CheckPending(s) \/ CheckActive(s) \/ LatestPlan(s)
               \/ GetAgent(s) \/ WriteQueueStage(s) \/ InsertTask(s) \/ NextMention(s)
      <3>1. ~UpdateIssue(s) /\ req[s].pc # "updateIssue"
        BY <1>0, <2>9, EnqueueMoves DEF UpdateIssue, At
      <3>2. /\ req'[s] = Free \/ Kept(req[s], req'[s])
            /\ req'[s] # Free => Chosen(req[s]) /\ req'[s].pc # "nextMention"
        BY <1>0, <2>7, <2>9, EnqueueMoves DEF AfterMoves, Chosen
      <3> QED BY <1>1, <2>8, <3>1, <3>2
    <2> QED BY <1>4, <2>1, <2>2, <2>3, <2>4, <2>5, <2>6, <2>9 DEF Enqueues
  <1>5. CASE Abandon(s)
    BY <1>0, <1>1, <1>5, OtherMoves
  <1> QED BY <1>2, <1>4, <1>5 DEF Handles

LEMMA FollowsNext ==
    ASSUME WInv, Assigned, [ServiceNext]_serviceVars, NEW z \in Session
    PROVE  Follows(req'[z], issue')
  <1>0. BInv
    BY DEF WInv, Shape
  <1>1. CASE Handles(z)
    BY <1>1, HandlersFollow
  <1>2. CASE ~Handles(z)
    <2>1. UNCHANGED req
      BY <1>0, <1>2, BesideIsCareful DEF Assigned, One, ServiceNext, Handles, serviceVars
    <2>2. \A i \in Issue : issue'[i].assignee = issue[i].assignee
      <3>1. ASSUME NEW i \in Issue, issue'[i].assignee # issue[i].assignee PROVE FALSE
        <4>1. \E s \in Session : UpdateIssue(s)
          BY <1>0, <3>1, AssigneesWritten
        <4> QED BY <1>2, <4>1 DEF Assigned, One, Handles, Enqueues
      <3> QED BY <3>1
    <2> QED BY <1>0, <2>1, <2>2, FollowsOn DEF WInv, Kept, Follows
  <1> QED BY <1>1, <1>2

LEMMA CancelsAll ==
    ASSUME TypeOK, NEW t \in Task, NEW i, CancelAgentTasksByIssue(i),
           task[t].issue = i, task[t].status \in Live
    PROVE  task'[t].status = "cancelled"
  BY SetStatusEffect DEF CancelAgentTasksByIssue, CancelTasks, TasksOf

LEMMA RootsSettled ==
    ASSUME WInv, Assigned, [ServiceNext]_serviceVars, NEW t \in Task
    PROVE  Settled(t, task', issue', req')
  <1>0. /\ BInv /\ TypeOK /\ IInv /\ [Next]_vars /\ issue \in IssueTable
        /\ Settled(t, task, issue, req)
        /\ "abandon" \notin Inputs
    BY Facts, QueueSteps DEF WInv, Shape, Assigned, NoneOf
  <1> SUFFICES ASSUME task'[t].status # "absent", task'[t].parent = 0, task'[t].status \in Live,
                      task'[t].agent # issue'[task'[t].issue].assignee
               PROVE  \E s \in Session : req'[s].pc = "cancelIssue" /\ req'[s].issue = task'[t].issue
    BY DEF Settled
  <1>1. Exists(t)
    <2> SUFFICES ASSUME ~Exists(t) PROVE FALSE
      OBVIOUS
    <2>1. task'[t] # task[t]
      BY DEF Exists
    <2>2. PICK s \in Session : /\ InsertTask(s)
                               /\ task'[t].agent = req[s].agent /\ task'[t].issue = req[s].issue
      BY <1>0, <2>1, NewRows
    <2>3. req[s].agent = issue[req[s].issue].assignee
      BY <2>2 DEF InsertTask, At, WInv, Follows, Chosen
    <2> QED BY <2>2, <2>3 DEF InsertTask, rows
  <1>2. /\ task'[t].agent = task[t].agent /\ task'[t].issue = task[t].issue
        /\ task[t].parent = 0 /\ task[t].status \in Live
        /\ task[t].issue \in Issue
    <2>1. /\ task'[t].agent = task[t].agent /\ task'[t].issue = task[t].issue
          /\ task[t].parent = 0 /\ task[t].status \in Live
      BY <1>0, <1>1, RowsKeep
    <2>2. task[t].issue \in Issue
      BY <1>0, <1>1, RowTypes DEF Row
    <2> QED BY <2>1, <2>2
  <1>3. CASE task[t].agent = issue[task[t].issue].assignee
    <2> DEFINE i == task[t].issue
    <2>1. PICK s \in Session : /\ UpdateIssue(s) /\ req[s].issue = i
                               /\ issue'[i].assignee = req[s].agent
      BY <1>0, <1>2, <1>3, AssigneesWritten
    <2>2. req[s].op = "assign"
      <3>1. req[s].op \in {"assign", "edit"} /\ req[s].pc = "updateIssue"
        BY <1>0, <2>1, Facts DEF UpdateIssue, At, Ready
      <3>2. req[s].op = "edit" => req[s].agent = issue[i].assignee
        BY <2>1, <3>1 DEF WInv, Follows, Chosen
      <3> QED BY <1>2, <1>3, <2>1, <3>1, <3>2
    <2> QED BY <1>0, <1>2, <2>1, <2>2, EnqueueMoves
  <1>4. CASE \E s \in Session : req[s].pc = "cancelIssue" /\ req[s].issue = task[t].issue
    <2>1. PICK s \in Session : req[s].pc = "cancelIssue" /\ req[s].issue = task[t].issue
      BY <1>4
    <2>2. CASE req'[s] = req[s]
      BY <1>2, <2>1, <2>2
    <2>3. CASE req'[s] # req[s]
      <3>1. Handles(s)
        BY <1>0, <2>3, OthersWait, BesideIsCareful DEF ServiceNext, Handles, serviceVars
      <3>2. ~Abandon(s)
        <4>1. Shaped(req[s])
          BY DEF WInv, Shape
        <4> QED BY <1>0, <2>1, <4>1, OtherMoves DEF Shaped, Polling
      <3>3. Enqueues(s)
        BY <1>0, <2>1, <3>1, <3>2, Where DEF Handles, Polling, Reporting
      <3>4. CancelTasksForIssue(s)
        BY <1>0, <2>1, <3>3, Arrived, EnqueueMoves DEF Enqueues, Arriving
      <3>5. CancelAgentTasksByIssue(task[t].issue)
        BY <2>1, <3>4 DEF CancelTasksForIssue
      <3> QED BY <1>0, <1>2, <3>5, CancelsAll DEF Live
    <2> QED BY <2>2, <2>3
  <1> QED BY <1>0, <1>1, <1>2, <1>3, <1>4 DEF Settled, Exists

LEMMA WorkNext ==
    Assigned => (WInv /\ [ServiceNext]_serviceVars => WInv')
  <1> SUFFICES ASSUME Assigned, WInv, [ServiceNext]_serviceVars PROVE WInv'
    OBVIOUS
  <1>1. Shape'
    BY ShapeNext DEF WInv
  <1>2. \A s \in Session : Follows(req'[s], issue')
    BY FollowsNext
  <1>3. \A t \in Task : Settled(t, task', issue', req')
    BY RootsSettled
  <1> QED BY <1>1, <1>2, <1>3 DEF WInv

LEMMA WorkInit == ServiceInit => WInv
  <1> SUFFICES ASSUME ServiceInit PROVE WInv
    OBVIOUS
  <1>1. \A s \in Session : Follows(req[s], issue)
    BY FreeFollows DEF ServiceInit
  <1>2. \A t \in Task : Settled(t, task, issue, req)
    BY DEF ServiceInit, Init, NoRow, Settled
  <1> QED BY <1>1, <1>2, ShapeInit DEF WInv

\* Where requests are served one after another and nobody is mentioned, the live roots
\* of an issue are its assignee's once the handlers are done: an assignment cancels the
\* others before it queues its own, and no other request queues for anyone else.
THEOREM WorkIsTheAssignees ==
    Assigned => (ServiceSpec => []WorkFollowsAssignee)
  <1> SUFFICES ASSUME Assigned PROVE ServiceSpec => []WorkFollowsAssignee
    OBVIOUS
  <1>1. WInv /\ [ServiceNext]_serviceVars => WInv'
    BY WorkNext
  <1>2. WInv => WorkFollowsAssignee
    BY DEF WInv, WorkFollowsAssignee, Settled, AtRest, At, Exists, IsRoot
  <1> QED BY <1>1, <1>2, WorkInit, PTL DEF ServiceSpec

-----------------------------------------------------------------------------
(* An archived agent is left without tasks.                                *)

\* What writes the table of agents besides their status.
LEMMA ArchivedWritten ==
    ASSUME BInv, [ServiceNext]_serviceVars, NEW a \in Agent,
           agent'[a].archived # agent[a].archived
    PROVE  \E s \in Session : ArchiveAgent(s, a) \/ RestoreAgent(s, a)
  <1>1. agent \in AgentTable /\ ~UNCHANGED agent
    BY Facts, ServiceTypes
  <1>2. ASSUME NEW b, NEW busy, SetAgentStatus(b, busy) PROVE FALSE
    BY <1>1, <1>2 DEF SetAgentStatus, AgentTable
  <1>3. ASSUME NEW s \in Session, Polls(s) PROVE FALSE
    BY <1>1, <1>2, <1>3 DEF Polls, Poll, CheckCapacity, BeginClaim, EndClaim, MarkWorking,
       NoTask, rows
  <1>4. ASSUME NEW s \in Session, TaskUpdates(s) PROVE FALSE
    BY <1>1, <1>2, <1>4 DEF TaskUpdates, StartTask, CompleteTask, FailTask, CancelTask, Handle,
       GetIssue, SetStage, CountTasks, ReconcileStatus, rows
  <1>5. ASSUME NEW s \in Session, Enqueues(s) PROVE FALSE
    BY <1>1, <1>5 DEF Enqueues, AssignIssue, Comment, Mention, EditIssue, ConfirmPlan,
       UpdateIssue, CancelTasksForIssue, NextMention, CheckPending, CheckActive, LatestPlan,
       GetAgent, WriteQueueStage, InsertTask, rows
  <1>6. ASSUME NEW s \in Session, Fans(s) \/ Abandon(s) PROVE FALSE
    BY <1>1, <1>6 DEF Fans, FanOutTask, InsertChild, Abandon, rows
  <1>7. ASSUME NEW s \in Session, AgentUpdates(s)
        PROVE  ArchiveAgent(s, a) \/ RestoreAgent(s, a)
    <2>1. ASSUME NEW b \in Agent, NEW rt \in Runtime, MoveAgent(s, b, rt) PROVE FALSE
      BY <1>1, <2>1 DEF MoveAgent, AgentTable
    <2>2. ~CancelTasksForAgent(s)
      BY <1>1 DEF CancelTasksForAgent, rows
    <2>3. PICK b \in Agent : ArchiveAgent(s, b) \/ RestoreAgent(s, b)
      BY <1>7, <2>1, <2>2 DEF AgentUpdates
    <2>4. b = a
      BY <1>1, <2>3 DEF ArchiveAgent, RestoreAgent, AgentTable
    <2> QED BY <2>3, <2>4
  <1>8. ~Runtimes
    BY <1>1 DEF Runtimes, Heartbeat, Lapse, DaemonDeregister
  <1>9. ~Sweeps
    BY <1>1, <1>2 DEF Sweeps, MarkStaleRuntimesOffline, SweepOrphans, SweepStaleTasks,
       SweepCount, SweepSetStatus, rows
  <1> QED BY <1>1, <1>3, <1>4, <1>5, <1>6, <1>7, <1>8, <1>9 DEF ServiceNext, serviceVars

Approved(r, agents) ==
    r.pc = "insert" \/ (r.pc = "queueStage" /\ r.op # "fanOut") => ~agents[r.agent].archived

\* A task of an archived agent is over, or about to be cancelled.
Cleared(t, tasks, agents, reqs) ==
    tasks[t].status # "absent" /\ agents[tasks[t].agent].archived
    => \/ tasks[t].status \in Terminal
       \/ \E s \in Session : reqs[s].pc = "cancelAgent" /\ reqs[s].agent = tasks[t].agent

AInv ==
    /\ Shape
    /\ \A s \in Session : Approved(req[s], agent)
    /\ \A t \in Task : Cleared(t, task, agent, req)

Unabandoned == One /\ NoneOf({"abandon"})

LEMMA ApprovedNext ==
    ASSUME AInv, Unabandoned, [ServiceNext]_serviceVars, NEW s \in Session
    PROVE  Approved(req'[s], agent')
  <1>0. BInv /\ Ready(req[s], task) /\ Approved(req[s], agent)
    BY Facts DEF AInv, Shape
  <1>1. req'[s] = Free => Approved(req'[s], agent')
    BY FreeFields DEF Approved
  <1>2. CASE ~Handles(s)
    <2>1. UNCHANGED req
      BY <1>0, <1>2, BesideIsCareful DEF Unabandoned, One, ServiceNext, Handles, serviceVars
    <2>2. ASSUME NEW a \in Agent, agent'[a].archived # agent[a].archived PROVE FALSE
      <3>1. \E z \in Session : ArchiveAgent(z, a) \/ RestoreAgent(z, a)
        BY <1>0, <2>2, ArchivedWritten
      <3> QED BY <1>2, <3>1 DEF Unabandoned, One, Handles, AgentUpdates
    <2>3. req[s].pc \in {"insert", "queueStage"} /\ req[s].op # "fanOut" => req[s].agent \in Agent
      BY <1>0 DEF Ready, Enqueuing
    <2>4. req[s].pc = "insert" => req[s].op # "fanOut"
      BY <1>0 DEF Ready, Enqueuing
    <2> QED BY <1>0, <2>1, <2>2, <2>3, <2>4 DEF Approved
  <1>3. CASE Polls(s) \/ TaskUpdates(s) \/ Fans(s) \/ AgentUpdates(s)
    BY <1>0, <1>3, NotChosen DEF Approved, Chosen
  <1>4. CASE Enqueues(s)
    <2>1. UNCHANGED agent
      BY <1>4 DEF Enqueues, AssignIssue, Comment, Mention, EditIssue, ConfirmPlan, UpdateIssue,
         CancelTasksForIssue, NextMention, CheckPending, CheckActive, LatestPlan, GetAgent,
         WriteQueueStage, InsertTask, rows
    <2>2. CASE Arriving(s)
      BY <1>0, <2>2, Arrived DEF Approved
    <2>3. CASE ~Arriving(s)
      BY <1>0, <1>1, <1>4, <2>1, <2>3, EnqueueMoves
         DEF Enqueues, Arriving, AfterMoves, Kept, Approved
    <2> QED BY <2>2, <2>3
  <1>5. CASE Abandon(s)
    BY <1>0, <1>1, <1>5, OtherMoves
  <1> QED BY <1>2, <1>3, <1>4, <1>5 DEF Handles

LEMMA CancelsAllOfAgent ==
    ASSUME TypeOK, NEW t \in Task, NEW a, CancelAgentTasksByAgent(a),
           task[t].agent = a, task[t].status \in Live
    PROVE  task'[t].status = "cancelled"
  BY SetStatusEffect DEF CancelAgentTasksByAgent, CancelTasks

LEMMA TasksCleared ==
    ASSUME AInv, Unabandoned, [ServiceNext]_serviceVars, NEW t \in Task
    PROVE  Cleared(t, task', agent', req')
  <1>0. /\ BInv /\ TypeOK /\ IInv /\ [Next]_vars /\ agent \in AgentTable
        /\ Cleared(t, task, agent, req)
        /\ "abandon" \notin Inputs
    BY Facts, ServiceTypes, QueueSteps DEF AInv, Shape, Unabandoned, NoneOf
  <1> SUFFICES ASSUME task'[t].status # "absent", agent'[task'[t].agent].archived,
                      task'[t].status \notin Terminal
               PROVE  \E s \in Session : req'[s].pc = "cancelAgent" /\ req'[s].agent = task'[t].agent
    BY DEF Cleared
  <1>1. Exists(t)
    <2> SUFFICES ASSUME ~Exists(t) PROVE FALSE
      OBVIOUS
    <2>1. task'[t] # task[t]
      BY DEF Exists
    <2>2. PICK s \in Session :
             \/ InsertTask(s) /\ task'[t].agent = req[s].agent
             \/ InsertChild(s) /\ ~agent[task'[t].agent].archived
      BY <1>0, <2>1, NewRows
    <2>3. UNCHANGED agent
      BY <2>2 DEF InsertTask, InsertChild, rows
    <2> QED BY <2>2, <2>3 DEF InsertTask, At, AInv, Approved
  <1>2. task'[t].agent = task[t].agent /\ task[t].status \notin Terminal
    BY <1>0, <1>1, RowsKeep
  <1>3. task[t].agent \in Agent /\ task[t].status \in Live
    BY <1>0, <1>1, <1>2, RowTypes DEF Row
  <1>4. CASE ~agent[task[t].agent].archived
    <2> DEFINE a == task[t].agent
    <2>1. PICK s \in Session : ArchiveAgent(s, a) \/ RestoreAgent(s, a)
      BY <1>0, <1>2, <1>3, <1>4, ArchivedWritten
    <2>2. ~RestoreAgent(s, a)
      BY <1>4 DEF RestoreAgent
    <2>3. req'[s].pc = "cancelAgent" /\ req'[s].agent = a
      BY <1>0, <1>3, <2>1, <2>2, OtherMoves
    <2> QED BY <1>2, <2>3
  <1>5. CASE agent[task[t].agent].archived
    <2>1. PICK s \in Session : req[s].pc = "cancelAgent" /\ req[s].agent = task[t].agent
      BY <1>0, <1>1, <1>2, <1>5 DEF Cleared, Exists
    <2>2. CASE req'[s] = req[s]
      BY <1>2, <2>1, <2>2
    <2>3. CASE req'[s] # req[s]
      <3>1. Handles(s)
        BY <1>0, <2>3, OthersWait, BesideIsCareful DEF ServiceNext, Handles, serviceVars
      <3>2. ~Abandon(s)
        <4>1. Shaped(req[s])
          BY DEF AInv, Shape
        <4> QED BY <1>0, <2>1, <4>1, OtherMoves DEF Shaped, Polling
      <3>3. AgentUpdates(s)
        BY <1>0, <2>1, <3>1, <3>2, Where DEF Handles, Polling, Reporting, Enqueuing
      <3>4. CancelTasksForAgent(s)
        BY <2>1, <2>3, <3>3 DEF AgentUpdates, MoveAgent, ArchiveAgent, RestoreAgent, Receive, At
      <3>5. CancelAgentTasksByAgent(task[t].agent)
        BY <2>1, <3>4 DEF CancelTasksForAgent
      <3> QED BY <1>0, <1>3, <3>5, CancelsAllOfAgent DEF Terminal
    <2> QED BY <2>2, <2>3
  <1> QED BY <1>4, <1>5

LEMMA ArchivedNext ==
    Unabandoned => (AInv /\ [ServiceNext]_serviceVars => AInv')
  <1> SUFFICES ASSUME Unabandoned, AInv, [ServiceNext]_serviceVars PROVE AInv'
    OBVIOUS
  <1>1. Shape'
    BY ShapeNext DEF AInv
  <1>2. \A s \in Session : Approved(req'[s], agent')
    BY ApprovedNext
  <1>3. \A t \in Task : Cleared(t, task', agent', req')
    BY TasksCleared
  <1> QED BY <1>1, <1>2, <1>3 DEF AInv

LEMMA ArchivedInit == ServiceInit => AInv
  <1> SUFFICES ASSUME ServiceInit PROVE AInv
    OBVIOUS
  <1>1. \A s \in Session : Approved(req[s], agent)
    BY FreeFields DEF ServiceInit, Approved
  <1>2. \A t \in Task : Cleared(t, task, agent, req)
    BY DEF ServiceInit, Init, NoRow, Cleared
  <1> QED BY <1>1, <1>2, ShapeInit DEF AInv

\* Where requests are served one after another and none is cut off, an archived agent
\* has no task left once the handlers are done: archiving cancels them all, and every
\* enqueue looks at archived_at first.
THEOREM ArchivedAgentsAreCleared ==
    Unabandoned => (ServiceSpec => []ArchivedAgentHasNoTasks)
  <1> SUFFICES ASSUME Unabandoned PROVE ServiceSpec => []ArchivedAgentHasNoTasks
    OBVIOUS
  <1>1. AInv /\ [ServiceNext]_serviceVars => AInv'
    BY ArchivedNext
  <1>2. AInv => ArchivedAgentHasNoTasks
    BY DEF AInv, ArchivedAgentHasNoTasks, Cleared, AtRest, At, Exists
  <1> QED BY <1>1, <1>2, ArchivedInit, PTL DEF ServiceSpec

-----------------------------------------------------------------------------
(* The status of an agent says whether it has dispatched or running tasks. *)

Runs(a, tasks) == \E t \in Task : tasks[t].agent = a /\ tasks[t].status \in Active

StatusRight(a, tasks, agents) == agents[a].status = "working" <=> Runs(a, tasks)

\* A handler that will write the status of agent a.
Owes(r, a, tasks) ==
    \/ r.pc = "markWorking" /\ r.agent = a
    \/ /\ r.pc \in Reporting /\ tasks[r.task].agent = a
       /\ \/ r.op = "complete"
          \/ r.op \in {"fail", "cancel"} /\ r.pc \in {"count", "setStatus"}

\* What it writes is what it read, and that is still so.
Informed(r, tasks) ==
    /\ r.pc = "markWorking" => tasks[r.task].status \in Active
    /\ r.pc = "setStatus" => r.busy = Runs(tasks[r.task].agent, tasks)

UInv ==
    /\ OInv
    /\ \A a \in Agent :
          StatusRight(a, task, agent) \/ \E s \in Session : Owes(req[s], a, task)
    /\ \A s \in Session : Informed(req[s], task)

Reconciled ==
    One /\ NoneOf({"assign", "archive", "runtime", "timeout", "abandon", "hangUp"})

LEMMA RunningMeansRuns == \A a : (RunningOf(a) # {}) = Runs(a, task)
  BY DEF RunningOf, Runs

LEMMA ReconciledRequests ==
    ASSUME Shape, Reconciled
    PROVE  /\ \A s \in Session : /\ req[s].op \notin {"assign", "archive"}
                                 /\ req[s].pc \notin {"cancelIssue", "cancelAgent"}
                                 /\ ~Abandon(s)
                                 /\ \A a \in Agent : ~ArchiveAgent(s, a) /\ ~RestoreAgent(s, a)
           /\ ~Runtimes /\ ~Sweeps
           /\ \A s \in Session : [ServiceNext]_serviceVars => Handles(s) \/ UNCHANGED serviceVars
  <1>1. /\ NoneOf({"timeout", "runtime"}) /\ One
        /\ \A k \in {"assign", "archive", "abandon", "hangUp"} : k \notin Inputs
    BY DEF Reconciled, NoneOf
  <1>2. ~Runtimes /\ ~Sweeps
    BY <1>1, QuietNights
  <1>3. ASSUME NEW s \in Session
        PROVE  /\ req[s].op \notin {"assign", "archive"}
               /\ req[s].pc \notin {"cancelIssue", "cancelAgent"}
               /\ ~Abandon(s)
               /\ \A a \in Agent : ~ArchiveAgent(s, a) /\ ~RestoreAgent(s, a)
    <2>1. Shaped(req[s])
      BY DEF Shape
    <2> QED BY <1>1, <2>1 DEF Shaped, Abandon, ArchiveAgent, RestoreAgent, Receive
  <1>4. ASSUME NEW s \in Session, [ServiceNext]_serviceVars
        PROVE  Handles(s) \/ UNCHANGED serviceVars
    BY <1>1, <1>2, <1>4 DEF One, ServiceNext, Handles
  <1> QED BY <1>2, <1>3, <1>4

\* An agent begins to run tasks by a claim, and stops by a report or a cancel.
LEMMA RunsChange ==
    ASSUME UInv, Reconciled, [ServiceNext]_serviceVars, NEW a \in Agent,
           Runs(a, task') # Runs(a, task)
    PROVE  \E s \in Session, t \in Task :
              /\ task[t].agent = a /\ task'[t].agent = a
              /\ \/ EndClaim(s) /\ ClaimCommit(s) /\ claim[s].row = t
                 \/ CompleteTask(s, t) \/ FailTask(s, t) \/ CancelTask(s, t)
  <1>0. BInv /\ Shape /\ IInv /\ [Next]_vars
    BY Facts, QueueSteps DEF UInv, OInv, Shape
  <1>1. CASE Runs(a, task') /\ ~Runs(a, task)
    <2>1. PICK t \in Task : task'[t].agent = a /\ task'[t].status \in Active
      BY <1>1 DEF Runs
    <2>2. Exists(t)
      BY <1>0, <2>1, NewAreQueued DEF Active, Exists
    <2>3. task[t].agent = a
      BY <1>0, <2>1, <2>2, RowsKeep
    <2>4. task[t].status \notin Active /\ task'[t] # task[t]
      BY <1>1, <2>1, <2>3 DEF Runs
    <2>5. StepOK(t)
      BY <1>0, <2>4, StepsAreOK DEF vars
    <2>6. task[t] \in Row
      BY <1>0, <2>2, RowTypes DEF IInv
    <2>7. task'[t].status = "dispatched"
      BY <2>1, <2>4, <2>5, <2>6 DEF StepOK, Successors, Row, Active, Live, Terminal
    <2>8. task[t].status # "dispatched"
      BY <2>4 DEF Active
    <2>9. PICK s \in Session : EndClaim(s) /\ ClaimCommit(s) /\ claim[s].row = t
      BY <1>0, <2>7, <2>8, Dispatches
    <2> QED BY <2>1, <2>3, <2>9
  <1>2. CASE Runs(a, task) /\ ~Runs(a, task')
    <2>1. PICK t \in Task : task[t].agent = a /\ task[t].status \in Active
      BY <1>2 DEF Runs
    <2>2. Exists(t) /\ task[t].status \in Live
      BY <2>1 DEF Active, Exists, Live
    <2>3. task'[t].agent = a
      BY <1>0, <2>1, <2>2, RowsKeep
    <2>4. task'[t].status \notin Active /\ task'[t] # task[t]
      BY <1>2, <2>1, <2>3 DEF Runs
    <2>5. StepOK(t)
      BY <1>0, <2>4, StepsAreOK DEF vars
    <2>6. task'[t].status \notin Live
      BY <2>1, <2>4, <2>5 DEF StepOK, Successors, Active, Live
    <2>7. PICK s \in Session :
             \/ CompleteTask(s, t) \/ FailTask(s, t) \/ CancelTask(s, t)
             \/ CancelTasksForIssue(s) \/ CancelTasksForAgent(s)
      BY <1>0, <2>2, <2>6, EndedBy, ReconciledRequests
    <2>8. ~CancelTasksForIssue(s) /\ ~CancelTasksForAgent(s)
      BY <1>0, ReconciledRequests DEF CancelTasksForIssue, CancelTasksForAgent, At
    <2> QED BY <2>1, <2>3, <2>7, <2>8
  <1>3. Runs(a, task) \in BOOLEAN /\ Runs(a, task') \in BOOLEAN
    BY DEF Runs
  <1> QED BY <1>1, <1>2, <1>3

LEMMA StatusWritten ==
    ASSUME UInv, Reconciled, [ServiceNext]_serviceVars, NEW a \in Agent,
           agent'[a].status # agent[a].status
    PROVE  \E s \in Session : \/ MarkWorking(s) /\ req[s].agent = a
                              \/ ReconcileStatus(s) /\ task[req[s].task].agent = a
  <1>1. /\ agent \in AgentTable /\ ~UNCHANGED agent /\ Shape
    BY Facts, ServiceTypes DEF UInv, OInv, Shape
  <1>2. ASSUME NEW b, NEW busy, SetAgentStatus(b, busy) PROVE b = a
    BY <1>1, <1>2 DEF SetAgentStatus, AgentTable
  <1>3. ASSUME NEW s \in Session, Polls(s) PROVE MarkWorking(s) /\ req[s].agent = a
    BY <1>1, <1>2, <1>3 DEF Polls, Poll, CheckCapacity, BeginClaim, EndClaim, MarkWorking,
       NoTask, rows
  <1>4. ASSUME NEW s \in Session, TaskUpdates(s)
        PROVE  ReconcileStatus(s) /\ task[req[s].task].agent = a
    BY <1>1, <1>2, <1>4 DEF TaskUpdates, StartTask, CompleteTask, FailTask, CancelTask, Handle,
       GetIssue, SetStage, CountTasks, ReconcileStatus, rows
  <1>5. ASSUME NEW s \in Session, Enqueues(s) PROVE FALSE
    BY <1>1, <1>5 DEF Enqueues, AssignIssue, Comment, Mention, EditIssue, ConfirmPlan,
       UpdateIssue, CancelTasksForIssue, NextMention, CheckPending, CheckActive, LatestPlan,
       GetAgent, WriteQueueStage, InsertTask, rows
  <1>6. ASSUME NEW s \in Session, Fans(s) PROVE FALSE
    BY <1>1, <1>6 DEF Fans, FanOutTask, InsertChild, rows
  <1>7. ASSUME NEW s \in Session, AgentUpdates(s) PROVE FALSE
    <2>1. ASSUME NEW b \in Agent, NEW rt \in Runtime, MoveAgent(s, b, rt) PROVE FALSE
      BY <1>1, <2>1 DEF MoveAgent, AgentTable
    <2>2. ~CancelTasksForAgent(s)
      BY <1>1 DEF CancelTasksForAgent, rows
    <2> QED BY <1>1, <1>7, <2>1, <2>2, ReconciledRequests DEF AgentUpdates
  <1> QED BY <1>1, <1>3, <1>4, <1>5, <1>6, <1>7, ReconciledRequests DEF ServiceNext, serviceVars

LEMMA ChangesAreOwed ==
    ASSUME UInv, Reconciled, [ServiceNext]_serviceVars, NEW a \in Agent,
           Runs(a, task') # Runs(a, task)
    PROVE  \E s \in Session : Owes(req'[s], a, task')
  <1>0. BInv /\ TypeOK /\ LocksHold
    BY Facts DEF UInv, OInv, Shape
  <1>1. PICK s \in Session, t \in Task :
              /\ task[t].agent = a /\ task'[t].agent = a
              /\ \/ EndClaim(s) /\ ClaimCommit(s) /\ claim[s].row = t
                 \/ CompleteTask(s, t) \/ FailTask(s, t) \/ CancelTask(s, t)
    BY RunsChange
  <1>2. CASE EndClaim(s) /\ ClaimCommit(s) /\ claim[s].row = t
    <2>1. req[s].pc = "claiming" /\ t \in claim[s].seen
      BY <1>0, <1>2, PollMoves DEF ClaimCommit, LocksHold, Task
    <2>2. req[s].agent = a
      BY <1>1, <2>1 DEF UInv, OInv, Looks, Polling
    <2>3. task'[t] # task[t]
      BY <1>0, <1>2, SetStatusEffect DEF ClaimCommit, LocksHold
    <2>4. req'[s].pc = "markWorking" /\ req'[s].agent = req[s].agent
      <3>1. ~ClaimNothing(s) /\ ~\E u \in Task : ClaimLock(s, u)
        BY <2>3 DEF ClaimNothing, ClaimLock
      <3>2. Become(s, [req[s] EXCEPT !.pc = "markWorking", !.task = claim[s].row])
        BY <1>2, <3>1 DEF EndClaim
      <3> QED BY <1>0, <1>2, <2>3, <3>1, <3>2, PollMoves DEF EndClaim
    <2> QED BY <2>2, <2>4 DEF Owes
  <1>3. CASE CompleteTask(s, t) \/ FailTask(s, t) \/ CancelTask(s, t)
    <2>1. /\ req'[s].task = t
          /\ \/ req'[s].op = "complete" /\ req'[s].pc = "getIssue"
             \/ req'[s].op \in {"fail", "cancel"} /\ req'[s].pc = "count"
      BY <1>0, <1>3, HandleMoves DEF CompleteTask, FailTask, CancelTask
    <2> QED BY <1>1, <2>1 DEF Owes, Reporting
  <1> QED BY <1>1, <1>2, <1>3

\* A handler that owes the status of an agent writes it, and writes what is so.
LEMMA OwedIsWritten ==
    ASSUME UInv, Reconciled, [ServiceNext]_serviceVars, NEW a \in Agent, NEW s \in Session,
           \/ MarkWorking(s) /\ req[s].agent = a
           \/ ReconcileStatus(s) /\ task[req[s].task].agent = a
    PROVE  StatusRight(a, task', agent')
  <1>0. BInv /\ agent \in AgentTable /\ Informed(req[s], task) /\ Looks(s)
    BY Facts, ServiceTypes DEF UInv, OInv, Shape
  <1>1. UNCHANGED task
    BY DEF MarkWorking, ReconcileStatus, vars
  <1>2. \A busy : SetAgentStatus(a, busy) =>
           agent'[a].status = IF busy THEN "working" ELSE "idle"
    BY <1>0 DEF SetAgentStatus, AgentTable
  <1>3. CASE MarkWorking(s) /\ req[s].agent = a
    <2>1. req[s].task \in Task /\ task[req[s].task].agent = a
      BY <1>0, <1>3 DEF MarkWorking, At, Looks
    <2>2. Runs(a, task)
      BY <1>0, <1>3, <2>1 DEF MarkWorking, At, Informed, Runs
    <2>3. agent'[a].status = "working"
      BY <1>2, <1>3 DEF MarkWorking
    <2> QED BY <1>1, <2>2, <2>3 DEF StatusRight
  <1>4. CASE ReconcileStatus(s) /\ task[req[s].task].agent = a
    <2>1. req[s].busy = Runs(a, task)
      BY <1>0, <1>4 DEF ReconcileStatus, At, Informed
    <2>2. agent'[a].status = IF req[s].busy THEN "working" ELSE "idle"
      BY <1>2, <1>4 DEF ReconcileStatus
    <2>3. req[s].busy \in BOOLEAN
      BY <1>0, Facts DEF ReqOK
    <2> QED BY <1>1, <2>1, <2>2, <2>3 DEF StatusRight
  <1> QED BY <1>3, <1>4

LEMMA StaysOwed ==
    ASSUME UInv, Reconciled, [ServiceNext]_serviceVars, NEW a \in Agent, NEW s \in Session,
           Owes(req[s], a, task),
           ~(MarkWorking(s) /\ req[s].agent = a),
           ~(ReconcileStatus(s) /\ task[req[s].task].agent = a)
    PROVE  Owes(req'[s], a, task')
  <1>0. BInv /\ Shape /\ Shaped(req[s])
    BY DEF UInv, OInv, Shape
  <1>1. CASE UNCHANGED serviceVars
    BY <1>1 DEF serviceVars, Owes
  <1>2. CASE Handles(s)
    <2>1. CASE req[s].pc = "markWorking" /\ req[s].agent = a
      <3>1. Polls(s)
        BY <1>0, <1>2, <2>1, Where, ReconciledRequests DEF Handles, Reporting, Enqueuing
      <3> QED BY <2>1, <3>1 DEF Polls, Poll, CheckCapacity, BeginClaim, EndClaim, NoTask,
                Receive, At
    <2>2. CASE /\ req[s].pc \in Reporting /\ task[req[s].task].agent = a
               /\ \/ req[s].op = "complete"
                  \/ req[s].op \in {"fail", "cancel"} /\ req[s].pc \in {"count", "setStatus"}
      <3>1. TaskUpdates(s)
        BY <1>0, <1>2, <2>2, Where, ReconciledRequests DEF Handles, Polling, Reporting, Enqueuing
      <3>2. GetIssue(s) \/ SetStage(s) \/ CountTasks(s)
        BY <2>2, <3>1 DEF TaskUpdates, StartTask, CompleteTask, FailTask, CancelTask, Receive,
           At, Reporting
      <3>3. UNCHANGED task
        BY <3>2 DEF GetIssue, SetStage, CountTasks, vars
      <3>4. /\ req'[s].pc \in Reporting
            /\ req[s].op # "complete" => req'[s].pc = "setStatus"
            /\ Kept(req[s], req'[s])
        BY <1>0, <2>2, <3>2, UpdateMoves, FreeFields DEF Kept, Reporting
      <3> QED BY <2>2, <3>3, <3>4 DEF Owes, Kept
    <2> QED BY <2>1, <2>2 DEF Owes
  <1> QED BY <1>0, <1>1, <1>2, ReconciledRequests

LEMMA InformedNext ==
    ASSUME UInv, Reconciled, [ServiceNext]_serviceVars, NEW s \in Session
    PROVE  Informed(req'[s], task')
  <1>0. BInv /\ Shape /\ Informed(req[s], task) /\ TypeOK /\ LocksHold
    BY Facts DEF UInv, OInv, Shape
  <1>1. CASE UNCHANGED serviceVars
    BY <1>0, <1>1 DEF serviceVars, Informed, Runs
  <1>2. CASE Handles(s)
    <2>1. CASE req'[s].pc = "markWorking"
      <3>1. Polls(s)
        BY <1>0, <1>2, <2>1, Where, FreeFields, ReconciledRequests
           DEF Handles, Reporting, Enqueuing, Polling
      <3>2. EndClaim(s)
        BY <1>0, <2>1, <3>1, PollMoves, FreeFields DEF Polls
      <3>3. ClaimCommit(s) /\ req'[s].task = claim[s].row
        BY <1>0, <2>1, <3>2, PollMoves
      <3>4. task'[claim[s].row].status = "dispatched"
        BY <1>0, <3>3, SetStatusEffect DEF ClaimCommit, LocksHold, TypeOK
      <3> QED BY <2>1, <3>3, <3>4 DEF Informed, Active
    <2>2. CASE req'[s].pc = "setStatus"
      <3>1. TaskUpdates(s)
        BY <1>0, <1>2, <2>2, Where, FreeFields, ReconciledRequests
           DEF Handles, Reporting, Enqueuing, Polling
      <3>2. CountTasks(s)
        <4>1. ASSUME NEW t \in Task,
                     StartTask(s, t) \/ CompleteTask(s, t) \/ FailTask(s, t) \/ CancelTask(s, t)
              PROVE  FALSE
          BY <1>0, <2>2, <4>1, HandleMoves DEF StartTask, CompleteTask, FailTask, CancelTask
        <4> QED BY <1>0, <2>2, <3>1, <4>1, UpdateMoves, FreeFields DEF TaskUpdates
      <3>3. UNCHANGED task
        BY <3>2 DEF CountTasks, vars
      <3>4. req'[s].busy = Runs(task[req[s].task].agent, task) /\ req'[s].task = req[s].task
        BY <1>0, <3>2, UpdateMoves, RunningMeansRuns DEF Kept
      <3> QED BY <2>2, <3>3, <3>4 DEF Informed
    <2> QED BY <2>1, <2>2 DEF Informed
  <1> QED BY <1>0, <1>1, <1>2, ReconciledRequests

LEMMA StatusNext ==
    Reconciled => (UInv /\ [ServiceNext]_serviceVars => UInv')
  <1> SUFFICES ASSUME Reconciled, UInv, [ServiceNext]_serviceVars PROVE UInv'
    OBVIOUS
  <1>1. OInv'
    <2>1. NoneOf({"hangUp", "abandon"})
      BY DEF Reconciled, NoneOf
    <2> QED BY <2>1, OrphansNext DEF UInv
  <1>2. \A s \in Session : Informed(req'[s], task')
    BY InformedNext
  <1>3. ASSUME NEW a \in Agent
        PROVE  StatusRight(a, task', agent') \/ \E s \in Session : Owes(req'[s], a, task')
    <2>1. CASE Runs(a, task') # Runs(a, task)
      BY <2>1, ChangesAreOwed
    <2>2. CASE \E s \in Session : \/ MarkWorking(s) /\ req[s].agent = a
                                  \/ ReconcileStatus(s) /\ task[req[s].task].agent = a
      <3>1. PICK s \in Session : \/ MarkWorking(s) /\ req[s].agent = a
                                 \/ ReconcileStatus(s) /\ task[req[s].task].agent = a
        BY <2>2
      <3>2. StatusRight(a, task', agent')
        BY <3>1, OwedIsWritten
      <3> QED BY <3>2
    <2>3. CASE /\ Runs(a, task') = Runs(a, task)
               /\ ~\E s \in Session : \/ MarkWorking(s) /\ req[s].agent = a
                                      \/ ReconcileStatus(s) /\ task[req[s].task].agent = a
      <3>1. agent'[a].status = agent[a].status
        BY <2>3, StatusWritten
      <3>2. CASE StatusRight(a, task, agent)
        BY <2>3, <3>1, <3>2 DEF StatusRight
      <3>3. CASE \E s \in Session : Owes(req[s], a, task)
        BY <2>3, <3>3, StaysOwed
      <3> QED BY <3>2, <3>3 DEF UInv
    <2> QED BY <2>1, <2>2, <2>3
  <1> QED BY <1>1, <1>2, <1>3 DEF UInv

LEMMA StatusInit == ServiceInit => UInv
  <1> SUFFICES ASSUME ServiceInit PROVE UInv
    OBVIOUS
  <1>1. ASSUME NEW a \in Agent PROVE StatusRight(a, task, agent)
    BY DEF ServiceInit, Init, NoRow, StatusRight, Runs, Active
  <1>2. \A s \in Session : Informed(req[s], task)
    BY FreeFields DEF ServiceInit, Informed
  <1> QED BY <1>1, <1>2, OrphansInit DEF UInv

LEMMA StatusAtRest == UInv => StatusSettles
  <1> SUFFICES ASSUME UInv, AtRest, NEW a \in Agent
               PROVE  agent[a].status = "working" <=> RunningOf(a) # {}
    BY DEF StatusSettles
  <1>1. \A s \in Session : ~Owes(req[s], a, task)
    BY DEF AtRest, At, Owes, Reporting
  <1> QED BY <1>1, RunningMeansRuns DEF UInv, StatusRight

\* Where requests are served one after another, the status of an agent is the one
\* ReconcileAgentStatus promises once the handlers are done: every claim, completion,
\* failure and cancel of a task goes on to write it.
THEOREM StatusesSettle ==
    Reconciled => (ServiceSpec => []StatusSettles)
  <1> SUFFICES ASSUME Reconciled PROVE ServiceSpec => []StatusSettles
    OBVIOUS
  <1>1. UInv /\ [ServiceNext]_serviceVars => UInv'
    BY StatusNext
  <1> QED BY <1>1, StatusInit, StatusAtRest, PTL DEF ServiceSpec
=============================================================================
