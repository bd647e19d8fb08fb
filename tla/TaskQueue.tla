------------------------------ MODULE TaskQueue ------------------------------
(***************************************************************************)
(* The table agent_task_queue and the SQL statements that change it        *)
(* (server/pkg/db/queries/agent.sql, runtime.sql).  Every statement runs   *)
(* in a transaction of its own at READ COMMITTED.  A statement whose WHERE *)
(* tests only the row it updates is one step: PostgreSQL locks the row and *)
(* tests it again.  ClaimAgentTask also tests OTHER rows (NOT EXISTS ...), *)
(* and sees those as they were when the statement began; then it locks a   *)
(* row (FOR UPDATE SKIP LOCKED), then commits.  These are three steps:     *)
(* ClaimSnapshot, ClaimLock (or ClaimNothing), ClaimCommit.  A statement   *)
(* that updates a locked row waits for the lock.                           *)
(*                                                                         *)
(* Task ids are 1..MaxTask in order of created_at.  Rows are never deleted *)
(* here: deleting an issue removes the issue with all its rows.            *)
(***************************************************************************)
EXTENDS Integers, FiniteSets

CONSTANTS
    MaxTask,    \* bound: how many rows are ever inserted
    Agent,
    Issue,
    Runtime,
    Mode,       \* execution modes, a subset of {"plan", "build"}
    Priority,   \* priorities of the issues, a subset of 0..4
    Session,    \* server goroutines that can be inside a claim statement
    None

ASSUME TaskQueueAssumption ==
    /\ MaxTask \in Nat
    /\ Priority \subseteq Nat
    /\ None \notin Agent \cup Issue \cup Runtime \cup Mode

VARIABLES
    task,   \* the rows
    claim   \* the claim statement each session is in the middle of

vars == <<task, claim>>

Task     == 1 .. MaxTask
Pending  == {"queued", "dispatched"}
Active   == {"dispatched", "running"}
Live     == {"queued", "dispatched", "running"}
Terminal == {"completed", "failed", "cancelled"}

\* A root task has parent 0, a fan-out child the id of its parent.
Row == [status   : Live \cup Terminal,
        agent    : Agent,
        issue    : Issue,
        runtime  : Runtime,
        mode     : Mode,
        priority : Priority,
        parent   : Task \cup {0}]

NoRow == [status |-> "absent", agent |-> None, issue |-> None,
          runtime |-> None, mode |-> None, priority |-> 0, parent |-> 0]

\* agent: whose tasks are claimed; seen: the rows that qualified in the snapshot;
\* row: the row locked, 0 for none.
NoClaim == [agent |-> None, seen |-> {}, row |-> 0]

TypeOK ==
    /\ task \in [Task -> Row \cup {NoRow}]
    /\ claim \in [Session -> [agent : Agent \cup {None}, seen : SUBSET Task,
                              row : Task \cup {0}]]

Init ==
    /\ task = [t \in Task |-> NoRow]
    /\ claim = [s \in Session |-> NoClaim]

-----------------------------------------------------------------------------
\* Reads

Exists(t) == task[t].status # "absent"
IsRoot(t) == task[t].parent = 0

TasksOf(i)      == {t \in Task : task[t].issue = i}
ActiveOf(i)     == {t \in TasksOf(i) : task[t].status \in Active}
PendingRoots(i) == {t \in TasksOf(i) : task[t].status \in Pending /\ IsRoot(t)}
\* Mutation: a count of the agent's tasks that includes the queued ones.
RunningOrQueued(a) == {t \in Task : task[t].agent = a /\ task[t].status \in Live}

RunningOf(a)    == {t \in Task : task[t].agent = a /\ task[t].status \in Active}

Locked(t) == \E s \in Session : claim[s].row = t

HasActiveTaskForIssue(i)  == \E t \in TasksOf(i) : task[t].status \in Live
HasPendingTaskForIssue(i) == PendingRoots(i) # {}
HasPendingTaskForIssueAndAgent(i, a) ==
    \E t \in PendingRoots(i) : task[t].agent = a

-----------------------------------------------------------------------------
\* Statements on rows chosen by their own columns

SetStatus(S, status) ==
    task' = [t \in Task |-> IF t \in S THEN [task[t] EXCEPT !.status = status]
                                       ELSE task[t]]

\* Mutation: an index over the queued roots only.
IndexQueuedOnly(i, parent) ==
    parent # 0 \/ ~\E t \in PendingRoots(i) : task[t].status = "queued"

\* idx_one_pending_root_task_per_issue: the insert of a second pending root fails.
IndexAllows(i, parent) == parent # 0 \/ PendingRoots(i) = {}

IsNextId(t) == ~Exists(t) /\ \A u \in 1 .. t - 1 : Exists(u)

\* Mutation: an insert that leaves out the runtime.
InsertWithoutRuntime(t, a, i, rt, mode, prio, parent) ==
    /\ IsNextId(t)
    /\ IndexAllows(i, parent)
    /\ task' = [task EXCEPT ![t] =
                  [status |-> "queued", agent |-> a, issue |-> i, runtime |-> None,
                   mode |-> mode, priority |-> prio, parent |-> parent]]
    /\ UNCHANGED claim

CreateAgentTask(t, a, i, rt, mode, prio, parent) ==
    /\ IsNextId(t)
    /\ IndexAllows(i, parent)
    /\ task' = [task EXCEPT ![t] =
                  [status |-> "queued", agent |-> a, issue |-> i, runtime |-> rt,
                   mode |-> mode, priority |-> prio, parent |-> parent]]
    /\ UNCHANGED claim

StartAgentTask(t) ==
    /\ task[t].status = "dispatched"
    /\ SetStatus({t}, "running")
    /\ UNCHANGED claim

CompleteAgentTask(t) ==
    /\ task[t].status = "running"
    /\ SetStatus({t}, "completed")
    /\ UNCHANGED claim

\* Mutation: a late failure report that does not look at the status.
FailWhatever(t) ==
    /\ Exists(t)
    /\ SetStatus({t}, "failed")
    /\ UNCHANGED claim

FailAgentTask(t) ==
    /\ task[t].status \in Active
    /\ SetStatus({t}, "failed")
    /\ UNCHANGED claim

CancelTasks(S) ==
    /\ \A t \in S : ~Locked(t)
    /\ SetStatus(S, "cancelled")
    /\ UNCHANGED claim

CancelAgentTask(t) == task[t].status \in Live /\ CancelTasks({t})

\* Mutation: a cancel that stops at the tasks not yet claimed.
CancelQueuedByIssue(i) == CancelTasks({t \in TasksOf(i) : task[t].status = "queued"})

CancelAgentTasksByIssue(i) ==
    CancelTasks({t \in TasksOf(i) : task[t].status \in Live})

CancelAgentTasksByAgent(a) ==
    CancelTasks({t \in Task : task[t].agent = a /\ task[t].status \in Live})

\* Mutation: a sweep that forgets the tasks whose daemon never started them.
FailStaleRunning(S) ==
    /\ S # {} /\ \A t \in S : task[t].status = "running"
    /\ SetStatus(S, "failed")
    /\ UNCHANGED claim

\* S: the active rows past their time limit.  There is no clock in the model, so
\* any active row may be past it.
FailStaleTasks(S) ==
    /\ S # {} /\ \A t \in S : task[t].status \in Active
    /\ SetStatus(S, "failed")
    /\ UNCHANGED claim

\* down: the runtimes whose row says offline.
OrphansOf(down) == {t \in Task : task[t].status \in Active /\ task[t].runtime \in down}

FailTasksForOfflineRuntimes(down) ==
    /\ SetStatus(OrphansOf(down), "failed")
    /\ UNCHANGED claim

-----------------------------------------------------------------------------
\* ClaimAgentTask

\* Mutation: no NOT EXISTS in the claim.
ClaimableAnyway(a) == {t \in Task : task[t].agent = a /\ task[t].status = "queued"}

Claimable(a) ==
    {t \in Task : /\ task[t].agent = a
                  /\ task[t].status = "queued"
                  /\ ActiveOf(task[t].issue) = {}}

\* Mutation: ORDER BY priority ASC.
LowestFirst(t, u) ==
    \/ task[t].priority < task[u].priority
    \/ task[t].priority = task[u].priority /\ t <= u

\* ORDER BY priority DESC, created_at ASC
Before(t, u) ==
    \/ task[t].priority > task[u].priority
    \/ task[t].priority = task[u].priority /\ t <= u

First(t, S) == t \in S /\ \A u \in S : Before(t, u)

\* The statement begins: its snapshot decides which rows qualify.
ClaimSnapshot(s, a) ==
    /\ claim[s] = NoClaim
    /\ claim' = [claim EXCEPT ![s] = [NoClaim EXCEPT !.agent = a, !.seen = Claimable(a)]]
    /\ UNCHANGED task

\* Mutation: no lock on the row chosen.
NotLocking(s) == {t \in claim[s].seen : task[t].status = "queued"}

\* The rows that FOR UPDATE SKIP LOCKED does not pass over: not locked by another
\* claim and still queued when the lock is taken.
Lockable(s) == {t \in claim[s].seen : task[t].status = "queued" /\ ~Locked(t)}

ClaimLock(s, t) ==
    /\ claim[s].row = 0
    /\ First(t, Lockable(s))
    /\ claim' = [claim EXCEPT ![s].row = t]
    /\ UNCHANGED task

ClaimCommit(s) ==
    /\ claim[s].row # 0
    /\ SetStatus({claim[s].row}, "dispatched")
    /\ claim' = [claim EXCEPT ![s] = NoClaim]

ClaimNothing(s) ==
    /\ claim[s].agent # None /\ claim[s].row = 0
    /\ Lockable(s) = {}
    /\ claim' = [claim EXCEPT ![s] = NoClaim]
    /\ UNCHANGED task

\* The client or the connection goes away: the statement rolls back.
ClaimAbort(s) ==
    /\ claim' = [claim EXCEPT ![s] = NoClaim]
    /\ UNCHANGED task

-----------------------------------------------------------------------------
\* A root is queued for any issue; a child under any task of its own issue.
Insert ==
    \E t \in Task, a \in Agent, i \in Issue, rt \in Runtime, m \in Mode,
       p \in Priority, parent \in Task \cup {0} :
        /\ parent # 0 => Exists(parent) /\ task[parent].issue = i
        /\ CreateAgentTask(t, a, i, rt, m, p, parent)

Report ==
    \E t \in Task : StartAgentTask(t) \/ CompleteAgentTask(t) \/ FailAgentTask(t)

Cancel ==
    \/ \E t \in Task : CancelAgentTask(t)
    \/ \E i \in Issue : CancelAgentTasksByIssue(i)
    \/ \E a \in Agent : CancelAgentTasksByAgent(a)

Sweep ==
    \/ \E S \in SUBSET Task : FailStaleTasks(S)
    \/ \E down \in SUBSET Runtime : FailTasksForOfflineRuntimes(down)

Claim ==
    \E s \in Session :
        \/ \E a \in Agent : ClaimSnapshot(s, a)
        \/ \E t \in Task : ClaimLock(s, t)
        \/ ClaimCommit(s) \/ ClaimNothing(s)
        \/ claim[s] # NoClaim /\ ClaimAbort(s)

Next == Insert \/ Report \/ Cancel \/ Sweep \/ Claim

Spec == Init /\ [][Next]_vars

\* The sweeper's ticker never stops, and an active row only grows older until it is
\* past the limit of FailStaleTasks.
FairSpec ==
    /\ Spec
    /\ \A t \in Task :
          WF_vars(\E S \in SUBSET Task : t \in S /\ FailStaleTasks(S))

-----------------------------------------------------------------------------
(* Properties *)

\* The coalescing queue: an issue never has two root tasks waiting to start
\* (migration 042), whatever claims, cancels and sweeps interleave with inserts.
OnePendingRoot ==
    \A i \in Issue : \A t, u \in PendingRoots(i) : t = u

\* An issue never has two root tasks dispatched or running, although the claim
\* statement looks for active rows in a snapshot that may be out of date when it
\* commits: the unique index closes the gap.
OneActiveRoot ==
    \A i \in Issue : \A t, u \in ActiveOf(i) : IsRoot(t) /\ IsRoot(u) => t = u

\* Why a claim may trust its old snapshot.  A locked row is still queued and nobody
\* else holds it; and as long as a root that a claim saw stays queued, it occupies
\* the pending place of its issue, so no other root of the issue becomes active.
LocksHold ==
    \A s \in Session : claim[s].row # 0 =>
        /\ claim[s].row \in claim[s].seen
        /\ task[claim[s].row].status = "queued"
        /\ \A z \in Session : claim[z].row = claim[s].row => z = s

SeenExist == \A s \in Session : \A t \in claim[s].seen : Exists(t)

LaneStaysFree ==
    \A s \in Session : \A t \in claim[s].seen :
        IsRoot(t) /\ task[t].status = "queued" =>
            \A u \in ActiveOf(task[t].issue) : ~IsRoot(u)

ClaimInv == LocksHold /\ SeenExist /\ LaneStaysFree

\* Why a claim keeps to the order.  A claim that saw a task has also seen every
\* earlier task of the same agent and issue that is still queued.
NoGaps == \A u \in Task : Exists(u) => \A t \in 1 .. u - 1 : Exists(t)

SeesEarlier ==
    \A s \in Session : \A u \in claim[s].seen : \A t \in 1 .. u - 1 :
        /\ task[t].status = "queued"
        /\ task[t].agent = task[u].agent /\ task[t].issue = task[u].issue
        => t \in claim[s].seen

OrderInv == NoGaps /\ SeesEarlier

\* ClaimAgentTask's comment (agent.sql:88-91): a task is claimed only when no other
\* task of its issue, fan-out children included, is dispatched or running.
PerIssueSerialization ==
    \A i \in Issue : \A t, u \in ActiveOf(i) : t = u

\* Of two queued tasks of one agent on one issue a claim takes the earlier, unless
\* the later has the higher priority, even when it works from an old snapshot and
\* overlaps inserts, cancels and other claims.  Only a row that another claim has
\* locked may be overtaken.
ClaimedInOrder ==
    [][\A s \in Session, t, u \in Task :
         /\ claim[s].row = 0 /\ claim'[s].row = u
         /\ task[t].status = "queued" /\ ~Locked(t)
         /\ task[t].agent = task[u].agent /\ task[t].issue = task[u].issue
         => ~(task[t].priority >= task[u].priority /\ t < u)]_vars

\* Late reports, cancels and sweeps never revive a finished task, never move a task
\* backwards, and never rewrite whose task it is.
Successors ==
    [absent     |-> {"queued"},
     queued     |-> {"dispatched", "cancelled"},
     dispatched |-> {"running", "failed", "cancelled"},
     running    |-> {"completed", "failed", "cancelled"},
     completed  |-> {}, failed |-> {}, cancelled |-> {}]

StepOK(t) ==
    /\ task'[t].status \in Successors[task[t].status]
    /\ Exists(t) => task'[t] = [task[t] EXCEPT !.status = task'[t].status]

Lifecycle == [][\A t \in Task : task'[t] # task[t] => StepOK(t)]_vars

\* The sweeper leaves no task dispatched or running for ever.
ActiveTasksEnd ==
    \A t \in Task : task[t].status \in Active ~> task[t].status \in Terminal

\* The rows implement one lane per issue: the tables that the inserts, claims,
\* reports, cancels and sweeps change together behave, for root tasks, as if every
\* issue had one place to wait and one place to work.
RootIn(i, statuses) ==
    {t \in TasksOf(i) : IsRoot(t) /\ task[t].status \in statuses}

TheOne(S) == IF S = {} THEN 0 ELSE CHOOSE t \in S : TRUE

Lane == INSTANCE IssueLane WITH
    waiting <- [i \in Issue |-> TheOne(RootIn(i, {"queued"}))],
    working <- [i \in Issue |-> TheOne(RootIn(i, Active))],
    started <- [i \in Issue |-> RootIn(i, {"running"}) # {}],
    entered <- {t \in Task : Exists(t) /\ IsRoot(t)}

ImplementsLane == Lane!LaneSpec

=============================================================================
