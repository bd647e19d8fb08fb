--------------------------- MODULE TaskQueueProofs ---------------------------
(***************************************************************************)
(* Theorems about TaskQueue for every number of tasks, agents, issues,     *)
(* runtimes and sessions.  The inductive invariant is IInv: the two lane   *)
(* properties hold because a root that a claim saw and that is still       *)
(* queued keeps the pending place of its issue occupied (LaneStaysFree),   *)
(* and a claim keeps to the order because it saw every earlier task        *)
(* (SeesEarlier).                                                          *)
(***************************************************************************)
EXTENDS TaskQueue, TLAPS

IInv == TypeOK /\ OnePendingRoot /\ OneActiveRoot /\ ClaimInv /\ OrderInv

\* Every statement that finishes tasks: reports, cancels and sweeps alike.
Ends(S, status) ==
    /\ status \in Terminal
    /\ S \subseteq {t \in Task : task[t].status \in Live /\ ~Locked(t)}
    /\ \A t \in S : status \in Successors[task[t].status]
    /\ SetStatus(S, status)
    /\ UNCHANGED claim

Releases(s) ==
    /\ claim' = [claim EXCEPT ![s] = NoClaim]
    /\ UNCHANGED task

Inserts(t) ==
    \E a \in Agent, i \in Issue, rt \in Runtime, m \in Mode, p \in Priority,
       parent \in Task \cup {0} : CreateAgentTask(t, a, i, rt, m, p, parent)

-----------------------------------------------------------------------------
\* A row that exists is a full row.
LEMMA RowTypes ==
    ASSUME TypeOK, NEW t \in Task
    PROVE  /\ Exists(t) => task[t] \in Row
           /\ ~Exists(t) => task[t] = NoRow
           /\ task[t].status \in Live => task[t] \in Row
           /\ task[t].issue \in Issue => task[t] \in Row
  <1>1. task[t] \in Row \cup {NoRow}
    BY DEF TypeOK
  <1>2. CASE task[t] \in Row
    BY <1>2 DEF Row, Exists, Live, Terminal
  <1>3. CASE task[t] = NoRow
    BY <1>3, TaskQueueAssumption DEF NoRow, Exists, Live
  <1> QED BY <1>1, <1>2, <1>3

\* What SetStatus leaves alone.
LEMMA SetStatusEffect ==
    ASSUME TypeOK, NEW S, NEW status, SetStatus(S, status), S \subseteq Task
    PROVE  /\ task' = [t \in Task |-> IF t \in S
                                      THEN [task[t] EXCEPT !.status = status]
                                      ELSE task[t]]
           /\ \A t \in Task :
                /\ task'[t].agent = task[t].agent
                /\ task'[t].issue = task[t].issue
                /\ task'[t].priority = task[t].priority
                /\ task'[t].parent = task[t].parent
                /\ t \in S => task'[t].status = status
                /\ t \notin S => task'[t] = task[t]
  <1>1. task' = [t \in Task |-> IF t \in S THEN [task[t] EXCEPT !.status = status]
                                           ELSE task[t]]
    BY DEF SetStatus
  <1>2. ASSUME NEW t \in Task
        PROVE  /\ task'[t].agent = task[t].agent
               /\ task'[t].issue = task[t].issue
               /\ task'[t].priority = task[t].priority
               /\ task'[t].parent = task[t].parent
               /\ t \in S => task'[t].status = status
               /\ t \notin S => task'[t] = task[t]
    <2>1. task[t] \in Row \cup {NoRow}
      BY DEF TypeOK
    <2>2. CASE t \in S
      BY <1>1, <2>1, <2>2 DEF Row, NoRow
    <2>3. CASE t \notin S
      BY <1>1, <2>3
    <2> QED BY <2>2, <2>3
  <1> QED BY <1>1, <1>2

LEMMA SetStatusTypes ==
    ASSUME TypeOK, NEW S, NEW status \in Live \cup Terminal, SetStatus(S, status),
           S \subseteq {t \in Task : task[t].status \in Live}
    PROVE  task' \in [Task -> Row \cup {NoRow}]
  <1>1. ASSUME NEW t \in S
        PROVE  [task[t] EXCEPT !.status = status] \in Row
    <2>1. t \in Task /\ task[t] \in Row
      BY RowTypes
    <2> QED BY <2>1 DEF Row
  <1> QED BY <1>1 DEF SetStatus, TypeOK

\* Each step of the queue is one of a few kinds.
LEMMA StepKinds ==
    ASSUME TypeOK, LocksHold, [Next]_vars
    PROVE  \/ \E t \in Task : Inserts(t)
           \/ \E t \in Task : StartAgentTask(t)
           \/ \E S \in SUBSET Task, status \in Terminal : Ends(S, status)
           \/ \E s \in Session, a \in Agent : ClaimSnapshot(s, a)
           \/ \E s \in Session, t \in Task : ClaimLock(s, t)
           \/ \E s \in Session : ClaimCommit(s)
           \/ \E s \in Session : Releases(s)
           \/ UNCHANGED vars
  <1>1. \A t \in Task : task[t].status \in Active => ~Locked(t)
    BY DEF LocksHold, Locked, Active, Task
  <1>2. CASE Insert
    BY <1>2 DEF Insert, Inserts
  <1>3. CASE Report
    <2>1. PICK t \in Task : StartAgentTask(t) \/ CompleteAgentTask(t) \/ FailAgentTask(t)
      BY <1>3 DEF Report
    <2>2. CASE CompleteAgentTask(t)
      <3>1. Ends({t}, "completed")
        BY <1>1, <2>2 DEF CompleteAgentTask, Ends, Terminal, Live, Active, Successors
      <3> QED BY <3>1 DEF Terminal
    <2>3. CASE FailAgentTask(t)
      <3>1. Ends({t}, "failed")
        BY <1>1, <2>3 DEF FailAgentTask, Ends, Terminal, Live, Active, Successors
      <3> QED BY <3>1 DEF Terminal
    <2> QED BY <2>1, <2>2, <2>3
  <1>4. CASE Cancel
    <2>1. ASSUME NEW S \in SUBSET {t \in Task : task[t].status \in Live}, CancelTasks(S)
          PROVE  Ends(S, "cancelled")
      BY <2>1 DEF CancelTasks, Ends, Terminal, Live, Successors
    <2>2. \E S \in SUBSET {t \in Task : task[t].status \in Live} : CancelTasks(S)
      <3>1. CASE \E t \in Task : CancelAgentTask(t)
        BY <3>1 DEF CancelAgentTask
      <3>2. CASE \E i \in Issue : CancelAgentTasksByIssue(i)
        BY <3>2 DEF CancelAgentTasksByIssue, TasksOf
      <3>3. CASE \E a \in Agent : CancelAgentTasksByAgent(a)
        BY <3>3 DEF CancelAgentTasksByAgent
      <3> QED BY <1>4, <3>1, <3>2, <3>3 DEF Cancel
    <2> QED BY <2>1, <2>2 DEF Terminal
  <1>5. CASE Sweep
    <2>1. ASSUME NEW S \in SUBSET {t \in Task : task[t].status \in Active},
                 SetStatus(S, "failed"), UNCHANGED claim
          PROVE  Ends(S, "failed")
      BY <1>1, <2>1 DEF Ends, Terminal, Live, Active, Successors
    <2>2. CASE \E S \in SUBSET Task : FailStaleTasks(S)
      BY <2>1, <2>2 DEF FailStaleTasks, Terminal
    <2>3. CASE \E down \in SUBSET Runtime : FailTasksForOfflineRuntimes(down)
      <3>1. PICK down \in SUBSET Runtime : FailTasksForOfflineRuntimes(down)
        BY <2>3
      <3>2. OrphansOf(down) \in SUBSET {t \in Task : task[t].status \in Active}
        BY DEF OrphansOf
      <3>3. Ends(OrphansOf(down), "failed")
        BY <2>1, <3>1, <3>2 DEF FailTasksForOfflineRuntimes
      <3> QED BY <3>2, <3>3 DEF Terminal
    <2> QED BY <1>5, <2>2, <2>3 DEF Sweep
  <1>6. CASE Claim
    BY <1>6 DEF Claim, ClaimNothing, ClaimAbort, Releases
  <1> QED BY <1>2, <1>3, <1>4, <1>5, <1>6 DEF Next

-----------------------------------------------------------------------------
LEMMA Earlier == \A u \in Task : \A t \in 1 .. u - 1 : t \in Task /\ t < u
  BY TaskQueueAssumption DEF Task

\* An insert adds one queued row and changes no other.
LEMMA InsertPreserves ==
    ASSUME IInv, NEW n \in Task, Inserts(n)
    PROVE  IInv'
  <1> USE DEF IInv
  <1>1. PICK a \in Agent, i \in Issue, rt \in Runtime, m \in Mode, p \in Priority,
             parent \in Task \cup {0} : CreateAgentTask(n, a, i, rt, m, p, parent)
    BY DEF Inserts
  <1>2. /\ task[n].status = "absent"
        /\ \A u \in 1 .. n - 1 : Exists(u)
        /\ IndexAllows(i, parent)
        /\ UNCHANGED claim
    BY <1>1 DEF CreateAgentTask, IsNextId, Exists
  <1>3. /\ task' \in [Task -> Row \cup {NoRow}]
        /\ task'[n].status = "queued" /\ task'[n].issue = i /\ task'[n].parent = parent
        /\ \A u \in Task : u # n => task'[u] = task[u]
    BY <1>1 DEF CreateAgentTask, TypeOK, Row, Live, Terminal
  <1>4. \A s \in Session : \A u \in claim[s].seen : u \in Task /\ u # n
    BY <1>2 DEF ClaimInv, SeenExist, Exists, TypeOK
  <1>5. TypeOK'
    BY <1>2, <1>3 DEF TypeOK
  <1>6. OnePendingRoot'
    <2>1. \A j \in Issue : \A u \in PendingRoots(j)' :
            u = n \/ u \in PendingRoots(j)
      BY <1>3 DEF PendingRoots, TasksOf, IsRoot
    <2>2. ASSUME NEW j \in Issue, n \in PendingRoots(j)'
          PROVE  PendingRoots(j) = {}
      BY <1>2, <1>3, <2>2 DEF PendingRoots, TasksOf, IsRoot, IndexAllows
    <2> QED BY <2>1, <2>2 DEF OnePendingRoot
  <1>7. \A j : ActiveOf(j)' \subseteq ActiveOf(j)
    BY <1>3 DEF ActiveOf, TasksOf, Active
  <1>8. \A j : \A u \in ActiveOf(j) : u \in Task /\ IsRoot(u)' = IsRoot(u)
    BY <1>2, <1>3 DEF ActiveOf, TasksOf, Active, IsRoot
  <1>9. OneActiveRoot'
    BY <1>7, <1>8 DEF OneActiveRoot
  <1>10. LocksHold'
    BY <1>2, <1>3, <1>4 DEF ClaimInv, LocksHold
  <1>11. SeenExist'
    BY <1>2, <1>3, <1>4 DEF ClaimInv, SeenExist, Exists
  <1>12. LaneStaysFree'
    BY <1>2, <1>3, <1>4, <1>7, <1>8 DEF ClaimInv, LaneStaysFree, IsRoot
  <1>13. NoGaps'
    BY <1>2, <1>3, Earlier DEF OrderInv, NoGaps, Exists
  <1>14. SeesEarlier'
    <2>1. \A s \in Session : \A u \in claim[s].seen : \A t \in 1 .. u - 1 :
            t \in Task /\ t # n
      BY <1>2, <1>4, Earlier DEF OrderInv, NoGaps, ClaimInv, SeenExist, Exists
    <2> QED BY <1>2, <1>3, <1>4, <2>1 DEF OrderInv, SeesEarlier
  <1> QED BY <1>5, <1>6, <1>9, <1>10, <1>11, <1>12, <1>13, <1>14 DEF ClaimInv, OrderInv

\* A statement that moves the rows of S forward, none of them to "queued", leaves
\* the order invariant and the snapshots' rows as they were.
LEMMA ForwardKeepsOrder ==
    ASSUME TypeOK, SeenExist, OrderInv,
           NEW S \in SUBSET Task, NEW status \in (Live \cup Terminal) \ {"queued"},
           SetStatus(S, status), \A t \in S : Exists(t), 
           \A s \in Session : claim'[s].seen \subseteq Task 
                              /\ (claim'[s].seen = claim[s].seen \/ claim'[s].seen = {})
    PROVE  SeenExist' /\ OrderInv'
  <1>1. \A t \in Task : /\ task'[t].agent = task[t].agent
                        /\ task'[t].issue = task[t].issue
                        /\ t \in S => task'[t].status = status
                        /\ t \notin S => task'[t] = task[t]
    BY SetStatusEffect
  <1>2. \A t \in Task : Exists(t)' = Exists(t)
    BY <1>1 DEF Exists, Live, Terminal
  <1>3. \A t \in Task : task'[t].status = "queued" => task[t].status = "queued"
    BY <1>1
  <1>4. SeenExist'
    BY <1>2 DEF SeenExist
  <1>5. NoGaps'
    BY <1>2, Earlier DEF OrderInv, NoGaps
  <1>6. SeesEarlier'
    <2>1. \A s \in Session : \A u \in claim'[s].seen : u \in Task
      OBVIOUS
    <2> QED BY <1>1, <1>3, <2>1, Earlier DEF OrderInv, SeesEarlier
  <1> QED BY <1>4, <1>5, <1>6 DEF OrderInv

\* Finishing tasks only empties places in the lanes.
LEMMA EndsPreserves ==
    ASSUME IInv, NEW S \in SUBSET Task, NEW status \in Terminal, Ends(S, status)
    PROVE  IInv'
  <1> USE DEF IInv
  <1>1. /\ S \subseteq {t \in Task : task[t].status \in Live /\ ~Locked(t)}
        /\ SetStatus(S, status)
        /\ claim' = claim
    BY DEF Ends
  <1>2. \A t \in Task : /\ task'[t].issue = task[t].issue
                        /\ task'[t].parent = task[t].parent
                        /\ t \in S => task'[t].status = status
                        /\ t \notin S => task'[t] = task[t]
    BY <1>1, SetStatusEffect
  <1>3. TypeOK'
    BY <1>1, SetStatusTypes DEF TypeOK
  <1>4. /\ \A j : PendingRoots(j)' \subseteq PendingRoots(j)
        /\ \A j : ActiveOf(j)' \subseteq ActiveOf(j)
        /\ \A j : \A u \in ActiveOf(j) : IsRoot(u)' = IsRoot(u)
    BY <1>2 DEF PendingRoots, ActiveOf, TasksOf, IsRoot, Pending, Active, Terminal
  <1>5. OnePendingRoot' /\ OneActiveRoot'
    BY <1>4 DEF OnePendingRoot, OneActiveRoot
  <1>6. \A s \in Session : claim[s].seen \subseteq Task
    BY DEF TypeOK
  <1>7. LocksHold'
    <2>1. \A s \in Session : claim[s].row # 0 => claim[s].row \in Task \ S
      BY <1>1, <1>6 DEF ClaimInv, LocksHold, Locked
    <2> QED BY <1>1, <1>2, <2>1 DEF ClaimInv, LocksHold
  <1>8. LaneStaysFree'
    <2>1. \A t \in Task : /\ task'[t].status = "queued" => task[t].status = "queued"
                          /\ IsRoot(t)' = IsRoot(t)
      BY <1>2 DEF Terminal, IsRoot
    <2> QED BY <1>1, <1>2, <1>4, <1>6, <2>1 DEF ClaimInv, LaneStaysFree
  <1>9. SeenExist' /\ OrderInv'
    <2>1. \A t \in S : Exists(t)
      BY <1>1 DEF Exists, Live
    <2>2. status \in (Live \cup Terminal) \ {"queued"}
      BY DEF Live, Terminal
    <2> QED BY <1>1, <1>6, <2>1, <2>2, ForwardKeepsOrder DEF ClaimInv
  <1> QED BY <1>3, <1>5, <1>7, <1>8, <1>9 DEF ClaimInv

\* Starting a task moves it within the working place of its lane.
LEMMA StartPreserves ==
    ASSUME IInv, NEW t \in Task, StartAgentTask(t)
    PROVE  IInv'
  <1> USE DEF IInv
  <1>1. task[t].status = "dispatched" /\ SetStatus({t}, "running") /\ claim' = claim
    BY DEF StartAgentTask
  <1>2. \A u \in Task : /\ task'[u].issue = task[u].issue
                        /\ task'[u].parent = task[u].parent
                        /\ u = t => task'[u].status = "running"
                        /\ u # t => task'[u] = task[u]
    BY <1>1, SetStatusEffect
  <1>3. TypeOK'
    BY <1>1, SetStatusTypes DEF TypeOK, Live
  <1>4. /\ \A j : PendingRoots(j)' \subseteq PendingRoots(j)
        /\ \A j : ActiveOf(j)' = ActiveOf(j)
        /\ \A u \in Task : IsRoot(u)' = IsRoot(u)
    BY <1>1, <1>2 DEF PendingRoots, ActiveOf, TasksOf, IsRoot, Pending, Active
  <1>5. OnePendingRoot' /\ OneActiveRoot'
    BY <1>4 DEF OnePendingRoot, OneActiveRoot, ActiveOf, TasksOf
  <1>6. \A s \in Session : claim[s].seen \subseteq Task
    BY DEF TypeOK
  <1>7. LocksHold'
    BY <1>1, <1>2, <1>6 DEF ClaimInv, LocksHold
  <1>8. LaneStaysFree'
    BY <1>1, <1>2, <1>4, <1>6 DEF ClaimInv, LaneStaysFree, ActiveOf, TasksOf
  <1>9. SeenExist' /\ OrderInv'
    BY <1>1, <1>6, ForwardKeepsOrder DEF ClaimInv, Exists, Live
  <1> QED BY <1>3, <1>5, <1>7, <1>8, <1>9 DEF ClaimInv

-----------------------------------------------------------------------------
\* The steps of a claim that leave the rows alone: only ClaimInv, SeesEarlier and
\* the type of claim are at stake.
LEMMA SameRows ==
    ASSUME IInv, UNCHANGED task,
           claim' \in [Session -> [agent : Agent \cup {None}, seen : SUBSET Task,
                                   row : Task \cup {0}]],
           ClaimInv', SeesEarlier'
    PROVE  IInv'
  <1>1. TypeOK' /\ OnePendingRoot' /\ OneActiveRoot' /\ NoGaps'
    BY DEF IInv, TypeOK, OnePendingRoot, PendingRoots, OneActiveRoot, ActiveOf, TasksOf,
           IsRoot, OrderInv, NoGaps, Exists
  <1> QED BY <1>1 DEF IInv, OrderInv

LEMMA SnapshotPreserves ==
    ASSUME IInv, NEW s \in Session, NEW a \in Agent, ClaimSnapshot(s, a)
    PROVE  IInv'
  <1> USE DEF IInv
  <1>1. /\ claim' = [claim EXCEPT ![s] = [NoClaim EXCEPT !.agent = a, !.seen = Claimable(a)]]
        /\ task' = task
    BY DEF ClaimSnapshot
  <1>2. Claimable(a) \subseteq Task
    BY DEF Claimable
  <1>3. /\ claim' \in [Session -> [agent : Agent \cup {None}, seen : SUBSET Task,
                                   row : Task \cup {0}]]
        /\ claim'[s].seen = Claimable(a) /\ claim'[s].row = 0
        /\ \A z \in Session : z # s => claim'[z] = claim[z]
    BY <1>1, <1>2 DEF TypeOK, NoClaim
  <1>4. LocksHold'
    BY <1>1, <1>3 DEF ClaimInv, LocksHold
  <1>5. SeenExist'
    BY <1>1, <1>3 DEF ClaimInv, SeenExist, Claimable, Exists
  <1>6. LaneStaysFree'
    <2>1. \A t \in Claimable(a) : ActiveOf(task[t].issue) = {}
      BY DEF Claimable
    <2>2. \A j : ActiveOf(j)' = ActiveOf(j)
      BY <1>1 DEF ActiveOf, TasksOf
    <2> QED BY <1>1, <1>3, <2>1, <2>2 DEF ClaimInv, LaneStaysFree, IsRoot
  <1>7. SeesEarlier'
    <2>1. \A u \in Claimable(a) : \A t \in 1 .. u - 1 :
            task[t].status = "queued" /\ task[t].agent = task[u].agent
              /\ task[t].issue = task[u].issue => t \in Claimable(a)
      BY Earlier DEF Claimable
    <2> QED BY <1>1, <1>3, <2>1 DEF OrderInv, SeesEarlier
  <1> QED BY <1>1, <1>3, <1>4, <1>5, <1>6, <1>7, SameRows DEF ClaimInv

LEMMA LockPreserves ==
    ASSUME IInv, NEW s \in Session, NEW t \in Task, ClaimLock(s, t)
    PROVE  IInv'
  <1> USE DEF IInv
  <1>1. /\ claim' = [claim EXCEPT ![s].row = t]
        /\ task' = task
        /\ t \in claim[s].seen /\ task[t].status = "queued" /\ ~Locked(t)
    BY DEF ClaimLock, First, Lockable
  <1>2. /\ claim' \in [Session -> [agent : Agent \cup {None}, seen : SUBSET Task,
                                   row : Task \cup {0}]]
        /\ \A z \in Session : claim'[z].seen = claim[z].seen
        /\ claim'[s].row = t
        /\ \A z \in Session : z # s => claim'[z] = claim[z]
    BY <1>1 DEF TypeOK
  <1>3. ClaimInv'
    <2>1. LocksHold'
      BY <1>1, <1>2 DEF ClaimInv, LocksHold, Locked
    <2>2. SeenExist'
      BY <1>1, <1>2 DEF ClaimInv, SeenExist, Exists
    <2>3. LaneStaysFree'
      BY <1>1, <1>2 DEF ClaimInv, LaneStaysFree, ActiveOf, TasksOf, IsRoot
    <2> QED BY <2>1, <2>2, <2>3 DEF ClaimInv
  <1>4. SeesEarlier'
    BY <1>1, <1>2 DEF OrderInv, SeesEarlier
  <1> QED BY <1>1, <1>2, <1>3, <1>4, SameRows

LEMMA ReleasePreserves ==
    ASSUME IInv, NEW s \in Session, Releases(s)
    PROVE  IInv'
  <1> USE DEF IInv
  <1>1. /\ claim' \in [Session -> [agent : Agent \cup {None}, seen : SUBSET Task,
                                   row : Task \cup {0}]]
        /\ task' = task
        /\ claim'[s].seen = {} /\ claim'[s].row = 0
        /\ \A z \in Session : z # s => claim'[z] = claim[z]
    BY DEF Releases, TypeOK, NoClaim
  <1>2. ClaimInv'
    BY <1>1 DEF ClaimInv, LocksHold, SeenExist, LaneStaysFree, ActiveOf, TasksOf,
                IsRoot, Exists
  <1>3. SeesEarlier'
    BY <1>1 DEF OrderInv, SeesEarlier
  <1> QED BY <1>1, <1>2, <1>3, SameRows

\* The commit of a claim.  Its row was locked, so it is still queued; were it a root,
\* every other root of the issue is neither pending (it holds that place itself) nor
\* active (LaneStaysFree).
LEMMA CommitPreserves ==
    ASSUME IInv, NEW s \in Session, ClaimCommit(s)
    PROVE  IInv'
  <1> USE DEF IInv
  <1> DEFINE t == claim[s].row
  <1>1. /\ t \in Task /\ t \in claim[s].seen
        /\ task[t].status = "queued"
        /\ \A z \in Session : claim[z].row = t => z = s
    BY DEF ClaimCommit, ClaimInv, LocksHold, TypeOK
  <1>2. SetStatus({t}, "dispatched") /\ claim' = [claim EXCEPT ![s] = NoClaim]
    BY DEF ClaimCommit
  <1> HIDE DEF t
  <1>3. \A u \in Task : /\ task'[u].issue = task[u].issue
                        /\ task'[u].parent = task[u].parent
                        /\ IsRoot(u)' = IsRoot(u)
                        /\ u = t => task'[u].status = "dispatched"
                        /\ u # t => task'[u] = task[u]
    BY <1>1, <1>2, SetStatusEffect DEF IsRoot
  <1>4. /\ claim' \in [Session -> [agent : Agent \cup {None}, seen : SUBSET Task,
                                   row : Task \cup {0}]]
        /\ claim'[s].seen = {} /\ claim'[s].row = 0
        /\ \A z \in Session : z # s => claim'[z] = claim[z]
    BY <1>2 DEF TypeOK, NoClaim
  <1>5. TypeOK'
    BY <1>1, <1>2, <1>4, SetStatusTypes DEF TypeOK, Live
  <1>6. /\ \A j : PendingRoots(j)' = PendingRoots(j)
        /\ \A j : ActiveOf(j)' \subseteq ActiveOf(j) \cup {t}
    BY <1>1, <1>3 DEF PendingRoots, ActiveOf, TasksOf, Pending, Active
  <1>7. OnePendingRoot'
    BY <1>6 DEF OnePendingRoot
  <1>8. IsRoot(t) => \A u \in ActiveOf(task[t].issue) : ~IsRoot(u)
    BY <1>1 DEF ClaimInv, LaneStaysFree
  <1>9. OneActiveRoot'
    <2> SUFFICES ASSUME NEW j \in Issue, NEW u \in ActiveOf(j)', NEW v \in ActiveOf(j)',
                        IsRoot(u)', IsRoot(v)'
                 PROVE  u = v
      BY DEF OneActiveRoot
    <2>1. u \in Task /\ v \in Task /\ IsRoot(u) /\ IsRoot(v)
      BY <1>3 DEF ActiveOf, TasksOf
    <2>2. t \in ActiveOf(j)' => task[t].issue = j
      BY <1>1, <1>3 DEF ActiveOf, TasksOf
    <2> QED BY <1>6, <1>8, <2>1, <2>2 DEF OneActiveRoot
  <1>10. LocksHold'
    <2>1. \A z \in Session : z # s /\ claim[z].row # 0 => claim[z].row \in Task \ {t}
      BY <1>1 DEF TypeOK
    <2> QED BY <1>3, <1>4, <2>1 DEF ClaimInv, LocksHold
  <1>11. LaneStaysFree'
    <2> SUFFICES ASSUME NEW z \in Session, NEW w \in claim'[z].seen, IsRoot(w)',
                        task'[w].status = "queued",
                        NEW u \in ActiveOf(task[w].issue)', IsRoot(u)'
                 PROVE  FALSE
      BY DEF LaneStaysFree
    <2>1. /\ w \in Task /\ w \in claim[z].seen /\ w # t
          /\ IsRoot(w) /\ task[w].status = "queued"
      BY <1>3, <1>4 DEF TypeOK
    <2>2. u \in Task /\ IsRoot(u)
      BY <1>3 DEF ActiveOf, TasksOf
    <2>3. \A x \in ActiveOf(task[w].issue) : ~IsRoot(x)
      BY <2>1 DEF ClaimInv, LaneStaysFree
    <2>4. u = t /\ task[t].issue = task[w].issue
      <3>1. task'[w].issue = task[w].issue /\ task'[u].issue = task[w].issue
        BY <1>3, <2>1 DEF ActiveOf, TasksOf
      <3>2. u \in ActiveOf(task[w].issue) \cup {t}
        BY <1>6, <3>1
      <3> QED BY <1>3, <2>2, <2>3, <3>1, <3>2
    <2>5. task[w].issue \in Issue
      BY <2>1, RowTypes DEF Live, Row
    <2>6. t \in PendingRoots(task[w].issue) /\ w \in PendingRoots(task[w].issue)
      BY <1>1, <2>1, <2>2, <2>4 DEF PendingRoots, TasksOf, Pending
    <2> QED BY <2>1, <2>5, <2>6 DEF OnePendingRoot
  <1>12. SeenExist' /\ OrderInv'
    <2>1. \A z \in Session : claim'[z].seen \subseteq Task
                             /\ (claim'[z].seen = claim[z].seen \/ claim'[z].seen = {})
      BY <1>4
    <2> QED BY <1>1, <1>2, <2>1, ForwardKeepsOrder DEF ClaimInv, Exists, Live
  <1> QED BY <1>5, <1>7, <1>9, <1>10, <1>11, <1>12 DEF ClaimInv

-----------------------------------------------------------------------------
LEMMA InitEstablishes == Init => IInv
  <1> SUFFICES ASSUME Init PROVE IInv
    OBVIOUS
  <1>1. /\ \A t \in Task : task[t] = NoRow
        /\ \A s \in Session : claim[s] = NoClaim
    BY DEF Init
  <1>2. TypeOK
    BY DEF Init, TypeOK, NoClaim
  <1>3. OnePendingRoot /\ OneActiveRoot
    BY <1>1 DEF OnePendingRoot, OneActiveRoot, PendingRoots, ActiveOf, TasksOf, NoRow,
                Pending, Active
  <1>4. ClaimInv /\ OrderInv
    BY <1>1 DEF ClaimInv, LocksHold, SeenExist, LaneStaysFree, OrderInv, NoGaps,
                SeesEarlier, NoClaim, NoRow, Exists
  <1> QED BY <1>2, <1>3, <1>4 DEF IInv

LEMMA NextPreserves == IInv /\ [Next]_vars => IInv'
  <1> SUFFICES ASSUME IInv, [Next]_vars PROVE IInv'
    OBVIOUS
  <1>1. CASE UNCHANGED vars
    BY <1>1 DEF vars, IInv, TypeOK, OnePendingRoot, PendingRoots, OneActiveRoot, ActiveOf,
                TasksOf, IsRoot, ClaimInv, LocksHold, SeenExist, LaneStaysFree, OrderInv,
                NoGaps, SeesEarlier, Exists
  <1>2. CASE \E t \in Task : Inserts(t)
    BY <1>2, InsertPreserves
  <1>3. CASE \E t \in Task : StartAgentTask(t)
    BY <1>3, StartPreserves
  <1>4. CASE \E S \in SUBSET Task, status \in Terminal : Ends(S, status)
    BY <1>4, EndsPreserves
  <1>5. CASE \E s \in Session, a \in Agent : ClaimSnapshot(s, a)
    BY <1>5, SnapshotPreserves
  <1>6. CASE \E s \in Session, t \in Task : ClaimLock(s, t)
    BY <1>6, LockPreserves
  <1>7. CASE \E s \in Session : ClaimCommit(s)
    BY <1>7, CommitPreserves
  <1>8. CASE \E s \in Session : Releases(s)
    BY <1>8, ReleasePreserves
  <1> QED BY StepKinds, <1>1, <1>2, <1>3, <1>4, <1>5, <1>6, <1>7, <1>8 DEF IInv, ClaimInv

LEMMA IInvHolds == Spec => []IInv
  BY InitEstablishes, NextPreserves, PTL DEF Spec

\* Every reachable state of the table and of the claims in progress is well formed.
THEOREM TypeCorrect == Spec => []TypeOK
  BY IInvHolds, PTL DEF IInv

\* The coalescing queue: never two root tasks of one issue waiting to start.
THEOREM PendingRootIsUnique == Spec => []OnePendingRoot
  BY IInvHolds, PTL DEF IInv

\* Never two root tasks of one issue dispatched or running, although ClaimAgentTask
\* decides on a snapshot.
THEOREM ActiveRootIsUnique == Spec => []OneActiveRoot
  BY IInvHolds, PTL DEF IInv

\* What claims in progress may rely on.
THEOREM SnapshotsAreSafe == Spec => [](ClaimInv /\ OrderInv)
  BY IInvHolds, PTL DEF IInv

-----------------------------------------------------------------------------
LEMMA StepsAreOK ==
    IInv /\ [Next]_vars => [\A t \in Task : task'[t] # task[t] => StepOK(t)]_vars
  <1> SUFFICES ASSUME IInv, [Next]_vars, NEW t \in Task, task'[t] # task[t]
               PROVE  StepOK(t)
    BY DEF vars
  <1>1. TypeOK /\ LocksHold
    BY DEF IInv, ClaimInv
  <1>2. ASSUME NEW S \in SUBSET Task, NEW status, SetStatus(S, status),
               \A u \in S : status \in Successors[task[u].status]
        PROVE  StepOK(t)
    <2>1. /\ t \in S
          /\ task'[t].status = status
          /\ task'[t] = [task[t] EXCEPT !.status = status]
      BY <1>1, <1>2, SetStatusEffect
    <2> QED BY <1>2, <2>1 DEF StepOK
  <1>3. CASE \E n \in Task : Inserts(n)
    <2>1. PICK n \in Task : Inserts(n)
      BY <1>3
    <2>2. task[n].status = "absent" /\ task'[n].status = "queued"
      BY <1>1, <2>1 DEF Inserts, CreateAgentTask, IsNextId, Exists, TypeOK
    <2>3. t = n
      BY <1>1, <2>1 DEF Inserts, CreateAgentTask, TypeOK
    <2> QED BY <2>2, <2>3 DEF StepOK, Successors, Exists
  <1>4. CASE \E u \in Task : StartAgentTask(u)
    BY <1>2, <1>4 DEF StartAgentTask, Successors
  <1>5. CASE \E S \in SUBSET Task, status \in Terminal : Ends(S, status)
    BY <1>2, <1>5 DEF Ends
  <1>6. CASE \E s \in Session : ClaimCommit(s)
    <2>1. PICK s \in Session : ClaimCommit(s)
      BY <1>6
    <2>2. task[claim[s].row].status = "queued" /\ claim[s].row \in Task
      BY <1>1, <2>1 DEF LocksHold, ClaimCommit, TypeOK
    <2> QED BY <1>2, <2>1, <2>2 DEF ClaimCommit, Successors
  <1>7. CASE UNCHANGED task
    BY <1>7
  <1> QED BY <1>1, <1>3, <1>4, <1>5, <1>6, <1>7, StepKinds
          DEF ClaimSnapshot, ClaimLock, Releases, vars

\* A finished task stays as it is, and a task only ever moves forward.
THEOREM LifecycleHolds == Spec => Lifecycle
  BY IInvHolds, StepsAreOK, PTL DEF Spec, Lifecycle

LEMMA ClaimsKeepOrder ==
    ASSUME IInv, [Next]_vars, NEW s \in Session, NEW t \in Task, NEW u \in Task,
           claim[s].row = 0, claim'[s].row = u,
           task[t].status = "queued", ~Locked(t),
           task[t].agent = task[u].agent, task[t].issue = task[u].issue,
           task[t].priority >= task[u].priority, t < u
    PROVE  FALSE
  <1>1. TypeOK /\ LocksHold /\ SeesEarlier
    BY DEF IInv, ClaimInv, OrderInv
  <1>2. u # 0
    BY TaskQueueAssumption DEF Task
  <1>3. ASSUME NEW z \in Session, NEW w \in Task, ClaimLock(z, w) PROVE FALSE
    <2>1. z = s /\ w = u
      BY <1>1, <1>2, <1>3 DEF ClaimLock, TypeOK
    <2>2. /\ u \in claim[s].seen /\ task[u].status = "queued"
          /\ \A v \in Lockable(s) : Before(u, v)
      BY <1>3, <2>1 DEF ClaimLock, First, Lockable
    <2>3. t \in 1 .. u - 1
      BY TaskQueueAssumption DEF Task
    <2>4. t \in Lockable(s)
      BY <1>1, <2>2, <2>3 DEF SeesEarlier, Lockable
    <2>5. task[t].priority \in Nat /\ task[u].priority \in Nat
      BY <1>1, <2>2, RowTypes, TaskQueueAssumption DEF Live, Row
    <2> QED BY <2>2, <2>4, <2>5, TaskQueueAssumption DEF Before, Task
  <1>4. ASSUME NEW z \in Session, claim' = [claim EXCEPT ![z] = NoClaim] PROVE FALSE
    BY <1>1, <1>2, <1>4 DEF TypeOK, NoClaim
  <1>5. ASSUME NEW z \in Session, NEW a \in Agent, ClaimSnapshot(z, a) PROVE FALSE
    BY <1>1, <1>2, <1>5 DEF ClaimSnapshot, TypeOK, NoClaim
  <1>6. CASE UNCHANGED claim
    BY <1>2, <1>6
  <1> QED BY <1>1, <1>3, <1>4, <1>5, <1>6, StepKinds
          DEF Inserts, CreateAgentTask, StartAgentTask, Ends, ClaimCommit, Releases, vars

\* Claims take the tasks of an agent on an issue in order of priority and age.
THEOREM ClaimedInOrderHolds == Spec => ClaimedInOrder
  <1>1. IInv /\ [Next]_vars =>
          [\A s \in Session, t, u \in Task :
             /\ claim[s].row = 0 /\ claim'[s].row = u
             /\ task[t].status = "queued" /\ ~Locked(t)
             /\ task[t].agent = task[u].agent /\ task[t].issue = task[u].issue
             => ~(task[t].priority >= task[u].priority /\ t < u)]_vars
    BY ClaimsKeepOrder
  <1> QED BY <1>1, IInvHolds, PTL DEF Spec, ClaimedInOrder

-----------------------------------------------------------------------------
(* The rows implement IssueLane: every step of TaskQueue is a step of the  *)
(* lanes, or leaves them alone.  Fan-out children and the claims' locks    *)
(* are the stuttering steps.                                               *)

\* The four variables of IssueLane, as TaskQueue's refinement mapping gives them.
Waiting == [i \in Issue |-> TheOne(RootIn(i, {"queued"}))]
Working == [i \in Issue |-> TheOne(RootIn(i, Active))]
Started == [i \in Issue |-> RootIn(i, {"running"}) # {}]
Entered == {t \in Task : Exists(t) /\ IsRoot(t)}

LEMMA TheOneOf ==
    ASSUME NEW S, NEW t \in S, \A u \in S : u = t
    PROVE  TheOne(S) = t
  <1>1. S # {}
    OBVIOUS
  <1>2. (CHOOSE u \in S : TRUE) \in S
    BY <1>1
  <1> QED BY <1>1, <1>2 DEF TheOne

LEMMA TheOneNone == TheOne({}) = 0
  BY DEF TheOne

\* The places of a lane hold one task each, and only tasks.
LEMMA OnePlace ==
    ASSUME IInv, NEW i \in Issue
    PROVE  /\ \A t, u \in RootIn(i, {"queued"}) : t = u
           /\ \A t, u \in RootIn(i, Active) : t = u
           /\ RootIn(i, {"running"}) \subseteq RootIn(i, Active)
           /\ RootIn(i, {"queued"}) \subseteq Task /\ RootIn(i, Active) \subseteq Task
           /\ 0 \notin Task
  <1>1. RootIn(i, {"queued"}) \subseteq PendingRoots(i)
    BY DEF RootIn, PendingRoots, Pending
  <1>2. \A t \in RootIn(i, Active) : t \in ActiveOf(i) /\ IsRoot(t)
    BY DEF RootIn, ActiveOf
  <1>3. \A t, u \in RootIn(i, Active) : t = u
    BY <1>2 DEF IInv, OneActiveRoot
  <1>4. RootIn(i, {"running"}) \subseteq RootIn(i, Active)
    BY DEF RootIn, Active
  <1> QED BY <1>1, <1>3, <1>4, TaskQueueAssumption
          DEF IInv, OnePendingRoot, RootIn, TasksOf, Task

\* A step that leaves the root rows of every issue in place leaves the lanes alone.
LEMMA LanesAlone ==
    ASSUME \A i \in Issue : /\ RootIn(i, {"queued"})' = RootIn(i, {"queued"})
                            /\ RootIn(i, Active)' = RootIn(i, Active)
                            /\ RootIn(i, {"running"})' = RootIn(i, {"running"}),
           Entered' = Entered
    PROVE  UNCHANGED Lane!laneVars
  BY DEF Lane!laneVars, Entered

LEMMA SetStatusKeepsEntered ==
    ASSUME TypeOK, NEW S \in SUBSET Task, NEW status \in Live \cup Terminal,
           SetStatus(S, status), \A t \in S : Exists(t)
    PROVE  Entered' = Entered
  <1>1. \A t \in Task : Exists(t)' = Exists(t) /\ IsRoot(t)' = IsRoot(t)
    BY SetStatusEffect DEF Exists, IsRoot, Live, Terminal
  <1> QED BY <1>1 DEF Entered

-----------------------------------------------------------------------------
\* A new root enters its lane at the back; a child enters none.
LEMMA InsertEnters ==
    ASSUME IInv, NEW n \in Task, Inserts(n)
    PROVE  [Lane!LaneNext]_Lane!laneVars
  <1>1. PICK a \in Agent, i \in Issue, rt \in Runtime, m \in Mode, p \in Priority,
             parent \in Task \cup {0} : CreateAgentTask(n, a, i, rt, m, p, parent)
    BY DEF Inserts
  <1>2. /\ ~Exists(n) /\ n \notin Entered
        /\ IndexAllows(i, parent)
        /\ task'[n].status = "queued" /\ task'[n].issue = i /\ task'[n].parent = parent
        /\ \A u \in Task : u # n => task'[u] = task[u]
    BY <1>1 DEF CreateAgentTask, IsNextId, IInv, TypeOK, Entered
  <1>3. /\ \A j : RootIn(j, Active)' = RootIn(j, Active)
        /\ \A j : RootIn(j, {"running"})' = RootIn(j, {"running"})
    BY <1>2 DEF RootIn, TasksOf, IsRoot, Active, Exists
  <1>4. \A j : RootIn(j, {"queued"})' =
            RootIn(j, {"queued"}) \cup (IF j = i /\ parent = 0 THEN {n} ELSE {})
    BY <1>2 DEF RootIn, TasksOf, IsRoot, Exists
  <1>5. Entered' = Entered \cup (IF parent = 0 THEN {n} ELSE {})
    BY <1>2 DEF Entered, Exists, IsRoot
  <1>6. CASE parent # 0
    BY <1>3, <1>4, <1>5, <1>6, LanesAlone
  <1>7. CASE parent = 0
    <2>1. PendingRoots(i) = {}
      BY <1>2, <1>7 DEF IndexAllows
    <2>2. RootIn(i, {"queued"}) = {}
      BY <2>1 DEF RootIn, PendingRoots, Pending
    <2>3. RootIn(i, Active) \subseteq RootIn(i, {"running"})
      BY <2>1 DEF RootIn, PendingRoots, Pending, Active
    <2>4. Waiting[i] = 0 /\ (Working[i] = 0 \/ Started[i])
      BY <2>2, <2>3, TheOneNone DEF Waiting, Working, Started
    <2>5. TheOne({n}) = n
      BY TheOneOf
    <2>6. Waiting' = [Waiting EXCEPT ![i] = n]
      BY <1>4, <1>7, <2>2, <2>5 DEF Waiting
    <2>7. Entered' = Entered \cup {n} /\ Working' = Working /\ Started' = Started
      BY <1>3, <1>5, <1>7 DEF Working, Started
    <2>8. Lane!Enter(i, n)
      BY <1>2, <2>4, <2>6, <2>7 DEF Lane!Enter, Waiting, Working, Started, Entered
    <2> QED BY <2>8 DEF Lane!LaneNext, Lane!Ticket, Task
  <1> QED BY <1>6, <1>7

\* The worker of a lane reports that it runs.
LEMMA StartBegins ==
    ASSUME IInv, NEW t \in Task, StartAgentTask(t)
    PROVE  [Lane!LaneNext]_Lane!laneVars
  <1> DEFINE i == task[t].issue
  <1>1. TypeOK /\ task[t].status = "dispatched" /\ SetStatus({t}, "running")
    BY DEF StartAgentTask, IInv
  <1>2. \A u \in Task : /\ task'[u].issue = task[u].issue
                        /\ task'[u].parent = task[u].parent
                        /\ u = t => task'[u].status = "running"
                        /\ u # t => task'[u] = task[u]
    BY <1>1, SetStatusEffect
  <1>3. Entered' = Entered
    BY <1>1, SetStatusKeepsEntered DEF Live, Exists
  <1>4. i \in Issue
    BY <1>1, RowTypes DEF Live, Row
  <1> HIDE DEF i
  <1>5. /\ \A j : RootIn(j, Active)' = RootIn(j, Active)
        /\ \A j : RootIn(j, {"queued"})' = RootIn(j, {"queued"})
    BY <1>1, <1>2 DEF RootIn, TasksOf, IsRoot, Active
  <1>6. \A j : RootIn(j, {"running"})' =
            RootIn(j, {"running"}) \cup (IF j = i /\ IsRoot(t) THEN {t} ELSE {})
    BY <1>1, <1>2 DEF RootIn, TasksOf, IsRoot, i
  <1>7. CASE ~IsRoot(t)
    BY <1>3, <1>5, <1>6, <1>7, LanesAlone
  <1>8. CASE IsRoot(t)
    <2>1. t \in RootIn(i, Active) /\ t \notin RootIn(i, {"running"})
      BY <1>1, <1>8 DEF RootIn, TasksOf, Active, i
    <2>2. TheOne(RootIn(i, Active)) = t /\ RootIn(i, {"running"}) = {} /\ t # 0
      BY <1>4, <2>1, OnePlace, TheOneOf
    <2>3. Working[i] # 0 /\ ~Started[i]
      BY <1>4, <2>2 DEF Working, Started
    <2>4. Started' = [Started EXCEPT ![i] = TRUE]
      BY <1>4, <1>6, <1>8 DEF Started
    <2>5. Waiting' = Waiting /\ Working' = Working
      BY <1>5 DEF Waiting, Working
    <2>6. Lane!Begin(i)
      BY <1>3, <2>3, <2>4, <2>5 DEF Lane!Begin, Waiting, Working, Started, Entered
    <2> QED BY <1>4, <2>6 DEF Lane!LaneNext
  <1> QED BY <1>7, <1>8

\* Tasks that end leave the places they held.
LEMMA EndsLeave ==
    ASSUME IInv, NEW S \in SUBSET Task, NEW status \in Terminal, Ends(S, status)
    PROVE  [Lane!LaneNext]_Lane!laneVars
  <1> DEFINE W == {i \in Issue : RootIn(i, {"queued"}) \cap S # {}}
             K == {i \in Issue : RootIn(i, Active) \cap S # {}}
  <1>1. TypeOK /\ SetStatus(S, status) /\ \A t \in S : task[t].status \in Live
    BY DEF Ends, IInv
  <1>2. \A u \in Task : /\ task'[u].issue = task[u].issue
                        /\ task'[u].parent = task[u].parent
                        /\ u \in S => task'[u].status = status
                        /\ u \notin S => task'[u] = task[u]
    BY <1>1, SetStatusEffect
  <1>3. Entered' = Entered
    BY <1>1, SetStatusKeepsEntered DEF Live, Exists
  <1>4. /\ \A j : RootIn(j, {"queued"})' = RootIn(j, {"queued"}) \ S
        /\ \A j : RootIn(j, Active)' = RootIn(j, Active) \ S
        /\ \A j : RootIn(j, {"running"})' = RootIn(j, {"running"}) \ S
    BY <1>2 DEF RootIn, TasksOf, IsRoot, Active, Terminal
  <1>5. Waiting' = [i \in Issue |-> IF i \in W THEN 0 ELSE Waiting[i]]
    <2>1. ASSUME NEW i \in Issue
          PROVE  TheOne(RootIn(i, {"queued"}) \ S) =
                   IF i \in W THEN 0 ELSE TheOne(RootIn(i, {"queued"}))
      <3>1. CASE i \in W
        <4>1. RootIn(i, {"queued"}) \ S = {}
          BY <3>1, OnePlace
        <4> QED BY <3>1, <4>1, TheOneNone
      <3>2. CASE i \notin W
        <4>1. RootIn(i, {"queued"}) \ S = RootIn(i, {"queued"})
          BY <3>2
        <4> QED BY <3>2, <4>1
      <3> QED BY <3>1, <3>2
    <2> QED BY <1>4, <2>1 DEF Waiting
  <1>6. Working' = [i \in Issue |-> IF i \in K THEN 0 ELSE Working[i]]
    <2>1. ASSUME NEW i \in Issue
          PROVE  TheOne(RootIn(i, Active) \ S) =
                   IF i \in K THEN 0 ELSE TheOne(RootIn(i, Active))
      <3>1. CASE i \in K
        <4>1. RootIn(i, Active) \ S = {}
          BY <3>1, OnePlace
        <4> QED BY <3>1, <4>1, TheOneNone
      <3>2. CASE i \notin K
        <4>1. RootIn(i, Active) \ S = RootIn(i, Active)
          BY <3>2
        <4> QED BY <3>2, <4>1
      <3> QED BY <3>1, <3>2
    <2> QED BY <1>4, <2>1 DEF Working
  <1>7. Started' = [i \in Issue |-> Started[i] /\ i \notin K]
    <2>1. ASSUME NEW i \in Issue
          PROVE  RootIn(i, {"running"}) \ S # {} <=>
                   RootIn(i, {"running"}) # {} /\ i \notin K
      BY OnePlace
    <2> QED BY <1>4, <2>1 DEF Started
  <1>8. W \in SUBSET Issue /\ K \in SUBSET Issue
    OBVIOUS
  <1> HIDE DEF W, K
  <1>9. Lane!Leave(W, K)
    BY <1>3, <1>5, <1>6, <1>7 DEF Lane!Leave, Waiting, Working, Started, Entered
  <1> QED BY <1>8, <1>9 DEF Lane!LaneNext

\* A claim that commits moves a root from the waiting place to the working place.
LEMMA CommitDispatches ==
    ASSUME IInv, NEW s \in Session, ClaimCommit(s)
    PROVE  [Lane!LaneNext]_Lane!laneVars
  <1> DEFINE t == claim[s].row
             i == task[t].issue
  <1>1. /\ TypeOK
        /\ t \in Task /\ t \in claim[s].seen /\ task[t].status = "queued"
        /\ SetStatus({t}, "dispatched")
    BY DEF ClaimCommit, IInv, ClaimInv, LocksHold, TypeOK
  <1> HIDE DEF t
  <1>2. \A u \in Task : /\ task'[u].issue = task[u].issue
                        /\ task'[u].parent = task[u].parent
                        /\ u = t => task'[u].status = "dispatched"
                        /\ u # t => task'[u] = task[u]
    BY <1>1, SetStatusEffect
  <1>3. Entered' = Entered
    BY <1>1, SetStatusKeepsEntered DEF Live, Exists
  <1>4. i \in Issue
    BY <1>1, RowTypes DEF Live, Row
  <1>5. IsRoot(t) => RootIn(i, Active) = {}
    BY <1>1 DEF IInv, ClaimInv, LaneStaysFree, RootIn, ActiveOf
  <1> HIDE DEF i
  <1>6. /\ \A j : RootIn(j, {"running"})' = RootIn(j, {"running"})
        /\ \A j : RootIn(j, {"queued"})' = RootIn(j, {"queued"}) \ {t}
        /\ \A j : RootIn(j, Active)' =
              RootIn(j, Active) \cup (IF j = i /\ IsRoot(t) THEN {t} ELSE {})
    BY <1>1, <1>2 DEF RootIn, TasksOf, IsRoot, Active, i
  <1>7. CASE ~IsRoot(t)
    <2>1. \A j : t \notin RootIn(j, {"queued"})
      BY <1>7 DEF RootIn
    <2> QED BY <1>3, <1>6, <1>7, <2>1, LanesAlone
  <1>8. CASE IsRoot(t)
    <2>1. t \in RootIn(i, {"queued"}) /\ \A j : j # i => t \notin RootIn(j, {"queued"})
      BY <1>1, <1>8 DEF RootIn, TasksOf, i
    <2>2. /\ TheOne(RootIn(i, {"queued"})) = t
          /\ RootIn(i, {"queued"}) \ {t} = {}
          /\ t # 0
      BY <1>4, <2>1, OnePlace, TheOneOf
    <2>3. Waiting[i] = t /\ Working[i] = 0
      BY <1>4, <1>5, <1>8, <2>2, TheOneNone DEF Waiting, Working
    <2>4. Waiting' = [Waiting EXCEPT ![i] = 0]
      <3>1. \A j \in Issue : TheOne(RootIn(j, {"queued"}) \ {t}) =
              IF j = i THEN 0 ELSE TheOne(RootIn(j, {"queued"}))
        <4>1. \A j \in Issue : j # i =>
                RootIn(j, {"queued"}) \ {t} = RootIn(j, {"queued"})
          BY <2>1
        <4> QED BY <2>2, <4>1, TheOneNone
      <3> QED BY <1>6, <3>1 DEF Waiting
    <2>5. Working' = [Working EXCEPT ![i] = Waiting[i]]
      <3>1. \A j \in Issue :
              TheOne(RootIn(j, Active) \cup (IF j = i /\ IsRoot(t) THEN {t} ELSE {})) =
                IF j = i THEN t ELSE TheOne(RootIn(j, Active))
        <4>1. TheOne({t}) = t
          BY TheOneOf
        <4>2. RootIn(i, Active) \cup {t} = {t}
          BY <1>5, <1>8
        <4>3. \A j : RootIn(j, Active) \cup {} = RootIn(j, Active)
          OBVIOUS
        <4> QED BY <1>8, <4>1, <4>2, <4>3
      <3> QED BY <1>6, <2>3, <3>1 DEF Working
    <2>6. Started' = Started
      BY <1>6 DEF Started
    <2>7. Lane!Dispatch(i)
      BY <1>3, <2>2, <2>3, <2>4, <2>5, <2>6
         DEF Lane!Dispatch, Waiting, Working, Started, Entered
    <2> QED BY <1>4, <2>7 DEF Lane!LaneNext
  <1> QED BY <1>7, <1>8

-----------------------------------------------------------------------------
LEMMA LaneStarts == Init => Lane!LaneInit
  <1> SUFFICES ASSUME Init PROVE Lane!LaneInit
    OBVIOUS
  <1>1. \A t \in Task : task[t] = NoRow
    BY DEF Init
  <1>2. /\ \A i \in Issue : RootIn(i, {"queued"}) = {}
        /\ \A i \in Issue : RootIn(i, Active) = {}
        /\ \A i \in Issue : RootIn(i, {"running"}) = {}
        /\ Entered = {}
    BY <1>1 DEF RootIn, TasksOf, NoRow, Active, Entered, Exists
  <1> QED BY <1>2, TheOneNone DEF Lane!LaneInit, Entered

LEMMA LaneSteps == IInv /\ [Next]_vars => [Lane!LaneNext]_Lane!laneVars
  <1> SUFFICES ASSUME IInv, [Next]_vars PROVE [Lane!LaneNext]_Lane!laneVars
    OBVIOUS
  <1>1. CASE UNCHANGED task
    <2>1. /\ \A i \in Issue : /\ RootIn(i, {"queued"})' = RootIn(i, {"queued"})
                              /\ RootIn(i, Active)' = RootIn(i, Active)
                              /\ RootIn(i, {"running"})' = RootIn(i, {"running"})
          /\ Entered' = Entered
      BY <1>1 DEF RootIn, TasksOf, IsRoot, Entered, Exists
    <2> QED BY <2>1, LanesAlone
  <1>2. CASE \E t \in Task : Inserts(t)
    BY <1>2, InsertEnters
  <1>3. CASE \E t \in Task : StartAgentTask(t)
    BY <1>3, StartBegins
  <1>4. CASE \E S \in SUBSET Task, status \in Terminal : Ends(S, status)
    BY <1>4, EndsLeave
  <1>5. CASE \E s \in Session : ClaimCommit(s)
    BY <1>5, CommitDispatches
  <1> QED BY StepKinds, <1>1, <1>2, <1>3, <1>4, <1>5
          DEF IInv, ClaimInv, ClaimSnapshot, ClaimLock, Releases, vars

\* The table implements the lanes: whatever inserts, claims, reports, cancels and sweeps
\* interleave, the root tasks of every issue enter, are dispatched, begin and leave as
\* the coalescing queue promises.
THEOREM TableImplementsLanes == Spec => ImplementsLane
  BY IInvHolds, LaneStarts, LaneSteps, PTL DEF Spec, ImplementsLane, Lane!LaneSpec
=============================================================================
