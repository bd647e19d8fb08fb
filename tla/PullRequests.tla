----------------------------- MODULE PullRequests -----------------------------
(* The pull-request jobs of one issue that has a repository.  A listener on the    *)
(* event bus enqueues a job when the issue enters review or a task completes with  *)
(* a branch (server/cmd/server/pr_job_worker.go); the worker of each server        *)
(* process claims the jobs (internal/service/issue_pr_store.go), looks for a pull  *)
(* request at GitHub, creates it, or hands the branch over to people, and tells so *)
(* in a comment and in the result of the task.  Statements fail, processes die,    *)
(* answers of GitHub are lost.                                                     *)
EXTENDS Integers, Sequences

CONSTANTS
    Worker,      \* server processes, each with one worker
    Branch, None,
    MaxAttempts, \* tries before an error of GitHub becomes a handoff: 5
    MaxRun,      \* bound: completed tasks
    MaxJob,      \* bound: jobs
    MaxTurns,    \* bound: changes of the issue's status
    MaxFaults    \* bound: statements that fail, processes that die, events lost

VARIABLES
    review,   \* the issue's status: open, in_review, or closed (done or cancelled)
    run,      \* completed tasks of the issue in the order they completed: branch and
              \* delivery, and whether an earlier one was created later (overtaken)
    event,    \* events whose listener has not run yet: trigger, and runs so far
    job,      \* issue_pr_job
    work,     \* per worker: its job, where it is, and the payload it carries
    pull,     \* branches with an open pull request at GitHub; nobody closes one
    turns, faults, \* what is left of MaxTurns and MaxFaults
    died,     \* history: jobs whose worker died or could not write the outcome
    botched,  \* history: runs whose delivery a fault stopped
    missed    \* history: runs that no job will read

prVars == <<review, run, event, job, work, pull, turns, faults, died, botched, missed>>

Reviews == {"open", "in_review", "closed"}
Live == {"queued", "running"}
Idle == [pc |-> "idle", job |-> 0, inReview |-> FALSE, run |-> 0,
         pr |-> FALSE, comment |-> FALSE, outcome |-> "none"]

Init ==
    /\ review \in Reviews /\ run = <<>> /\ event = {} /\ job = <<>>
    /\ work = [w \in Worker |-> Idle]
    /\ pull = {} /\ turns = MaxTurns /\ faults = MaxFaults
    /\ died = {} /\ botched = {} /\ missed = {}

At(w, pc) == work[w].pc = pc
Goto(w, pc) == work' = [work EXCEPT ![w].pc = pc]
MyJob(w) == job[work[w].job]
Fault == faults > 0 /\ faults' = faults - 1
history == <<died, botched, missed>>

-----------------------------------------------------------------------------
\* What the jobs come from

\* An issue enters review, leaves it, is closed or opened again.
UpdateIssueStatus(s) ==
    /\ turns > 0 /\ turns' = turns - 1
    /\ s # review /\ review' = s
    /\ event' = IF s = "in_review" THEN event \cup {<<"issue_in_review", Len(run)>>} ELSE event
    /\ UNCHANGED <<run, job, work, pull, faults, history>>

\* CompleteTask of a build task, and its event.  The result names a branch or not; the
\* agent may have opened the pull request itself.  Tasks need not complete in the
\* order they were created.
TaskCompleted(b, pr, overtaken) ==
    /\ Len(run) < MaxRun
    /\ pr => b # None
    /\ overtaken => run # <<>>
    /\ run' = Append(run, [branch |-> b, pr |-> pr, overtaken |-> overtaken,
                           told |-> "none", comment |-> FALSE, comments |-> 0])
    /\ pull' = IF pr THEN pull \cup {b} ELSE pull
    /\ event' = IF b # None THEN event \cup {<<"task_completed", Len(run) + 1>>} ELSE event
    /\ UNCHANGED <<review, job, work, turns, faults, history>>

\* Enqueue: the unique index lets one job of the issue live, the others are dropped.
\* Mutation: the unique index covers queued jobs only.
HasQueuedJob == \E j \in DOMAIN job : job[j].status = "queued"

HasActiveJob == \E j \in DOMAIN job : job[j].status \in Live
PastReading(w) == work[w].pc \notin {"idle", "issue", "latest", "wait"}

Enqueue(e) ==
    /\ event' = event \ {e}
    /\ IF HasActiveJob
       THEN /\ missed' = missed \cup {k \in DOMAIN run :
                            \E w \in Worker : PastReading(w) /\ k > work[w].run}
            /\ UNCHANGED job
       ELSE /\ Len(job) < MaxJob
            /\ job' = Append(job, [status |-> "queued", attempts |-> 0, trigger |-> e[1],
                                   due |-> TRUE, old |-> FALSE])
            /\ UNCHANGED missed
    /\ UNCHANGED <<review, run, work, pull, turns, faults, died, botched>>

\* The process dies between the change and its listener, the insert fails (that is only
\* logged), or a request given up on cannot read the issue its event would name.
EventLost(e) ==
    /\ Fault
    /\ event' = event \ {e}
    /\ missed' = missed \cup DOMAIN run
    /\ UNCHANGED <<review, run, job, work, pull, turns, died, botched>>

-----------------------------------------------------------------------------
\* Time

RunAfterPasses(j) ==
    /\ job[j].status = "queued" /\ ~job[j].due
    /\ job' = [job EXCEPT ![j].due = TRUE]
    /\ UNCHANGED <<review, run, event, work, pull, turns, faults, history>>

\* Thirty minutes since created_at.
JobGrowsOld(j) ==
    /\ job[j].status \in Live /\ ~job[j].old
    /\ job' = [job EXCEPT ![j].old = TRUE]
    /\ UNCHANGED <<review, run, event, work, pull, turns, faults, history>>

-----------------------------------------------------------------------------
\* The worker

\* The oldest job that is queued and due; SKIP LOCKED keeps two workers apart.  Only
\* whether attempts has come to MaxAttempts is kept of it.
ClaimNext(w) ==
    /\ At(w, "idle")
    /\ \E j \in DOMAIN job :
         /\ job[j].status = "queued" /\ job[j].due
         /\ \A i \in 1..(j - 1) : ~(job[i].status = "queued" /\ job[i].due)
         /\ job' = [job EXCEPT ![j].status = "running", ![j].attempts = IF @ < MaxAttempts THEN @ + 1 ELSE @]
         /\ work' = [work EXCEPT ![w] = [Idle EXCEPT !.pc = "issue", !.job = j]]
    /\ UNCHANGED <<review, run, event, pull, turns, faults, history>>

\* MarkCompleted, MarkSkipped, MarkFailed: an error is ignored, and nobody touches the
\* job again.
Mark(w, s) ==
    /\ work' = [work EXCEPT ![w] = Idle]
    /\ \/ /\ job' = [job EXCEPT ![work[w].job].status = s]
          /\ UNCHANGED <<faults, died>>
       \/ /\ Fault /\ died' = died \cup {work[w].job}
          /\ UNCHANGED job

Requeue(w) ==
    /\ work' = [work EXCEPT ![w] = Idle]
    /\ \/ /\ job' = [job EXCEPT ![work[w].job].status = "queued", ![work[w].job].due = FALSE]
          /\ UNCHANGED <<faults, died>>
       \/ /\ Fault /\ died' = died \cup {work[w].job}
          /\ UNCHANGED job

\* GetIssue: a closed issue needs no pull request; any error counts as no issue.
LoadIssue(w) ==
    /\ At(w, "issue")
    /\ \/ /\ work' = [work EXCEPT ![w].pc = IF review = "closed" THEN "skipClosed" ELSE "latest",
                                ![w].inReview = review = "in_review"]
          /\ UNCHANGED faults
       \/ Fault /\ Goto(w, "skipClosed")
    /\ UNCHANGED <<review, run, event, job, pull, turns, history>>

SkipClosed(w) ==
    /\ At(w, "skipClosed")
    /\ Mark(w, "skipped")
    /\ missed' = missed \cup DOMAIN run
    /\ UNCHANGED <<review, run, event, pull, turns, botched>>

\* GetLatestCompletedTaskByIssue finds no task, or fails.
NoRun(w) ==
    /\ At(w, "latest")
    /\ \/ run = <<>> /\ UNCHANGED <<faults, missed>>
       \/ Fault /\ missed' = IF MyJob(w).old THEN missed \cup DOMAIN run ELSE missed
    /\ Goto(w, IF MyJob(w).old THEN "giveUp" ELSE "wait")
    /\ UNCHANGED <<review, run, event, job, pull, turns, died, botched>>

\* ListTasksByIssue orders by created_at.
Latest == CHOOSE k \in DOMAIN run :
              ~run[k].overtaken /\ \A m \in DOMAIN run : m > k => run[m].overtaken

\* It finds one, and some of the outcome can be told from its result alone.
LatestRun(w) ==
    /\ At(w, "latest") /\ run # <<>>
    /\ LET k == Latest
           load(pc, out) == [work EXCEPT ![w].pc = pc, ![w].run = k, ![w].pr = run[k].pr,
                                         ![w].comment = run[k].comment, ![w].outcome = out]
           \* taskRequestsReview
           asked == run[k].branch # None \/ work[w].inReview \/ MyJob(w).trigger = "issue_in_review"
       IN  \/ (run[k].pr \/ ~asked) /\ work' = load("skip", "none")
           \* No branch was recorded, or there is no GitHub account to use.
           \/ ~run[k].pr /\ asked /\ work' = load("comment", "handoff")
           \/ ~run[k].pr /\ run[k].branch # None /\ work' = load("repository", "none")
    /\ UNCHANGED <<review, run, event, job, pull, turns, faults, history>>

WaitForTask(w) ==
    /\ At(w, "wait") /\ Requeue(w)
    /\ UNCHANGED <<review, run, event, pull, turns, botched, missed>>

GiveUp(w) ==
    /\ At(w, "giveUp") /\ Mark(w, "failed")
    /\ UNCHANGED <<review, run, event, pull, turns, botched, missed>>

Skip(w) ==
    /\ At(w, "skip") /\ Mark(w, "skipped")
    /\ UNCHANGED <<review, run, event, pull, turns, botched, missed>>

\* An error of GitHub: again later when it is its own (429, 5xx) and tries are left,
\* a handoff otherwise.
\* Mutation: no handoff at the end, the job is given up.
GitHubErrorGivesUp(w) ==
    Goto(w, IF MyJob(w).attempts < MaxAttempts THEN "wait" ELSE "skip")

GitHubError(w) ==
    \/ MyJob(w).attempts < MaxAttempts /\ Goto(w, "wait")
    \/ work' = [work EXCEPT ![w].pc = "comment", ![w].outcome = "handoff"]

GetRepository(w) ==
    /\ At(w, "repository")
    /\ Goto(w, "find") \/ GitHubError(w)
    /\ UNCHANGED <<review, run, event, job, pull, turns, faults, history>>

Delivered(w) == work' = [work EXCEPT ![w].pc = "comment", ![w].pr = TRUE, ![w].outcome = "delivered"]

FindOpenPullRequestByHead(w) ==
    /\ At(w, "find")
    /\ \/ GitHubError(w)
       \/ run[work[w].run].branch \in pull /\ Delivered(w)
       \/ run[work[w].run].branch \notin pull /\ Goto(w, "create")
    /\ UNCHANGED <<review, run, event, job, pull, turns, faults, history>>

\* GitHub refuses a second pull request for a branch; it may have made the first one
\* although an error came back.
CreatePullRequest(w) ==
    /\ At(w, "create")
    /\ \/ /\ run[work[w].run].branch \notin pull
          /\ pull' = pull \cup {run[work[w].run].branch}
          /\ Delivered(w) \/ GitHubError(w)
       \/ UNCHANGED pull /\ GitHubError(w)
    /\ UNCHANGED <<review, run, event, job, turns, faults, history>>

\* UpsertTaskDeliveryComment: the comment the result names is rewritten, and when that
\* fails another one is made.
DeliveryComment(w) ==
    /\ At(w, "comment")
    /\ \/ /\ IF work[w].comment
             THEN UNCHANGED run
             ELSE run' = [run EXCEPT ![work[w].run].comments = @ + 1]
          /\ work' = [work EXCEPT ![w].pc = "result", ![w].comment = TRUE]
          /\ UNCHANGED <<faults, botched>>
       \/ /\ work[w].comment /\ Fault
          /\ run' = [run EXCEPT ![work[w].run].comments = @ + 1]
          /\ Goto(w, "result") /\ botched' = botched \cup {work[w].run}
       \/ /\ Fault /\ Goto(w, "fail") /\ botched' = botched \cup {work[w].run}
          /\ UNCHANGED run
    /\ UNCHANGED <<review, event, job, pull, turns, died, missed>>

UpdateTaskResult(w) ==
    /\ At(w, "result")
    /\ \/ /\ run' = [run EXCEPT ![work[w].run].told = work[w].outcome,
                                ![work[w].run].pr = work[w].pr,
                                ![work[w].run].comment = work[w].comment]
          /\ Goto(w, "activity")
          /\ UNCHANGED <<faults, botched>>
       \/ /\ Fault /\ Goto(w, "fail") /\ botched' = botched \cup {work[w].run}
          /\ UNCHANGED run
    /\ UNCHANGED <<review, event, job, pull, turns, died, missed>>

\* CreateActivity; when it fails the job has failed although the result is written.
Activity(w) ==
    /\ At(w, "activity")
    /\ \/ Goto(w, "mark") /\ UNCHANGED faults
       \/ Goto(w, "fail") /\ Fault
    /\ UNCHANGED <<review, run, event, job, pull, turns, history>>

Finish(w) ==
    /\ \/ At(w, "mark") /\ Mark(w, IF work[w].outcome = "delivered" THEN "completed" ELSE "skipped")
       \/ At(w, "fail") /\ Mark(w, "failed")
    /\ UNCHANGED <<review, run, event, pull, turns, botched, missed>>

\* The process dies, or its context is cancelled and every statement left fails.  No
\* lease and no start-up code releases the job.
Dies(w) ==
    /\ Fault
    /\ ~At(w, "idle")
    /\ work' = [work EXCEPT ![w] = Idle]
    /\ died' = died \cup {work[w].job}
    /\ botched' = botched \cup {work[w].run}
    /\ UNCHANGED <<review, run, event, job, pull, turns, missed>>

Process(w) == \/ LoadIssue(w) \/ SkipClosed(w) \/ NoRun(w) \/ LatestRun(w) \/ WaitForTask(w) \/ GiveUp(w)
              \/ Skip(w) \/ GetRepository(w) \/ FindOpenPullRequestByHead(w)
              \/ CreatePullRequest(w) \/ DeliveryComment(w) \/ UpdateTaskResult(w)
              \/ Activity(w) \/ Finish(w)

Next ==
    \/ \E s \in Reviews : UpdateIssueStatus(s)
    \/ \E b \in Branch \cup {None}, pr, overtaken \in BOOLEAN : TaskCompleted(b, pr, overtaken)
    \/ \E e \in event : Enqueue(e) \/ EventLost(e)
    \/ \E j \in DOMAIN job : RunAfterPasses(j) \/ JobGrowsOld(j)
    \/ \E w \in Worker : ClaimNext(w) \/ Process(w) \/ Dies(w)

Spec == Init /\ [][Next]_prVars

-----------------------------------------------------------------------------
\* Properties

OneWorker == \A v, w \in Worker : At(v, "idle") \/ At(w, "idle") \/ v = w

\* What the issue is told (pr_job_worker.go:225): one delivery comment per task, unless
\* it could not be rewritten, or the result that names it not be written; the result says delivered only when
\* the pull request exists; and one worker at a time is at it, dead workers included.
PullTold ==
    /\ OneWorker
    /\ \A k \in DOMAIN run :
         /\ run[k].comments > 1 => k \in botched
         /\ run[k].told = "delivered" => run[k].pr
         /\ run[k].pr => run[k].branch \in pull

\* registerPullRequestListeners: once no event, no queued job and no worker is under
\* way, the newest completed task, if it has a branch, is delivered or handed over.  What
\* excuses it: a job that nobody finishes any more (no lease, issue_pr_store.go:48), a
\* statement that failed, an event lost, an event dropped because the job of an older
\* task was past its reading (ON CONFLICT DO NOTHING, issue_pr_store.go:40), and an
\* issue that was closed when its job came.
Settled == event = {} /\ (\A j \in DOMAIN job : job[j].status # "queued")
           /\ \A w \in Worker : At(w, "idle")

PullDelivered ==
    Settled /\ run # <<>> /\ died = {} =>
        LET k == Latest
        IN  run[k].branch = None \/ run[k].pr \/ run[k].told # "none"
            \/ k \in missed \cup botched
=============================================================================
