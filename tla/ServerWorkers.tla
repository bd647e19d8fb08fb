---------------------------- MODULE ServerWorkers ----------------------------
(* The two loops that work beside the request handlers: the daemon's poll loop    *)
(* with its task goroutines, and the workers of the pull-request jobs.  They meet *)
(* only in the rows of the task table: a daemon completes a task, and the event   *)
(* of that is where PullRequests begins (TaskCompleted).  A behaviour here        *)
(* follows one of the two.                                                        *)
EXTENDS Daemon

CONSTANTS Worker, Branch, None, MaxAttempts, MaxRun, MaxJob, MaxTurns, MaxFaults

VARIABLES part,
          review, run, event, job, work, pull, turns, faults, died, botched, missed

Pulls == INSTANCE PullRequests

jobPart == <<review, run, event, job, work, pull, turns, faults, died, botched, missed>>
workerVars == <<part, daemonVars, jobPart>>

WorkersInit == part \in {"daemon", "jobs"} /\ Init /\ Pulls!Init

DaemonStep == part = "daemon" /\ Next /\ UNCHANGED <<part, jobPart>>
JobStep    == part = "jobs" /\ Pulls!Next /\ UNCHANGED <<part, daemonVars>>

WorkersNext == DaemonStep \/ JobStep

WorkersSpec == WorkersInit /\ [][WorkersNext]_workerVars /\ Fairness

-----------------------------------------------------------------------------
\* Properties: Daemon's own, and those of PullRequests

\* issue_pr_store.go:40: one worker, one comment, and no false word.
PullTold == Pulls!PullTold

\* pr_job_worker.go:71: the newest branch is delivered or handed over.
PullDelivered == Pulls!PullDelivered
=============================================================================
