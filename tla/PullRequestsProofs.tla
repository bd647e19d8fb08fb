-------------------------- MODULE PullRequestsProofs --------------------------
(* Theorems about the pull-request jobs, for any number of workers, branches, jobs, *)
(* completed tasks and faults.                                                     *)
EXTENDS PullRequests, SequenceTheorems, WellFoundedInduction, TLAPS

-----------------------------------------------------------------------------
\* The invariant

Outcomes == {"handoff", "delivered"}

Places == {"idle", "issue", "skipClosed", "latest", "wait", "giveUp", "skip", "repository",
           "find", "create", "comment", "result", "activity", "mark", "fail"}

\* Where the worker has no run yet, and where it works on one.
Reading  == {"issue", "skipClosed", "latest", "giveUp"}
Working  == {"repository", "find", "create", "comment", "result"}
Telling  == {"comment", "result", "activity", "mark"}

Run == [branch : Branch \cup {None}, pr : BOOLEAN, overtaken : BOOLEAN,
        told : Outcomes \cup {"none"}, comment : BOOLEAN, comments : Nat]

Job == [status : {"queued", "running", "completed", "skipped", "failed"}, attempts : Int,
        trigger : {"issue_in_review", "task_completed"}, due : BOOLEAN, old : BOOLEAN]

Work == [pc : Places, job : Nat, inReview : BOOLEAN, run : Nat, pr : BOOLEAN,
         comment : BOOLEAN, outcome : Outcomes \cup {"none"}]

Typed ==
    /\ review \in Reviews
    /\ run \in Seq(Run) /\ job \in Seq(Job)
    /\ work \in [Worker -> Work]
    /\ \A e \in event : e[1] \in {"issue_in_review", "task_completed"}

\* The unique index lets one job live.
OneJob == \A i, j \in DOMAIN job : job[i].status \in Live /\ job[j].status \in Live => i = j

\* A worker is at a job that is running.
WorkersRun ==
    \A w \in Worker : ~At(w, "idle") =>
        work[w].job \in DOMAIN job /\ job[work[w].job].status = "running"

\* A run is read before it is worked on.
Loaded(u, r) ==
    /\ u.pc \in Reading => u.run = 0
    /\ u.pc \in Working \cup Telling \cup {"skip", "fail"} =>
          u.run \in DOMAIN r /\ ~r[u.run].overtaken
    /\ u.pc \in {"repository", "find", "create", "comment"} => u.comment = r[u.run].comment
    /\ u.pc = "result" => u.comment

\* What a worker is about to tell is true.
Truthful(u, r, p) ==
    /\ u.pc \in Telling => u.outcome \in Outcomes /\ (u.outcome = "delivered" => u.pr)
    /\ u.pc \in Working /\ u.pr => r[u.run].branch \in p

Sound(u, r, p) == Loaded(u, r) /\ Truthful(u, r, p)

WorkersSound == \A w \in Worker : Sound(work[w], run, pull)

\* A comment was made, and the result names it or is about to.
Commented ==
    \A k \in DOMAIN run : k \notin botched /\ run[k].comments > 0 =>
        /\ run[k].comments = 1
        /\ run[k].comment \/ \E w \in Worker : At(w, "result") /\ work[w].run = k

ToldTrue ==
    \A k \in DOMAIN run :
        /\ run[k].told = "delivered" => run[k].pr
        /\ run[k].pr => run[k].branch \in pull

\* The first run overtakes none that was created earlier.
FirstRun == run # <<>> => ~run[1].overtaken

PInv == /\ Typed /\ OneJob /\ WorkersRun /\ OneWorker /\ WorkersSound
        /\ Commented /\ ToldTrue /\ FirstRun

\* A job that is running has its worker, or nobody finishes it.
RunningHasWorker ==
    \A j \in DOMAIN job : job[j].status = "running" =>
        j \in died \/ \E w \in Worker : ~At(w, "idle") /\ work[w].job = j

Dealt(k) == \/ run[k].branch = None \/ run[k].pr \/ run[k].told # "none"
            \/ k \in missed \cup botched

\* Something is under way that will read run k, or works on it.
Covers(u, k) == \/ u.pc \in {"issue", "skipClosed", "latest", "wait"}
                \/ u.pc \in Working /\ u.run = k

Covered(k) == \/ event # {}
              \/ \E j \in DOMAIN job : job[j].status = "queued"
              \/ \E w \in Worker : Covers(work[w], k)

\* A worker leaves a run when it is dealt with.
Leaving == {"skip", "activity", "mark", "fail"}

LeavesDealt == \A w \in Worker : work[w].pc \in Leaving => Dealt(work[w].run)

LatestCovered == run # <<>> /\ died = {} => Dealt(Latest) \/ Covered(Latest)

Deals == RunningHasWorker /\ LeavesDealt /\ LatestCovered

DInv == PInv /\ Deals

-----------------------------------------------------------------------------
\* The steps

LEMMA Start == Init => PInv
  BY DEF Init, PInv, Typed, OneJob, WorkersRun, OneWorker, WorkersSound, Sound, Loaded, Truthful,
         Commented, ToldTrue, FirstRun, At, Idle, Reviews, Work, Places, Reading, Working, Telling, Outcomes

USE DEF At, Goto, MyJob, Fault, history, Idle, Reviews, Live, Outcomes, Places, Reading, Working,
        Telling, Run, Job, Work

LEMMA PStutter == PInv /\ UNCHANGED prVars => PInv'
  BY DEF prVars, PInv, Typed, OneJob, WorkersRun, OneWorker, WorkersSound, Sound, Loaded, Truthful,
         Commented, ToldTrue, FirstRun

LEMMA Appends ==
    ASSUME NEW S, NEW q \in Seq(S), NEW e \in S
    PROVE  /\ Append(q, e) \in Seq(S) /\ Append(q, e)[Len(q) + 1] = e
           /\ DOMAIN Append(q, e) = DOMAIN q \cup {Len(q) + 1}
           /\ \A i \in DOMAIN q : Append(q, e)[i] = q[i]
  OBVIOUS

LEMMA Sequences ==
    ASSUME Typed
    PROVE  /\ DOMAIN job = 1..Len(job) /\ \A j \in DOMAIN job : job[j] \in Job
           /\ DOMAIN run = 1..Len(run) /\ \A k \in DOMAIN run : run[k] \in Run
           /\ Len(job) \in Nat /\ Len(run) \in Nat
  <1> USE DEF Typed
  <1>1. DOMAIN job = 1..Len(job) /\ DOMAIN run = 1..Len(run) /\ Len(job) \in Nat /\ Len(run) \in Nat
    BY LenProperties
  <1>2. (\A j \in DOMAIN job : job[j] \in Job) /\ \A k \in DOMAIN run : run[k] \in Run
    BY <1>1, ElementOfSeq
  <1> QED BY <1>1, <1>2

\* One field of a job changes, or several.
LEMMA JobChanges ==
    ASSUME Typed, NEW j \in DOMAIN job, NEW e \in Job, job' = [job EXCEPT ![j] = e]
    PROVE  /\ job' \in Seq(Job) /\ DOMAIN job' = DOMAIN job
           /\ job'[j] = e /\ \A i \in DOMAIN job \ {j} : job'[i] = job[i]
  <1> HIDE DEF Job
  <1>1. job \in Seq(Job) /\ DOMAIN job = 1..Len(job)
    BY Sequences DEF Typed
  <1> DEFINE q == [job EXCEPT ![j] = e]
  <1>2. q \in Seq(Job) /\ Len(q) = Len(job) /\ \A i \in 1..Len(job) : q[i] = IF i = j THEN e ELSE job[i]
    BY <1>1, ExceptSeq
  <1>3. DOMAIN q = 1..Len(q)
    BY <1>2, LenProperties
  <1> QED BY <1>1, <1>2, <1>3

LEMMA RunChanges ==
    ASSUME Typed, NEW k \in DOMAIN run, NEW e \in Run, run' = [run EXCEPT ![k] = e]
    PROVE  /\ run' \in Seq(Run) /\ DOMAIN run' = DOMAIN run
           /\ run'[k] = e /\ \A m \in DOMAIN run \ {k} : run'[m] = run[m]
  <1> HIDE DEF Run
  <1>1. run \in Seq(Run) /\ DOMAIN run = 1..Len(run)
    BY Sequences DEF Typed
  <1> DEFINE q == [run EXCEPT ![k] = e]
  <1>2. q \in Seq(Run) /\ Len(q) = Len(run) /\ \A i \in 1..Len(run) : q[i] = IF i = k THEN e ELSE run[i]
    BY <1>1, ExceptSeq
  <1>3. DOMAIN q = 1..Len(q)
    BY <1>2, LenProperties
  <1> QED BY <1>1, <1>2, <1>3

\* A worker goes on in its job, and neither the job nor the runs change.
LEMMA Moves ==
    ASSUME PInv, NEW w \in Worker, ~At(w, "idle"),
           NEW u \in Work, work' = [work EXCEPT ![w] = u],
           u.job = work[w].job, u.pc # "idle", Sound(u, run, pull'),
           At(w, "result") => work[w].run \in botched',
           pull \subseteq pull', botched \subseteq botched',
           UNCHANGED <<review, run, event, job>>
    PROVE  PInv'
  <1> USE DEF PInv
  <1>1. work' \in [Worker -> Work] /\ work'[w] = u /\ \A v \in Worker \ {w} : work'[v] = work[v]
    BY DEF Typed
  <1>2. Typed' /\ OneJob'
    BY <1>1 DEF Typed, OneJob
  <1>3. WorkersRun' /\ OneWorker'
    BY <1>1 DEF WorkersRun, OneWorker
  <1>4. WorkersSound'
    BY <1>1 DEF WorkersSound, Sound, Loaded, Truthful
  <1>5. Commented'
    BY <1>1 DEF Commented
  <1>6. ToldTrue' /\ FirstRun'
    BY DEF ToldTrue, FirstRun
  <1> QED BY <1>2, <1>3, <1>4, <1>5, <1>6

\* A worker leaves its job, whatever it writes there.
LEMMA Leaves ==
    ASSUME PInv, NEW w \in Worker, ~At(w, "idle"),
           work' = [work EXCEPT ![w] = Idle],
           At(w, "result") => work[w].run \in botched',
           NEW s \in {"queued", "completed", "skipped", "failed"}, NEW d \in BOOLEAN,
           \/ job' = job
           \/ job' = [job EXCEPT ![work[w].job].status = s]
           \/ job' = [job EXCEPT ![work[w].job].status = s, ![work[w].job].due = d],
           botched \subseteq botched',
           UNCHANGED <<review, run, event, pull>>
    PROVE  PInv'
  <1> USE DEF PInv
  <1>1. work' \in [Worker -> Work] /\ work'[w] = Idle /\ \A v \in Worker \ {w} : work'[v] = work[v]
    BY DEF Typed
  <1>2. work[w].job \in DOMAIN job /\ \A v \in Worker \ {w} : work[v].pc = "idle"
    BY DEF WorkersRun, OneWorker
  <1>3. /\ DOMAIN job' = DOMAIN job
        /\ \A j \in DOMAIN job : job'[j].status = job[j].status \/ j = work[w].job
    BY <1>2 DEF Typed
  <1>4. job' \in Seq(Job)
    <2> DEFINE old == job[work[w].job]
    <2>1. old \in Job
      BY <1>2, Sequences
    <2>2. CASE job' = job
      BY <2>2 DEF Typed
    <2>3. CASE job' = [job EXCEPT ![work[w].job] = [old EXCEPT !.status = s]]
      BY <1>2, <2>1, <2>3, JobChanges
    <2>4. CASE job' = [job EXCEPT ![work[w].job] = [old EXCEPT !.status = s, !.due = d]]
      BY <1>2, <2>1, <2>4, JobChanges
    <2> QED BY <2>2, <2>3, <2>4
  <1>5. Typed'
    BY <1>1, <1>4 DEF Typed
  <1>6. OneJob'
    BY <1>2, <1>3 DEF OneJob, WorkersRun
  <1>7. WorkersRun' /\ OneWorker'
    BY <1>1, <1>2 DEF WorkersRun, OneWorker
  <1>8. WorkersSound'
    BY <1>1 DEF WorkersSound, Sound, Loaded, Truthful
  <1>9. Commented' /\ ToldTrue' /\ FirstRun'
    BY <1>1 DEF Commented, ToldTrue, FirstRun
  <1> QED BY <1>5, <1>6, <1>7, <1>8, <1>9

LEMMA PStatus ==
    ASSUME PInv, NEW s \in Reviews, UpdateIssueStatus(s)
    PROVE  PInv'
  BY DEF UpdateIssueStatus, PInv, Typed, OneJob, WorkersRun, OneWorker, WorkersSound, Sound, Loaded,
         Truthful, Commented, ToldTrue, FirstRun

LEMMA PLost ==
    ASSUME PInv, NEW e \in event, EventLost(e)
    PROVE  PInv'
  BY DEF EventLost, PInv, Typed, OneJob, WorkersRun, OneWorker, WorkersSound, Sound, Loaded,
         Truthful, Commented, ToldTrue, FirstRun

LEMMA PCompleted ==
    ASSUME PInv, NEW b \in Branch \cup {None}, NEW pr \in BOOLEAN, NEW overtaken \in BOOLEAN,
           TaskCompleted(b, pr, overtaken)
    PROVE  PInv'
  <1> USE DEF PInv, TaskCompleted
  <1>1. /\ run' \in Seq(Run) /\ DOMAIN run' = DOMAIN run \cup {Len(run) + 1}
        /\ \A k \in DOMAIN run : run'[k] = run[k]
        /\ run'[Len(run) + 1] = [branch |-> b, pr |-> pr, overtaken |-> overtaken,
                                 told |-> "none", comment |-> FALSE, comments |-> 0]
    BY DEF Typed
  <1>2. Typed'
    BY <1>1 DEF Typed
  <1>3. OneJob' /\ WorkersRun' /\ OneWorker'
    BY DEF OneJob, WorkersRun, OneWorker
  <1>4. WorkersSound'
    <2> SUFFICES ASSUME NEW w \in Worker PROVE Sound(work[w], run', pull')
      BY DEF WorkersSound
    <2>1. Sound(work[w], run, pull) /\ pull \subseteq pull'
      BY DEF WorkersSound
    <2> QED BY <1>1, <2>1 DEF Sound, Loaded, Truthful
  <1>5. Commented'
    BY <1>1 DEF Commented
  <1>6. ToldTrue'
    BY <1>1 DEF ToldTrue
  <1>7. FirstRun'
    BY <1>1, Sequences, EmptySeq DEF FirstRun, Typed
  <1> QED BY <1>2, <1>3, <1>4, <1>5, <1>6, <1>7

\* The jobs change, and nobody works on those that do.
LEMMA JobsChange ==
    ASSUME PInv, job' \in Seq(Job), DOMAIN job \subseteq DOMAIN job', OneJob',
           \A j \in DOMAIN job : job'[j].status = job[j].status,
           event' \subseteq event, UNCHANGED <<review, run, work, pull, botched>>
    PROVE  PInv'
  <1> USE DEF PInv
  <1>1. Typed'
    BY DEF Typed
  <1>2. WorkersRun' /\ OneWorker'
    BY DEF WorkersRun, OneWorker
  <1>3. WorkersSound'
    BY DEF WorkersSound, Sound, Loaded, Truthful
  <1>4. Commented' /\ ToldTrue' /\ FirstRun'
    BY DEF Commented, ToldTrue, FirstRun
  <1> QED BY <1>1, <1>2, <1>3, <1>4

LEMMA PEnqueue ==
    ASSUME PInv, NEW e \in event, Enqueue(e)
    PROVE  PInv'
  <1> USE DEF PInv, Enqueue
  <1>1. CASE HasActiveJob
    BY <1>1, JobsChange DEF Typed, OneJob
  <1>2. CASE ~HasActiveJob
    <2>1. /\ job' \in Seq(Job) /\ DOMAIN job' = DOMAIN job \cup {Len(job) + 1}
          /\ \A j \in DOMAIN job : job'[j] = job[j]
      <3> DEFINE new == [status |-> "queued", attempts |-> 0, trigger |-> e[1], due |-> TRUE, old |-> FALSE]
      <3>1. new \in Job
        BY DEF Typed
      <3>2. job' = Append(job, new) /\ job \in Seq(Job)
        BY <1>2 DEF Typed
      <3> HIDE DEF new, Job
      <3> QED BY <3>1, <3>2, Appends
    <2>2. OneJob'
      BY <1>2, <2>1 DEF OneJob, HasActiveJob
    <2> QED BY <1>2, <2>1, <2>2, JobsChange
  <1> QED BY <1>1, <1>2

LEMMA PTime ==
    ASSUME PInv, NEW j \in DOMAIN job, RunAfterPasses(j) \/ JobGrowsOld(j)
    PROVE  PInv'
  <1>1. /\ job' \in Seq(Job) /\ DOMAIN job' = DOMAIN job
        /\ \A i \in DOMAIN job : job'[i].status = job[i].status
    <2>1. job[j] \in Job
      BY Sequences DEF PInv
    <2>2. CASE job' = [job EXCEPT ![j] = [job[j] EXCEPT !.due = TRUE]]
      BY <2>1, <2>2, JobChanges DEF PInv
    <2>3. CASE job' = [job EXCEPT ![j] = [job[j] EXCEPT !.old = TRUE]]
      BY <2>1, <2>3, JobChanges DEF PInv
    <2> QED BY <2>2, <2>3 DEF RunAfterPasses, JobGrowsOld
  <1>2. OneJob'
    BY <1>1 DEF PInv, OneJob
  <1> QED BY <1>1, <1>2, JobsChange DEF RunAfterPasses, JobGrowsOld

LEMMA PClaim ==
    ASSUME PInv, NEW w \in Worker, ClaimNext(w)
    PROVE  PInv'
  <1> USE DEF PInv
  <1>1. PICK j \in DOMAIN job :
          /\ job[j].status = "queued"
          /\ job' = [job EXCEPT ![j].status = "running",
                                ![j].attempts = IF @ < MaxAttempts THEN @ + 1 ELSE @]
          /\ work' = [work EXCEPT ![w] = [Idle EXCEPT !.pc = "issue", !.job = j]]
    BY DEF ClaimNext
  <1>2. \A v \in Worker : work[v].pc = "idle"
    BY <1>1 DEF OneJob, WorkersRun
  <1>3. /\ job' \in Seq(Job) /\ DOMAIN job' = DOMAIN job
        /\ job'[j].status = "running" /\ \A i \in DOMAIN job \ {j} : job'[i] = job[i]
    <2> DEFINE tries == IF job[j].attempts < MaxAttempts THEN job[j].attempts + 1 ELSE job[j].attempts
               e == [job[j] EXCEPT !.status = "running", !.attempts = tries]
    <2>1. job[j] \in Job
      BY Sequences
    <2>2. e \in Job /\ e.status = "running"
      <3>1. tries \in Int
        BY <2>1
      <3> QED BY <2>1, <3>1
    <2>3. job' = [job EXCEPT ![j] = e]
      BY <1>1
    <2> QED BY <2>2, <2>3, JobChanges
  <1>5. /\ work' \in [Worker -> Work] /\ \A v \in Worker \ {w} : work'[v] = work[v]
        /\ work'[w] = [Idle EXCEPT !.pc = "issue", !.job = j]
        /\ work'[w].pc = "issue" /\ work'[w].job = j
    <2>1. j \in Nat
      BY DEF Typed
    <2> QED BY <1>1, <2>1 DEF Typed
  <1>6. Typed'
    BY <1>3, <1>5 DEF Typed, ClaimNext
  <1>7. OneJob'
    BY <1>1, <1>3 DEF OneJob
  <1>8. WorkersRun'
    <2> SUFFICES ASSUME NEW v \in Worker, work'[v].pc # "idle"
                 PROVE  work'[v].job \in DOMAIN job' /\ job'[work'[v].job].status = "running"
      BY DEF WorkersRun
    <2>1. v = w
      BY <1>2, <1>5
    <2> QED BY <1>3, <1>5, <2>1
  <1>11. OneWorker'
    BY <1>2, <1>5 DEF OneWorker
  <1>9. WorkersSound'
    BY <1>5 DEF WorkersSound, Sound, Loaded, Truthful, ClaimNext
  <1>10. Commented' /\ ToldTrue' /\ FirstRun'
    BY <1>2, <1>5 DEF Commented, ToldTrue, FirstRun, ClaimNext
  <1> QED BY <1>6, <1>7, <1>8, <1>9, <1>10, <1>11

-----------------------------------------------------------------------------
\* The steps of a worker

\* It writes the run it works on: a comment, or the result.
LEMMA Writes ==
    ASSUME PInv, NEW w \in Worker, At(w, "comment") \/ At(w, "result"),
           NEW k, k = work[w].run, NEW e \in Run, run' = [run EXCEPT ![k] = e],
           e.branch = run[k].branch, e.overtaken = run[k].overtaken,
           e.told = "delivered" => e.pr, e.pr => e.branch \in pull,
           NEW u \in Work, work' = [work EXCEPT ![w] = u],
           u.job = work[w].job, u.pc # "idle", u.run = k, Sound(u, run', pull),
           \/ k \in botched'
           \/ e.comments = 0
           \/ e.comments = 1 /\ (e.comment \/ u.pc = "result"),
           botched \subseteq botched',
           UNCHANGED <<review, event, job, pull>>
    PROVE  PInv'
  <1> USE DEF PInv
  <1>1. work' \in [Worker -> Work] /\ work'[w] = u /\ \A v \in Worker \ {w} : work'[v] = work[v]
    BY DEF Typed
  <1>2. k \in DOMAIN run /\ \A v \in Worker \ {w} : work[v] = Idle \/ work[v].pc = "idle"
    BY DEF WorkersSound, Sound, Loaded, OneWorker
  <1>3. /\ run' \in Seq(Run) /\ DOMAIN run' = DOMAIN run
        /\ run'[k] = e /\ \A m \in DOMAIN run \ {k} : run'[m] = run[m]
    BY <1>2, RunChanges
  <1>4. Typed'
    BY <1>1, <1>3 DEF Typed
  <1>5. OneJob' /\ WorkersRun' /\ OneWorker'
    BY <1>1 DEF OneJob, WorkersRun, OneWorker
  <1>6. WorkersSound'
    BY <1>1, <1>2 DEF WorkersSound, Sound, Loaded, Truthful
  <1>7. Commented'
    BY <1>1, <1>2, <1>3 DEF Commented
  <1>8. ToldTrue'
    BY <1>3 DEF ToldTrue
  <1>9. FirstRun'
    BY <1>3, Sequences, EmptySeq DEF FirstRun, Typed
  <1> QED BY <1>4, <1>5, <1>6, <1>7, <1>8, <1>9

LEMMA Worker1 ==
    ASSUME PInv, NEW w \in Worker
    PROVE  work[w] \in Work /\ Sound(work[w], run, pull)
  BY DEF PInv, Typed, WorkersSound

\* Only the place of the worker changes.
LEMMA Goes ==
    ASSUME PInv, NEW w \in Worker, ~At(w, "idle"), NEW pc \in Places \ {"idle"}, Goto(w, pc),
           Sound([work[w] EXCEPT !.pc = pc], run, pull'),
           At(w, "result") => work[w].run \in botched',
           pull \subseteq pull', botched \subseteq botched',
           UNCHANGED <<review, run, event, job>>
    PROVE  PInv'
  <1> DEFINE u == [work[w] EXCEPT !.pc = pc]
  <1>1. u \in Work /\ u.job = work[w].job /\ u.pc # "idle"
    BY Worker1
  <1>2. work' = [work EXCEPT ![w] = u]
    OBVIOUS
  <1> HIDE DEF u
  <1> QED BY <1>1, <1>2, Moves DEF u

LEMMA PLoad ==
    ASSUME PInv, NEW w \in Worker, LoadIssue(w)
    PROVE  PInv'
  <1> DEFINE pc == IF review = "closed" THEN "skipClosed" ELSE "latest"
             u  == [work[w] EXCEPT !.pc = pc, !.inReview = review = "in_review"]
  <1>1. u \in Work /\ u.job = work[w].job /\ u.pc # "idle" /\ Sound(u, run, pull')
    BY Worker1 DEF LoadIssue, Sound, Loaded, Truthful
  <1>2. CASE work' = [work EXCEPT ![w] = u]
    <2> HIDE DEF u
    <2> QED BY <1>1, <1>2, Moves DEF LoadIssue
  <1>3. CASE Goto(w, "skipClosed")
    <2>1. Sound([work[w] EXCEPT !.pc = "skipClosed"], run, pull')
      BY Worker1 DEF LoadIssue, Sound, Loaded, Truthful
    <2> QED BY <1>3, <2>1, Goes DEF LoadIssue
  <1> QED BY <1>2, <1>3 DEF LoadIssue

LEMMA PNoRun ==
    ASSUME PInv, NEW w \in Worker, NoRun(w)
    PROVE  PInv'
  <1>1. \A pc \in {"giveUp", "wait"} : Sound([work[w] EXCEPT !.pc = pc], run, pull')
    BY Worker1 DEF NoRun, Sound, Loaded, Truthful
  <1> QED BY <1>1, Goes DEF NoRun

LEMMA PActivity ==
    ASSUME PInv, NEW w \in Worker, Activity(w)
    PROVE  PInv'
  <1>1. \A pc \in {"mark", "fail"} : Sound([work[w] EXCEPT !.pc = pc], run, pull')
    BY Worker1 DEF Activity, Sound, Loaded, Truthful
  <1> QED BY <1>1, Goes DEF Activity

\* An error of GitHub before anything was told.
LEMMA PGitHubError ==
    ASSUME PInv, NEW w \in Worker, work[w].pc \in {"repository", "find", "create"}, GitHubError(w),
           pull \subseteq pull', UNCHANGED <<review, run, event, job, botched>>
    PROVE  PInv'
  <1> DEFINE u == [work[w] EXCEPT !.pc = "comment", !.outcome = "handoff"]
  <1>1. CASE Goto(w, "wait")
    <2>1. Sound([work[w] EXCEPT !.pc = "wait"], run, pull')
      BY Worker1 DEF Sound, Loaded, Truthful
    <2> QED BY <1>1, <2>1, Goes
  <1>2. CASE work' = [work EXCEPT ![w] = u]
    <2>1. u \in Work /\ u.job = work[w].job /\ Sound(u, run, pull')
      BY Worker1 DEF Sound, Loaded, Truthful
    <2> QED BY <1>2, <2>1, Moves
  <1> QED BY <1>1, <1>2 DEF GitHubError

LEMMA PDelivered ==
    ASSUME PInv, NEW w \in Worker, work[w].pc \in {"find", "create"}, Delivered(w),
           run[work[w].run].branch \in pull', pull \subseteq pull',
           UNCHANGED <<review, run, event, job, botched>>
    PROVE  PInv'
  <1> DEFINE u == [work[w] EXCEPT !.pc = "comment", !.pr = TRUE, !.outcome = "delivered"]
  <1>1. u \in Work /\ u.job = work[w].job /\ u.pc # "idle" /\ Sound(u, run, pull')
    BY Worker1 DEF Sound, Loaded, Truthful
  <1>2. work' = [work EXCEPT ![w] = u]
    BY DEF Delivered
  <1> HIDE DEF u
  <1> QED BY <1>1, <1>2, Moves

LEMMA PGitHub ==
    ASSUME PInv, NEW w \in Worker,
           GetRepository(w) \/ FindOpenPullRequestByHead(w) \/ CreatePullRequest(w)
    PROVE  PInv'
  <1>1. CASE GetRepository(w)
    <2>1. Sound([work[w] EXCEPT !.pc = "find"], run, pull')
      BY <1>1, Worker1 DEF GetRepository, Sound, Loaded, Truthful
    <2> QED BY <1>1, <2>1, Goes, PGitHubError DEF GetRepository
  <1>2. CASE FindOpenPullRequestByHead(w)
    <2>1. Sound([work[w] EXCEPT !.pc = "create"], run, pull')
      BY <1>2, Worker1 DEF FindOpenPullRequestByHead, Sound, Loaded, Truthful
    <2> QED BY <1>2, <2>1, Goes, PGitHubError, PDelivered DEF FindOpenPullRequestByHead
  <1>3. CASE CreatePullRequest(w)
    BY <1>3, PGitHubError, PDelivered DEF CreatePullRequest
  <1> QED BY <1>1, <1>2, <1>3

LEMMA PComment ==
    ASSUME PInv, NEW w \in Worker, DeliveryComment(w)
    PROVE  PInv'
  <1> DEFINE k == work[w].run
             e == [run[k] EXCEPT !.comments = @ + 1]
             u == [work[w] EXCEPT !.pc = "result", !.comment = TRUE]
  <1> USE DEF DeliveryComment
  <1>1. /\ k \in DOMAIN run /\ work[w] \in Work /\ run[k] \in Run
        /\ Sound(work[w], run, pull) /\ work[w].comment = run[k].comment
    BY Worker1, Sequences DEF PInv, Sound, Loaded
  <1>2. /\ e \in Run /\ e.branch = run[k].branch /\ e.overtaken = run[k].overtaken
        /\ e.comments = run[k].comments + 1 /\ e.told = run[k].told /\ e.pr = run[k].pr
        /\ e.comment = run[k].comment
        /\ u \in Work /\ u.pc = "result" /\ u.job = work[w].job /\ u.run = k
    <2>1. run[k].comments + 1 \in Nat
      BY <1>1
    <2> QED BY <1>1, <2>1
  <1>3. ToldTrue /\ Typed /\ Commented /\ OneWorker
    BY DEF PInv
  <1>4. CASE run' = run /\ work' = [work EXCEPT ![w] = u] /\ work[w].comment /\ UNCHANGED botched
    <2>1. Sound(u, run, pull')
      BY <1>1, <1>4 DEF Sound, Loaded, Truthful
    <2> QED BY <1>2, <1>4, <2>1, Moves
  <1>5. CASE /\ run' = [run EXCEPT ![k] = e] /\ work' = [work EXCEPT ![w] = u]
             /\ ~work[w].comment /\ UNCHANGED botched
    <2>1. Sound(u, run', pull)
      BY <1>1, <1>2, <1>3, <1>5, RunChanges DEF Sound, Loaded, Truthful
    <2>2. k \in botched \/ run[k].comments = 0
      BY <1>1, <1>3, <1>5 DEF Commented, OneWorker
    <2>3. (e.told = "delivered" => e.pr) /\ (e.pr => e.branch \in pull)
      BY <1>1, <1>2, <1>3 DEF ToldTrue
    <2>4. k \in botched' \/ (e.comments = 1 /\ u.pc = "result")
      BY <1>1, <1>2, <1>5, <2>2
    <2>5. /\ work[w].pc = "comment" /\ k = work[w].run /\ botched \subseteq botched'
          /\ run' = [run EXCEPT ![k] = e] /\ work' = [work EXCEPT ![w] = u]
          /\ UNCHANGED <<review, event, job, pull>>
      BY <1>5
    <2> HIDE DEF DeliveryComment, e, u, k, Work, Run
    <2> QED BY <1>2, <2>1, <2>3, <2>4, <2>5, Writes
  <1>6. CASE /\ run' = [run EXCEPT ![k] = e] /\ Goto(w, "result") /\ work[w].comment
             /\ botched' = botched \cup {k}
    <2> DEFINE v == [work[w] EXCEPT !.pc = "result"]
    <2>1. Sound(v, run', pull)
      BY <1>1, <1>2, <1>3, <1>6, RunChanges DEF Sound, Loaded, Truthful
    <2>2. v \in Work /\ v.pc = "result" /\ v.job = work[w].job /\ v.run = k
      BY <1>1
    <2>3. (e.told = "delivered" => e.pr) /\ (e.pr => e.branch \in pull)
      BY <1>1, <1>2, <1>3 DEF ToldTrue
    <2>4. work' = [work EXCEPT ![w] = v] /\ k \in botched' /\ botched \subseteq botched'
      BY <1>6
    <2>5. At(w, "comment") /\ UNCHANGED <<review, event, job, pull>>
      OBVIOUS
    <2> HIDE DEF DeliveryComment, e, v
    <2> QED BY <1>2, <1>6, <2>1, <2>2, <2>3, <2>4, <2>5, Writes
  <1>7. CASE run' = run /\ Goto(w, "fail") /\ botched' = botched \cup {k}
    <2>1. Sound([work[w] EXCEPT !.pc = "fail"], run, pull')
      BY <1>1, <1>7 DEF Sound, Loaded, Truthful
    <2> QED BY <1>7, <2>1, Goes
  <1> QED BY <1>4, <1>5, <1>6, <1>7

LEMMA PResult ==
    ASSUME PInv, NEW w \in Worker, UpdateTaskResult(w)
    PROVE  PInv'
  <1> DEFINE k == work[w].run
             e == [run[k] EXCEPT !.told = work[w].outcome, !.pr = work[w].pr,
                                 !.comment = work[w].comment]
             u == [work[w] EXCEPT !.pc = "activity"]
  <1> USE DEF UpdateTaskResult
  <1>1. /\ k \in DOMAIN run /\ work[w] \in Work /\ run[k] \in Run
        /\ Sound(work[w], run, pull) /\ work[w].comment
    BY Worker1, Sequences DEF PInv, Sound, Loaded
  <1>2. /\ e \in Run /\ e.branch = run[k].branch /\ e.overtaken = run[k].overtaken
        /\ e.told = work[w].outcome /\ e.pr = work[w].pr /\ e.comments = run[k].comments
        /\ u \in Work /\ u.pc = "activity" /\ u.job = work[w].job /\ u.run = k
    BY <1>1 DEF Sound, Truthful
  <1>3. Typed /\ Commented
    BY DEF PInv
  <1>4. CASE run' = [run EXCEPT ![k] = e] /\ work' = [work EXCEPT ![w] = u] /\ UNCHANGED botched
    <2>1. Sound(u, run', pull)
      BY <1>1, <1>2, <1>3, <1>4, RunChanges DEF Sound, Loaded, Truthful
    <2>2. k \in botched' \/ e.comments = 0 \/ (e.comments = 1 /\ (e.comment \/ u.pc = "result"))
      BY <1>1, <1>3, <1>4 DEF Commented
    <2>3. (e.told = "delivered" => e.pr) /\ (e.pr => e.branch \in pull)
      BY <1>1 DEF Sound, Truthful
    <2>4. /\ At(w, "result") /\ k = work[w].run /\ botched \subseteq botched'
          /\ run' = [run EXCEPT ![k] = e] /\ work' = [work EXCEPT ![w] = u]
          /\ UNCHANGED <<review, event, job, pull>>
      BY <1>4
    <2>5. u.pc # "idle"
      BY <1>2
    <2> HIDE DEF UpdateTaskResult, e, u, k, Work, Run
    <2> QED BY <1>2, <2>1, <2>2, <2>3, <2>4, <2>5, Writes
  <1>5. CASE run' = run /\ Goto(w, "fail") /\ botched' = botched \cup {k}
    <2>1. Sound([work[w] EXCEPT !.pc = "fail"], run, pull')
      BY <1>1, <1>5 DEF Sound, Loaded, Truthful
    <2> QED BY <1>5, <2>1, Goes
  <1> QED BY <1>4, <1>5

LEMMA PMarks ==
    ASSUME PInv, NEW w \in Worker,
           SkipClosed(w) \/ WaitForTask(w) \/ GiveUp(w) \/ Skip(w) \/ Finish(w) \/ Dies(w)
    PROVE  PInv'
  <1>1. CASE SkipClosed(w) \/ GiveUp(w) \/ Skip(w) \/ Finish(w)
    BY <1>1, Leaves DEF SkipClosed, GiveUp, Skip, Finish, Mark
  <1>2. CASE WaitForTask(w)
    BY <1>2, Leaves DEF WaitForTask, Requeue
  <1>3. CASE Dies(w)
    BY <1>3, Leaves DEF Dies
  <1> QED BY <1>1, <1>2, <1>3
\* The newest run by creation is there, and every run after it was created earlier.
LEMMA LatestExists ==
    ASSUME Typed, FirstRun, run # <<>>
    PROVE  /\ Latest \in DOMAIN run /\ ~run[Latest].overtaken
           /\ \A m \in DOMAIN run : m > Latest => run[m].overtaken
  <1> DEFINE P == {n \in 0..Len(run) : \A m \in DOMAIN run : m > n => run[m].overtaken}
  <1>1. DOMAIN run = 1..Len(run) /\ Len(run) \in Nat /\ 1 \in DOMAIN run
    BY Sequences, EmptySeq DEF Typed
  <1>2. Len(run) \in P
    BY <1>1
  <1>3. PICK n \in P : \A m \in P : n <= m
    <2> DEFINE R == OpToRel(<, Nat)
    <2>1. \A m, n \in Nat : m < n => <<m, n>> \in R
      BY DEF OpToRel
    <2>2. IsWellFoundedOn(R, Nat)
      BY NatLessThanWellFounded
    <2> HIDE DEF R
    <2>3. P \in SUBSET Nat /\ P # {}
      BY <1>2
    <2> HIDE DEF P
    <2>4. \E n \in P : \A m \in P : ~(<<m, n>> \in R)
      BY <2>2, <2>3, WFMin
    <2>5. PICK n \in P : \A m \in P : ~(<<m, n>> \in R)
      BY <2>4
    <2>6. \A m \in P : ~(m < n)
      BY <2>1, <2>3, <2>5, Zenon
    <2> QED BY <2>3, <2>6, SMT
  <1>4. n \in Nat /\ n # 0
    BY <1>1, <1>3 DEF FirstRun
  <1>5. n - 1 \in 0..Len(run) /\ n - 1 \notin P
    BY <1>1, <1>3, <1>4
  <1>6. ~run[n].overtaken /\ n \in DOMAIN run
    BY <1>1, <1>3, <1>4, <1>5
  <1>7. \E k \in DOMAIN run : ~run[k].overtaken /\ \A m \in DOMAIN run : m > k => run[m].overtaken
    BY <1>3, <1>6
  <1> QED BY <1>7 DEF Latest

LEMMA PLatestRun ==
    ASSUME PInv, NEW w \in Worker, LatestRun(w)
    PROVE  PInv'
  <1> DEFINE k == Latest
             u(pc, out) == [work[w] EXCEPT !.pc = pc, !.run = k, !.pr = run[k].pr,
                                           !.comment = run[k].comment, !.outcome = out]
  <1>1. k \in DOMAIN run /\ k \in Nat /\ ~run[k].overtaken /\ run[k] \in Run
        /\ (run[k].pr => run[k].branch \in pull)
    BY LatestExists, Sequences DEF PInv, LatestRun, ToldTrue
  <1>2. PICK pc \in {"skip", "comment", "repository"}, out \in {"none", "handoff"} :
          /\ work' = [work EXCEPT ![w] = u(pc, out)]
          /\ pc = "comment" => out = "handoff"
    <2>1. CASE work' = [work EXCEPT ![w] = u("skip", "none")]
      BY <2>1
    <2>2. CASE work' = [work EXCEPT ![w] = u("comment", "handoff")]
      BY <2>2
    <2>3. CASE work' = [work EXCEPT ![w] = u("repository", "none")]
      BY <2>3
    <2> QED BY <2>1, <2>2, <2>3 DEF LatestRun
  <1> DEFINE v == u(pc, out)
  <1>3. v \in Work /\ v.job = work[w].job /\ v.pc # "idle" /\ Sound(v, run, pull')
    <2>1. work[w] \in Work
      BY Worker1
    <2>2. /\ v \in Work /\ v.job = work[w].job /\ v.pc = pc /\ v.run = k
          /\ v.pr = run[k].pr /\ v.comment = run[k].comment /\ v.outcome = out
      BY <1>1, <1>2, <2>1
    <2> HIDE DEF v
    <2> QED BY <1>1, <1>2, <2>2 DEF LatestRun, Sound, Loaded, Truthful
  <1>4. work' = [work EXCEPT ![w] = v]
    BY <1>2
  <1> HIDE DEF v
  <1> QED BY <1>3, <1>4, Moves DEF LatestRun

LEMMA PNext == PInv /\ [Next]_prVars => PInv'
  <1> SUFFICES ASSUME PInv, Next PROVE PInv'
    BY PStutter
  <1>1. CASE \E s \in Reviews : UpdateIssueStatus(s)
    BY <1>1, PStatus
  <1>2. CASE \E b \in Branch \cup {None}, pr, overtaken \in BOOLEAN : TaskCompleted(b, pr, overtaken)
    BY <1>2, PCompleted
  <1>3. CASE \E e \in event : Enqueue(e) \/ EventLost(e)
    BY <1>3, PEnqueue, PLost
  <1>4. CASE \E j \in DOMAIN job : RunAfterPasses(j) \/ JobGrowsOld(j)
    BY <1>4, PTime
  <1>5. CASE \E w \in Worker : ClaimNext(w) \/ Process(w) \/ Dies(w)
    BY <1>5, PClaim, PLoad, PNoRun, PLatestRun, PGitHub, PComment, PResult, PActivity, PMarks
       DEF Process
  <1> QED BY <1>1, <1>2, <1>3, <1>4, <1>5 DEF Next

LEMMA InvTells == PInv => PullTold
  <1> SUFFICES ASSUME PInv PROVE PullTold
    OBVIOUS
  <1>1. \A k \in DOMAIN run : run[k].comments > 1 => k \in botched
    BY Sequences DEF PInv, Commented
  <1> QED BY <1>1 DEF PInv, PullTold, ToldTrue
-----------------------------------------------------------------------------
\* The newest run is dealt with

LEMMA LatestIs ==
    ASSUME NEW r, DOMAIN r \subseteq Nat, NEW k \in DOMAIN r, ~r[k].overtaken,
           \A m \in DOMAIN r : m > k => r[m].overtaken
    PROVE  k = CHOOSE j \in DOMAIN r :
                   ~r[j].overtaken /\ \A m \in DOMAIN r : m > j => r[m].overtaken
  <1> DEFINE Is(j) == ~r[j].overtaken /\ \A m \in DOMAIN r : m > j => r[m].overtaken
  <1>1. \A j \in DOMAIN r : Is(j) => j = k
    OBVIOUS
  <1>2. Is(k)
    OBVIOUS
  <1> HIDE DEF Is
  <1>3. (CHOOSE j \in DOMAIN r : Is(j)) = k
    BY <1>1, <1>2
  <1> QED BY <1>3 DEF Is

\* It stays the newest while no run completes, or one that was created earlier.
LEMMA LatestStays ==
    ASSUME Typed, FirstRun, run # <<>>, DOMAIN run \subseteq DOMAIN run', DOMAIN run' \subseteq Nat,
           \A m \in DOMAIN run : run'[m].overtaken = run[m].overtaken,
           \A m \in DOMAIN run' \ DOMAIN run : run'[m].overtaken
    PROVE  Latest' = Latest /\ Latest \in DOMAIN run
  <1>1. /\ Latest \in DOMAIN run /\ ~run[Latest].overtaken
        /\ \A m \in DOMAIN run : m > Latest => run[m].overtaken
    BY LatestExists
  <1> DEFINE k == Latest
  <1>2. k \in DOMAIN run' /\ ~run'[k].overtaken /\ \A m \in DOMAIN run' : m > k => run'[m].overtaken
    BY <1>1
  <1> HIDE DEF k
  <1>3. k = CHOOSE j \in DOMAIN run' :
                ~run'[j].overtaken /\ \A m \in DOMAIN run' : m > j => run'[m].overtaken
    BY <1>2, LatestIs
  <1> QED BY <1>1, <1>3 DEF k, Latest

USE DEF Covers, Leaving

LEMMA DStart == Init => Deals
  BY DEF Init, Deals, RunningHasWorker, LeavesDealt, LatestCovered

\* No worker moves, no job changes its status, and no run completes.
LEMMA DKept ==
    ASSUME PInv, Deals, UNCHANGED <<run, work, died>>,
           missed \subseteq missed', botched \subseteq botched',
           DOMAIN job' = DOMAIN job, \A j \in DOMAIN job : job'[j].status = job[j].status,
           event # {} => event' # {} \/ DOMAIN run \subseteq missed'
    PROVE  Deals'
  <1> USE DEF Deals
  <1>1. RunningHasWorker'
    BY DEF RunningHasWorker
  <1>2. LeavesDealt'
    BY DEF LeavesDealt, Dealt
  <1>3. LatestCovered'
    <2>1. run # <<>> => Latest' = Latest /\ Latest \in DOMAIN run
      BY LatestStays, Sequences DEF PInv
    <2> QED BY <2>1 DEF LatestCovered, Dealt, Covered
  <1> QED BY <1>1, <1>2, <1>3

\* A worker goes on in its job; at most the run it works on is written.
LEMMA DMoves ==
    ASSUME PInv, Deals, NEW w \in Worker, ~At(w, "idle"),
           NEW u \in Work, work' = [work EXCEPT ![w] = u], u.job = work[w].job, u.pc # "idle",
           DOMAIN run' = DOMAIN run, \A m \in DOMAIN run : run'[m].overtaken = run[m].overtaken,
           \A k \in DOMAIN run : Dealt(k) => Dealt(k)',
           \A k \in DOMAIN run : u.pc \in Leaving /\ u.run = k => Dealt(k)',
           u.pc \in Leaving => u.run \in DOMAIN run,
           \A k \in DOMAIN run : k = Latest /\ Covers(work[w], k) => Covers(u, k) \/ Dealt(k)',
           UNCHANGED <<event, job, died>>
    PROVE  Deals'
  <1> USE DEF Deals
  <1>1. work' \in [Worker -> Work] /\ work'[w] = u /\ \A v \in Worker \ {w} : work'[v] = work[v]
    BY DEF PInv, Typed
  <1>2. RunningHasWorker'
    BY <1>1 DEF RunningHasWorker
  <1>3. LeavesDealt'
    <2> SUFFICES ASSUME NEW v \in Worker, work'[v].pc \in Leaving, NEW k, k = work'[v].run
                 PROVE  Dealt(k)'
      BY DEF LeavesDealt, Dealt
    <2>1. CASE v = w
      BY <1>1, <2>1
    <2>2. CASE v # w
      <3>1. Sound(work[v], run, pull) /\ Dealt(k) /\ work[v].run = k /\ work[v].pc \in Leaving
        BY <1>1, <2>2, Worker1 DEF LeavesDealt
      <3> QED BY <3>1 DEF Sound, Loaded
    <2> QED BY <2>1, <2>2
  <1>4. LatestCovered'
    <2> SUFFICES ASSUME run # <<>>, died = {} PROVE Dealt(Latest)' \/ Covered(Latest)'
      <3>1. run = <<>> => run' = <<>>
        BY EmptySeq, Sequences DEF PInv, Typed
      <3> QED BY <3>1 DEF LatestCovered
    <2>1. Latest' = Latest /\ Latest \in DOMAIN run
      BY LatestStays, Sequences DEF PInv
    <2>2. PICK k \in DOMAIN run : k = Latest /\ k = Latest'
      BY <2>1
    <2>3. Dealt(k) \/ Covered(k)
      BY <2>2 DEF LatestCovered
    <2>4. CASE Dealt(k)
      BY <2>2, <2>4 DEF Dealt
    <2>5. CASE Covered(k)
      <3>1. CASE event # {} \/ \E j \in DOMAIN job : job[j].status = "queued"
        BY <3>1 DEF Covered
      <3>2. CASE \E v \in Worker : Covers(work[v], k)
        BY <1>1, <2>2, <3>2 DEF Covered, Dealt
      <3> QED BY <2>5, <3>1, <3>2 DEF Covered
    <2> QED BY <2>3, <2>4, <2>5
  <1> QED BY <1>2, <1>3, <1>4
\* A worker leaves its job.
LEMMA DLeaves ==
    ASSUME PInv, Deals, NEW w \in Worker, ~At(w, "idle"), work' = [work EXCEPT ![w] = Idle],
           DOMAIN job' = DOMAIN job,
           \A j \in DOMAIN job : job'[j].status = job[j].status \/ j = work[w].job,
           work[w].job \in died' \/ job'[work[w].job].status # "running",
           died \subseteq died', missed \subseteq missed', botched \subseteq botched',
           \A k \in DOMAIN run : died' = {} /\ k = Latest /\ Covers(work[w], k)
               => Dealt(k)' \/ job'[work[w].job].status = "queued",
           UNCHANGED <<run, event>>
    PROVE  Deals'
  <1> USE DEF Deals
  <1>1. work' \in [Worker -> Work] /\ work'[w] = Idle /\ \A v \in Worker \ {w} : work'[v] = work[v]
    BY DEF PInv, Typed
  <1>2. RunningHasWorker'
    BY <1>1 DEF RunningHasWorker
  <1>3. LeavesDealt'
    BY <1>1 DEF LeavesDealt, Dealt
  <1>4. work[w].job \in DOMAIN job /\ job[work[w].job].status = "running"
    BY DEF PInv, WorkersRun
  <1>5. LatestCovered'
    <2> SUFFICES ASSUME run # <<>>, died' = {} PROVE Dealt(Latest)' \/ Covered(Latest)'
      BY DEF LatestCovered
    <2>1. Latest' = Latest /\ Latest \in DOMAIN run
      BY LatestStays, Sequences DEF PInv
    <2>2. PICK k \in DOMAIN run : k = Latest /\ k = Latest'
      BY <2>1
    <2>3. Dealt(k) \/ Covered(k)
      BY <2>2 DEF LatestCovered
    <2>4. CASE Dealt(k)
      BY <2>2, <2>4 DEF Dealt
    <2>5. CASE event # {} \/ \E j \in DOMAIN job : job[j].status = "queued"
      BY <1>4, <2>5 DEF Covered
    <2>6. CASE \E v \in Worker : Covers(work[v], k)
      BY <1>1, <1>4, <2>2, <2>6 DEF Covered, Dealt
    <2> QED BY <2>3, <2>4, <2>5, <2>6 DEF Covered
  <1> QED BY <1>2, <1>3, <1>5

LEMMA DEvents ==
    ASSUME PInv, Deals,
           \/ \E s \in Reviews : UpdateIssueStatus(s)
           \/ \E e \in event : EventLost(e)
           \/ \E j \in DOMAIN job : RunAfterPasses(j) \/ JobGrowsOld(j)
    PROVE  Deals'
  <1>1. CASE \E s \in Reviews : UpdateIssueStatus(s)
    BY <1>1, DKept DEF UpdateIssueStatus
  <1>2. CASE \E e \in event : EventLost(e)
    BY <1>2, DKept DEF EventLost
  <1>3. ASSUME NEW j \in DOMAIN job, RunAfterPasses(j) \/ JobGrowsOld(j)
        PROVE  Deals'
    <2>1. DOMAIN job' = DOMAIN job /\ \A i \in DOMAIN job : job'[i].status = job[i].status
      <3>1. job[j] \in Job
        BY Sequences DEF PInv
      <3>2. CASE job' = [job EXCEPT ![j] = [job[j] EXCEPT !.due = TRUE]]
        BY <3>1, <3>2, JobChanges DEF PInv
      <3>3. CASE job' = [job EXCEPT ![j] = [job[j] EXCEPT !.old = TRUE]]
        BY <3>1, <3>3, JobChanges DEF PInv
      <3> QED BY <1>3, <3>2, <3>3 DEF RunAfterPasses, JobGrowsOld
    <2> QED BY <1>3, <2>1, DKept DEF RunAfterPasses, JobGrowsOld
  <1> QED BY <1>1, <1>2, <1>3

LEMMA DCompleted ==
    ASSUME PInv, Deals, NEW b \in Branch \cup {None}, NEW pr \in BOOLEAN, NEW overtaken \in BOOLEAN,
           TaskCompleted(b, pr, overtaken)
    PROVE  Deals'
  <1> USE DEF PInv, Deals, TaskCompleted
  <1>1. /\ DOMAIN run' = DOMAIN run \cup {Len(run) + 1} /\ \A k \in DOMAIN run : run'[k] = run[k]
        /\ run'[Len(run) + 1].branch = b /\ run'[Len(run) + 1].overtaken = overtaken
    BY DEF Typed
  <1>2. \A k \in DOMAIN run : Dealt(k) => Dealt(k)'
    BY <1>1 DEF Dealt
  <1>3. RunningHasWorker'
    BY DEF RunningHasWorker
  <1>4. LeavesDealt'
    <2> SUFFICES ASSUME NEW w \in Worker, work[w].pc \in Leaving, NEW k, k = work[w].run
                 PROVE  Dealt(k)'
      BY DEF LeavesDealt, Dealt
    <2>1. k \in DOMAIN run /\ Dealt(k)
      BY Worker1 DEF Sound, Loaded, LeavesDealt
    <2> QED BY <1>2, <2>1
  <1>5. DOMAIN run = 1..Len(run) /\ Len(run) \in Nat
    BY Sequences
  <1>6. LatestCovered'
    <2>1. CASE overtaken
      <3>1. Latest' = Latest /\ Latest \in DOMAIN run
        BY <1>1, <1>5, <2>1, LatestStays
      <3>2. PICK k \in DOMAIN run : k = Latest /\ k = Latest'
        BY <3>1
      <3>3. died = {} => Dealt(k)' \/ Covered(k)'
        BY <1>2, <2>1, <3>2 DEF LatestCovered, Covered
      <3> QED BY <3>2, <3>3 DEF LatestCovered, Dealt, Covered
    <2>2. CASE ~overtaken
      <3>1. Len(run) + 1 = Latest'
        <4>1. DOMAIN run' \subseteq Nat /\ Len(run) + 1 \in DOMAIN run' /\ ~run'[Len(run) + 1].overtaken
              /\ \A m \in DOMAIN run' : ~(m > Len(run) + 1)
          BY <1>1, <1>5, <2>2
        <4> QED BY <4>1, LatestIs DEF Latest
      <3>2. CASE b = None
        BY <1>1, <3>1, <3>2 DEF LatestCovered, Dealt
      <3>3. CASE b # None
        BY <3>3 DEF LatestCovered, Covered
      <3> QED BY <3>2, <3>3
    <2> QED BY <2>1, <2>2
  <1> QED BY <1>3, <1>4, <1>6

LEMMA DEnqueue ==
    ASSUME PInv, Deals, NEW e \in event, Enqueue(e)
    PROVE  Deals'
  <1> USE DEF Deals, Enqueue
  <1>1. CASE HasActiveJob
    <2>1. RunningHasWorker' /\ LeavesDealt'
      BY <1>1 DEF RunningHasWorker, LeavesDealt, Dealt
    <2>2. LatestCovered'
      <3> SUFFICES ASSUME run # <<>>, died = {} PROVE Dealt(Latest)' \/ Covered(Latest)'
        BY DEF LatestCovered
      <3>1. /\ Latest' = Latest /\ Latest \in DOMAIN run
            /\ \A m \in DOMAIN run : m > Latest => run[m].overtaken
        BY LatestStays, LatestExists, Sequences DEF PInv
      <3>2. PICK k \in DOMAIN run : k = Latest /\ k = Latest'
        BY <3>1
      <3>3. PICK j \in DOMAIN job : job[j].status \in Live
        BY <1>1 DEF HasActiveJob
      <3>4. CASE job[j].status = "queued"
        BY <1>1, <3>4 DEF Covered
      <3>5. CASE job[j].status = "running"
        <4>1. PICK w \in Worker : work[w].pc # "idle"
          BY <3>5 DEF RunningHasWorker
        <4>2. work[w] \in Work /\ Sound(work[w], run, pull)
          BY Worker1
        <4>3. CASE ~PastReading(w)
          BY <1>1, <4>1, <4>3 DEF PastReading, Covered
        <4>4. CASE PastReading(w) /\ k > work[w].run
          BY <1>1, <3>2, <4>4 DEF Dealt
        <4>5. CASE PastReading(w) /\ ~(k > work[w].run)
          <5>1. k \in Nat /\ k > 0
            BY Sequences DEF PInv
          <5>2. work[w].run \in DOMAIN run /\ ~run[work[w].run].overtaken
            BY <4>2, <4>5, <5>1 DEF Sound, Loaded, PastReading
          <5>3. work[w].run = k
            BY <3>1, <3>2, <4>2, <4>5, <5>1, <5>2
          <5>4. CASE work[w].pc \in Leaving
            <6>1. Dealt(k)
              BY <5>3, <5>4 DEF LeavesDealt
            <6>2. Dealt(k)'
              BY <1>1, <6>1 DEF Dealt
            <6> QED BY <3>2, <6>2 DEF Dealt
          <5>5. CASE work[w].pc \in Working
            <6>1. Covered(k)'
              BY <1>1, <5>3, <5>5 DEF Covered
            <6> QED BY <3>2, <6>1 DEF Covered
          <5> QED BY <4>2, <4>5, <5>1, <5>3, <5>4, <5>5 DEF PastReading, Sound, Loaded
        <4> QED BY <4>3, <4>4, <4>5
      <3> QED BY <3>3, <3>4, <3>5
    <2> QED BY <2>1, <2>2
  <1>2. CASE ~HasActiveJob
    <2>1. /\ DOMAIN job' = DOMAIN job \cup {Len(job) + 1}
          /\ \A j \in DOMAIN job : job'[j] = job[j]
          /\ job'[Len(job) + 1].status = "queued"
      <3> DEFINE new == [status |-> "queued", attempts |-> 0, trigger |-> e[1], due |-> TRUE, old |-> FALSE]
      <3>1. new \in Job /\ new.status = "queued"
        BY DEF PInv, Typed
      <3>2. job' = Append(job, new) /\ job \in Seq(Job)
        BY <1>2 DEF PInv, Typed
      <3> HIDE DEF new, Job
      <3> QED BY <3>1, <3>2, Appends
    <2> QED BY <1>2, <2>1 DEF RunningHasWorker, LeavesDealt, Dealt, LatestCovered, Covered
  <1> QED BY <1>1, <1>2
LEMMA DClaim ==
    ASSUME PInv, Deals, NEW w \in Worker, ClaimNext(w)
    PROVE  Deals'
  <1> USE DEF Deals
  <1>1. PICK j \in DOMAIN job :
          /\ job[j].status = "queued"
          /\ job' = [job EXCEPT ![j].status = "running",
                                ![j].attempts = IF @ < MaxAttempts THEN @ + 1 ELSE @]
          /\ work' = [work EXCEPT ![w] = [Idle EXCEPT !.pc = "issue", !.job = j]]
    BY DEF ClaimNext
  <1>2. \A i \in DOMAIN job : job[i].status = "running" => i = j
    BY <1>1 DEF PInv, OneJob
  <1>3. DOMAIN job' = DOMAIN job /\ \A i \in DOMAIN job \ {j} : job'[i] = job[i]
    BY <1>1 DEF PInv, Typed
  <1>4. /\ work'[w].pc = "issue" /\ work'[w].job = j /\ \A v \in Worker \ {w} : work'[v] = work[v]
    BY <1>1 DEF PInv, Typed
  <1>5. RunningHasWorker'
    BY <1>1, <1>2, <1>3, <1>4 DEF RunningHasWorker, PInv, OneJob
  <1>6. LeavesDealt'
    BY <1>4 DEF LeavesDealt, Dealt, ClaimNext
  <1>7. LatestCovered'
    BY <1>4 DEF LatestCovered, Covered
  <1> QED BY <1>5, <1>6, <1>7

\* Only the place of the worker changes.
LEMMA DGoes ==
    ASSUME PInv, Deals, NEW w \in Worker, ~At(w, "idle"), NEW pc \in Places \ {"idle"}, Goto(w, pc),
           \A k \in DOMAIN run : pc \in Leaving /\ work[w].run = k => Dealt(k) \/ k \in botched',
           pc \in Leaving => work[w].run \in DOMAIN run,
           \A k \in DOMAIN run : k = Latest /\ Covers(work[w], k)
               => Covers([work[w] EXCEPT !.pc = pc], k) \/ k \in missed' \cup botched',
           missed \subseteq missed', botched \subseteq botched',
           UNCHANGED <<run, event, job, died>>
    PROVE  Deals'
  <1> DEFINE u == [work[w] EXCEPT !.pc = pc]
  <1>1. u \in Work /\ u.job = work[w].job /\ u.pc = pc /\ u.run = work[w].run
    BY Worker1
  <1>2. work' = [work EXCEPT ![w] = u]
    OBVIOUS
  <1>3. \A k \in DOMAIN run : Dealt(k) \/ k \in missed' \cup botched' => Dealt(k)'
    BY DEF Dealt
  <1>4. \A k \in DOMAIN run : k = Latest /\ Covers(work[w], k) => Covers(u, k) \/ Dealt(k)'
    BY <1>3
  <1>5. /\ \A k \in DOMAIN run : u.pc \in Leaving /\ u.run = k => Dealt(k)'
        /\ u.pc \in Leaving => u.run \in DOMAIN run
        /\ \A k \in DOMAIN run : Dealt(k) => Dealt(k)'
    BY <1>1, <1>3
  <1> HIDE DEF u, Work
  <1> QED BY <1>1, <1>2, <1>4, <1>5, DMoves

LEMMA DLoad ==
    ASSUME PInv, Deals, NEW w \in Worker, LoadIssue(w)
    PROVE  Deals'
  <1> DEFINE pc == IF review = "closed" THEN "skipClosed" ELSE "latest"
             u  == [work[w] EXCEPT !.pc = pc, !.inReview = review = "in_review"]
  <1>1. u \in Work /\ u.job = work[w].job /\ u.pc \in {"skipClosed", "latest"}
    BY Worker1
  <1>2. CASE work' = [work EXCEPT ![w] = u]
    <2>1. \A k \in DOMAIN run : Dealt(k) => Dealt(k)'
      BY DEF LoadIssue, Dealt
    <2> HIDE DEF u
    <2> QED BY <1>1, <1>2, <2>1, DMoves DEF LoadIssue
  <1>3. CASE Goto(w, "skipClosed")
    <2>1. \A k : Covers([work[w] EXCEPT !.pc = "skipClosed"], k)
      BY Worker1
    <2> QED BY <1>3, <2>1, DGoes DEF LoadIssue
  <1> QED BY <1>2, <1>3 DEF LoadIssue

LEMMA DNoRun ==
    ASSUME PInv, Deals, NEW w \in Worker, NoRun(w)
    PROVE  Deals'
  <1>1. run = <<>> => DOMAIN run = {}
    BY EmptySeq
  <1>2. CASE MyJob(w).old
    BY <1>1, <1>2, Worker1, DGoes DEF NoRun
  <1>3. CASE ~MyJob(w).old
    <2>1. \A k : Covers([work[w] EXCEPT !.pc = "wait"], k)
      BY Worker1
    <2> QED BY <1>3, <2>1, DGoes DEF NoRun
  <1> QED BY <1>2, <1>3

LEMMA DLatestRun ==
    ASSUME PInv, Deals, NEW w \in Worker, LatestRun(w)
    PROVE  Deals'
  <1> DEFINE k == Latest
             u(pc, out) == [work[w] EXCEPT !.pc = pc, !.run = k, !.pr = run[k].pr,
                                           !.comment = run[k].comment, !.outcome = out]
  <1>1. k \in DOMAIN run /\ k \in Nat /\ run[k] \in Run
    BY LatestExists, Sequences DEF PInv, LatestRun
  <1>2. PICK pc \in {"skip", "comment", "repository"}, out \in {"none", "handoff"} :
          /\ work' = [work EXCEPT ![w] = u(pc, out)]
          /\ pc = "skip" => run[k].pr \/ run[k].branch = None
    <2>1. CASE work' = [work EXCEPT ![w] = u("skip", "none")] /\ (run[k].pr \/ run[k].branch = None)
      BY <2>1
    <2>2. CASE work' = [work EXCEPT ![w] = u("comment", "handoff")]
      BY <2>2
    <2>3. CASE work' = [work EXCEPT ![w] = u("repository", "none")]
      BY <2>3
    <2> QED BY <2>1, <2>2, <2>3 DEF LatestRun
  <1> DEFINE v == u(pc, out)
  <1>3. v \in Work /\ v.job = work[w].job /\ v.pc = pc /\ v.run = k
    <2>1. work[w] \in Work
      BY Worker1
    <2> QED BY <1>1, <1>2, <2>1
  <1>4. work' = [work EXCEPT ![w] = v]
    BY <1>2
  <1>5. /\ \A m \in DOMAIN run : Dealt(m) => Dealt(m)'
        /\ \A m \in DOMAIN run : pc = "skip" /\ k = m => Dealt(m)'
    BY <1>2 DEF LatestRun, Dealt
  <1> HIDE DEF v
  <1> QED BY <1>1, <1>2, <1>3, <1>4, <1>5, DMoves DEF LatestRun

LEMMA DGitHubError ==
    ASSUME PInv, Deals, NEW w \in Worker, work[w].pc \in {"repository", "find", "create"},
           GitHubError(w), UNCHANGED <<run, event, job, died, missed, botched>>
    PROVE  Deals'
  <1> DEFINE u == [work[w] EXCEPT !.pc = "comment", !.outcome = "handoff"]
  <1>1. CASE Goto(w, "wait")
    <2>1. \A k : Covers([work[w] EXCEPT !.pc = "wait"], k)
      BY Worker1
    <2> QED BY <1>1, <2>1, DGoes
  <1>2. CASE work' = [work EXCEPT ![w] = u]
    <2>1. u \in Work /\ u.job = work[w].job /\ u.pc = "comment" /\ u.run = work[w].run
      BY Worker1
    <2>2. \A k \in DOMAIN run : Dealt(k) => Dealt(k)'
      BY DEF Dealt
    <2> HIDE DEF u
    <2> QED BY <1>2, <2>1, <2>2, DMoves
  <1> QED BY <1>1, <1>2 DEF GitHubError

LEMMA DDelivered ==
    ASSUME PInv, Deals, NEW w \in Worker, work[w].pc \in {"find", "create"}, Delivered(w),
           UNCHANGED <<run, event, job, died, missed, botched>>
    PROVE  Deals'
  <1> DEFINE u == [work[w] EXCEPT !.pc = "comment", !.pr = TRUE, !.outcome = "delivered"]
  <1>1. u \in Work /\ u.job = work[w].job /\ u.pc = "comment" /\ u.run = work[w].run
    BY Worker1
  <1>2. work' = [work EXCEPT ![w] = u]
    BY DEF Delivered
  <1>3. \A k \in DOMAIN run : Dealt(k) => Dealt(k)'
    BY DEF Dealt
  <1> HIDE DEF u
  <1> QED BY <1>1, <1>2, <1>3, DMoves

LEMMA DGitHub ==
    ASSUME PInv, Deals, NEW w \in Worker,
           GetRepository(w) \/ FindOpenPullRequestByHead(w) \/ CreatePullRequest(w)
    PROVE  Deals'
  <1>1. CASE GetRepository(w)
    BY <1>1, Worker1, DGoes, DGitHubError DEF GetRepository
  <1>2. CASE FindOpenPullRequestByHead(w)
    BY <1>2, Worker1, DGoes, DGitHubError, DDelivered DEF FindOpenPullRequestByHead
  <1>3. CASE CreatePullRequest(w)
    BY <1>3, DGitHubError, DDelivered DEF CreatePullRequest
  <1> QED BY <1>1, <1>2, <1>3

LEMMA DComment ==
    ASSUME PInv, Deals, NEW w \in Worker, DeliveryComment(w)
    PROVE  Deals'
  <1> DEFINE k == work[w].run
             e == [run[k] EXCEPT !.comments = @ + 1]
             pc == work'[w].pc
             u == [work[w] EXCEPT !.pc = "result", !.comment = TRUE]
             v == [work[w] EXCEPT !.pc = "result"]
  <1> USE DEF DeliveryComment
  <1>1. k \in DOMAIN run /\ work[w] \in Work /\ run[k] \in Run
    BY Worker1, Sequences DEF PInv, Sound, Loaded
  <1>2. e \in Run /\ e.overtaken = run[k].overtaken /\ e.branch = run[k].branch /\ e.pr = run[k].pr
        /\ e.told = run[k].told
    <2>1. run[k].comments + 1 \in Nat
      BY <1>1
    <2> QED BY <1>1, <2>1
  <1>3. run' = run \/ run' = [run EXCEPT ![k] = e]
    OBVIOUS
  <1>4. /\ DOMAIN run' = DOMAIN run
        /\ \A m \in DOMAIN run : /\ run'[m].overtaken = run[m].overtaken /\ run'[m].told = run[m].told
                                 /\ run'[m].branch = run[m].branch /\ run'[m].pr = run[m].pr
    <2> HIDE DEF e
    <2> QED BY <1>1, <1>2, <1>3, RunChanges DEF PInv
  <1>5. \A m \in DOMAIN run : Dealt(m) => Dealt(m)'
    BY <1>4 DEF Dealt
  <1>6. CASE work' = [work EXCEPT ![w] = u]
    <2>1. u \in Work /\ u.job = work[w].job /\ u.pc = "result" /\ u.run = k
      BY <1>1
    <2>2. work[w].pc = "comment" /\ UNCHANGED <<event, job, died>>
      OBVIOUS
    <2> HIDE DEF u, DeliveryComment
    <2> QED BY <1>4, <1>5, <1>6, <2>1, <2>2, DMoves
  <1>7. CASE work' = [work EXCEPT ![w] = v]
    <2>1. v \in Work /\ v.job = work[w].job /\ v.pc = "result" /\ v.run = k
      BY <1>1
    <2>2. work[w].pc = "comment" /\ UNCHANGED <<event, job, died>>
      OBVIOUS
    <2> HIDE DEF v, DeliveryComment
    <2> QED BY <1>4, <1>5, <1>7, <2>1, <2>2, DMoves
  <1>8. CASE run' = run /\ Goto(w, "fail") /\ botched' = botched \cup {k}
    BY <1>1, <1>8, DGoes
  <1> QED BY <1>6, <1>7, <1>8

LEMMA DResult ==
    ASSUME PInv, Deals, NEW w \in Worker, UpdateTaskResult(w)
    PROVE  Deals'
  <1> DEFINE k == work[w].run
             e == [run[k] EXCEPT !.told = work[w].outcome, !.pr = work[w].pr,
                                 !.comment = work[w].comment]
             u == [work[w] EXCEPT !.pc = "activity"]
  <1> USE DEF UpdateTaskResult
  <1>1. /\ k \in DOMAIN run /\ work[w] \in Work /\ run[k] \in Run /\ Sound(work[w], run, pull)
    BY Worker1, Sequences DEF PInv, Sound, Loaded
  <1>2. /\ e \in Run /\ e.branch = run[k].branch /\ e.overtaken = run[k].overtaken
        /\ e.told # "none"
        /\ u \in Work /\ u.pc = "activity" /\ u.job = work[w].job /\ u.run = k
    BY <1>1 DEF Sound, Truthful
  <1>3. CASE run' = [run EXCEPT ![k] = e] /\ work' = [work EXCEPT ![w] = u] /\ UNCHANGED botched
    <2>1. DOMAIN run' = DOMAIN run /\ run'[k] = e /\ \A m \in DOMAIN run \ {k} : run'[m] = run[m]
      <3> HIDE DEF e
      <3> QED BY <1>1, <1>2, <1>3, RunChanges DEF PInv
    <2>2. /\ \A m \in DOMAIN run : Dealt(m) => Dealt(m)'
          /\ \A m \in DOMAIN run : k = m => Dealt(m)'
          /\ \A m \in DOMAIN run : run'[m].overtaken = run[m].overtaken
      <3> HIDE DEF e
      <3> QED BY <1>1, <1>2, <1>3, <2>1 DEF Dealt
    <2>3. work[w].pc = "result" /\ UNCHANGED <<event, job, died>>
      OBVIOUS
    <2>4. \A m \in DOMAIN run : Covers(work[w], m) => Dealt(m)'
      BY <2>2, <2>3
    <2>5. /\ u \in Work /\ work' = [work EXCEPT ![w] = u] /\ u.job = work[w].job /\ u.pc # "idle"
          /\ u.run \in DOMAIN run /\ \A m \in DOMAIN run : u.run = m => Dealt(m)'
      BY <1>1, <1>2, <1>3, <2>2
    <2> HIDE DEF u, UpdateTaskResult, Work
    <2> QED BY <2>1, <2>2, <2>3, <2>4, <2>5, DMoves
  <1>4. CASE run' = run /\ Goto(w, "fail") /\ botched' = botched \cup {k}
    BY <1>1, <1>4, DGoes
  <1> QED BY <1>3, <1>4

LEMMA DActivity ==
    ASSUME PInv, Deals, NEW w \in Worker, Activity(w)
    PROVE  Deals'
  <1>1. work[w].run \in DOMAIN run /\ Dealt(work[w].run)
    BY Worker1 DEF Activity, Sound, Loaded, Deals, LeavesDealt
  <1> QED BY <1>1, Worker1, DGoes DEF Activity

LEMMA DMarks ==
    ASSUME PInv, Deals, NEW w \in Worker,
           SkipClosed(w) \/ WaitForTask(w) \/ GiveUp(w) \/ Skip(w) \/ Finish(w) \/ Dies(w)
    PROVE  Deals'
  <1> USE DEF SkipClosed, WaitForTask, GiveUp, Skip, Finish, Dies, Mark, Requeue
  <1>1. ~At(w, "idle") /\ work' = [work EXCEPT ![w] = Idle] /\ UNCHANGED <<run, event>>
        /\ died \subseteq died' /\ missed \subseteq missed' /\ botched \subseteq botched'
    OBVIOUS
  <1>2. work[w].job \in DOMAIN job
    BY <1>1 DEF PInv, WorkersRun
  <1>3. \/ job' = job /\ work[w].job \in died'
        \/ \E s \in {"completed", "skipped", "failed"} : job' = [job EXCEPT ![work[w].job].status = s]
        \/ job' = [job EXCEPT ![work[w].job].status = "queued", ![work[w].job].due = FALSE]
    OBVIOUS
  <1>4. /\ DOMAIN job' = DOMAIN job
        /\ \A j \in DOMAIN job : job'[j].status = job[j].status \/ j = work[w].job
        /\ work[w].job \in died' \/ job'[work[w].job].status # "running"
    <2> DEFINE old == job[work[w].job]
    <2>1. old \in Job
      BY <1>2, Sequences DEF PInv
    <2>2. CASE job' = job /\ work[w].job \in died'
      BY <2>2
    <2>3. ASSUME NEW s \in {"completed", "skipped", "failed"}, job' = [job EXCEPT ![work[w].job].status = s]
          PROVE  /\ DOMAIN job' = DOMAIN job
                 /\ \A j \in DOMAIN job : job'[j].status = job[j].status \/ j = work[w].job
                 /\ job'[work[w].job].status # "running"
      <3>1. job' = [job EXCEPT ![work[w].job] = [old EXCEPT !.status = s]]
        BY <2>3
      <3> QED BY <1>2, <2>1, <3>1, JobChanges DEF PInv
    <2>4. CASE job' = [job EXCEPT ![work[w].job] = [old EXCEPT !.status = "queued", !.due = FALSE]]
      BY <1>2, <2>1, <2>4, JobChanges DEF PInv
    <2> QED BY <1>3, <2>2, <2>3, <2>4
  <1>5. \A k \in DOMAIN run : died' = {} /\ Covers(work[w], k)
            => k \in missed' \/ job'[work[w].job].status = "queued"
    <2>1. job' = [job EXCEPT ![work[w].job].status = "queued", ![work[w].job].due = FALSE]
             => job'[work[w].job].status = "queued"
      <3> DEFINE old == job[work[w].job]
      <3>1. old \in Job
        BY <1>2, Sequences DEF PInv
      <3>2. CASE job' = [job EXCEPT ![work[w].job] = [old EXCEPT !.status = "queued", !.due = FALSE]]
        BY <1>2, <3>1, <3>2, JobChanges DEF PInv
      <3> QED BY <3>2
    <2> QED BY <2>1
  <1>6. \A k \in DOMAIN run : k \in missed' => Dealt(k)'
    BY DEF Dealt
  <1> HIDE DEF SkipClosed, WaitForTask, GiveUp, Skip, Finish, Dies, Mark, Requeue
  <1> QED BY <1>1, <1>4, <1>5, <1>6, DLeaves

LEMMA DNext == DInv /\ [Next]_prVars => DInv'
  <1> SUFFICES ASSUME PInv, Deals, [Next]_prVars PROVE Deals'
    BY PNext DEF DInv
  <1>1. CASE \E s \in Reviews : UpdateIssueStatus(s)
    BY <1>1, DEvents
  <1>2. CASE \E b \in Branch \cup {None}, pr, overtaken \in BOOLEAN : TaskCompleted(b, pr, overtaken)
    BY <1>2, DCompleted
  <1>3. CASE \E e \in event : Enqueue(e) \/ EventLost(e)
    BY <1>3, DEnqueue, DEvents
  <1>4. CASE \E j \in DOMAIN job : RunAfterPasses(j) \/ JobGrowsOld(j)
    BY <1>4, DEvents
  <1>5. CASE \E w \in Worker : ClaimNext(w) \/ Process(w) \/ Dies(w)
    BY <1>5, DClaim, DLoad, DNoRun, DLatestRun, DGitHub, DComment, DResult, DActivity, DMarks
       DEF Process
  <1>6. CASE UNCHANGED prVars
    BY <1>6, DKept DEF prVars
  <1> QED BY <1>1, <1>2, <1>3, <1>4, <1>5, <1>6 DEF Next

LEMMA InvDelivers == DInv => PullDelivered
  <1> SUFFICES ASSUME DInv, Settled, run # <<>>, died = {}
               PROVE  LET k == Latest
                      IN  run[k].branch = None \/ run[k].pr \/ run[k].told # "none"
                          \/ k \in missed \cup botched
    BY DEF PullDelivered
  <1>1. ~Covered(Latest)
    BY DEF Settled, Covered
  <1> QED BY <1>1 DEF DInv, Deals, LatestCovered, Dealt
=============================================================================
