# A formal model of Multica

Multica lets people assign issues to coding agents.  A Go server keeps the issues, the
agents and a queue of tasks in PostgreSQL; daemons on the users' machines poll the
server for tasks, run an agent's command-line tool for each, and report back; a web
client shows issues, agents, runtimes and ideas and follows them over a WebSocket.  The
modules in this directory model the parts where most of the hard behaviour is: the task
queue with everything in the server that reads or changes it, the daemon's loop, the
jobs that open pull requests, and the web client's stores and pages.

## The system and its parts

### Server and daemon (`src/server/`)

| Part | Where | State it keeps | What it does |
|------|-------|----------------|--------------|
| Task queue table | `pkg/db/queries/agent.sql`, `runtime.sql`, migrations 001, 022, 040, 042 | `agent_task_queue` | insert, claim, start, complete, fail, cancel (one, by issue, by agent), fail stale, fail orphans; a partial unique index |
| Task service | `internal/service/task.go`, `execution_stage.go` | issue stage, agent status | enqueue for assignee or mention, fan out, claim with capacity, reports, cancel, stage sync, reconcile status |
| Issue and comment handlers | `internal/handler/issue.go`, `comment.go`, `task_enqueue.go` | issue assignee | assign, edit, comment, mention, confirm plan, fan out, cancel |
| Agent handlers | `internal/handler/agent.go` | agent row | archive, restore, move to another runtime |
| Daemon API | `internal/handler/daemon.go` | runtime row | register, heartbeat, deregister, claim, reports |
| Runtime sweeper | `cmd/server/runtime_sweeper.go` | none | marks runtimes offline, fails orphaned and stale tasks, reconciles agents |
| Local daemon | `internal/daemon/daemon.go` | slots, runtime index, running tasks | poll loop with a semaphore, one goroutine per task, cancellation poll |
| Pull-request jobs | `cmd/server/pr_job_worker.go`, `internal/service/issue_pr_store.go` | `issue_pr_job` | enqueue, claim, retry with backoff |
| Idea jobs, IdeaOS | `cmd/server/idea_job_worker.go`, `internal/service/ideaos*.go` | idea jobs, ideas | create repositories, propose and link issues |
| Scheduled triggers | `cmd/server/scheduled_trigger_worker.go` | none (reads tasks) | cron matching, deduplicated enqueue |
| Ping and update stores | `internal/handler/runtime_ping.go`, `runtime_update.go` | in-memory maps | create, pop, complete, time out |
| Realtime hub | `internal/realtime/hub.go` | rooms of clients with send channels | register, broadcast, send to user, drop slow clients |
| Event bus and listeners | `internal/events/bus.go`, `cmd/server/*_listeners.go` | inbox, subscribers, activity | synchronous fan-out of events |
| Repository cache, execution environment | `internal/daemon/repocache`, `execenv` | files | git worktrees, task directories |
| Agent backends | `pkg/agent` | child processes | drive external tools, parse their output |
| Accounts, workspaces, inbox, skills, files | `internal/handler/*.go` | their tables | create, read, update, delete |

### Web client (`src/apps/web/`)

| Part | Where | State it keeps | What it does |
|------|-------|----------------|--------------|
| Session, workspace, realtime | `features/{auth,workspace,realtime}`, `shared/api`, the dashboard's layout | session, workspace and issue stores, `localStorage`, the socket | login, boot, logout, switch, refresh, subscriptions, refetches |
| Agents page | `app/(dashboard)/agents/page.tsx` | selection, filter, tab drafts | create, save tabs, skills, archive, restore |
| Skills page | `features/skills` | selection, editor with files | create, import, edit, save, delete |
| Inbox | `app/(dashboard)/inbox/page.tsx`, `features/inbox` | items, selection | read, archive, the batch operations |
| Issue page | `features/issues/components/issue-detail.tsx` and the hooks and cards it uses | issue fields, timeline, live card, reactions, subscribers | edit, confirm, comment, reply, react, subscribe, dispatch, delete |
| Board and list | `features/issues/components/issues-page.tsx` and what it draws | view stores, selection | drag and drop, filter, batch operations |
| Runtimes | `features/runtimes` | selection, sections, terminal session | connection test, update, admin terminal |
| Ideas | `features/ideas/pages` | list, form, editor with versions | create, autosave, retry of the repository |
| Dialogs | `features/modals` | draft of a new issue | type, submit, close, reopen |
| Settings, landing, editor, interface kit; mobile client | `features/{settings,landing,editor}`, `components`, `src/apps/mobile` | forms | one request each, layout |

### How they meet

The HTTP handlers are goroutines of possibly several server processes; they share nothing
but the database, and every statement is a transaction of its own.  The task service is
called by the issue, comment, agent and daemon handlers and by the scheduled-trigger
worker.  The sweeper changes the same rows from its own goroutine.  The bus turns changes
into events for the hub, for the inbox and for the pull-request jobs; nothing of that
flows back into the queue.  A daemon knows the server only by polls, reports and the
status it asks for.  A page of the client sends requests, changes its stores before or
after the answer, and hears the events of the hub, in an order of their own.

### What is hard

- Server: a handler reads (a count, a stage, the agent, the issue) in one statement and
  acts on it in a later one; a claim decides on a snapshot and commits afterwards; a
  response may be lost after the claim committed; a report, a cancel and a timeout race
  for the same row; a client that hangs up stops its handler between two statements.
- Daemon and jobs: a slot has to come back on every path; a tool outlives what the server
  thinks of its task; a job has no lease, its statements fail one by one, GitHub answers
  late or never, and an event that comes while a job is active is dropped.
- Client: what was read before an `await` is used after it; optimistic changes are rolled
  back over later events; own events are skipped; answers of an earlier page, workspace or
  dialog arrive in a later one; timers and queues hold text that is not saved yet.

`PROJECT.json` lists each such place with its line and the properties that cover it.

### What makes each part correct

The table: an issue's root tasks form a lane (one waits, one works) and tasks only move
forward.  The task service: capacity, stage, status and mode agree with the rows.  The
handlers: work belongs to the assignee, to living agents, and to confirmed plans.  The
sweeper: nothing stays claimed for ever.  The daemon: every slot is given back, and a
task that was cancelled is stopped.  The jobs: what a run delivered is told once, truly,
and in the end.  The client: it lives in one workspace; what the user typed is stored, or
waits to be, and nowhere else; and once nothing is on its way, what it shows is what the
server has.

## Modules

| Module | Models |
|--------|--------|
| `IssueLane` | abstract: what the queue promises for root tasks of an issue |
| `TaskQueue` | the table, statement by statement; `ImplementsLane` refines it to `IssueLane` |
| `TaskService` | the service, the handlers and the sweeper over `TaskQueue`; `ImplementsQueue` refines it to `TaskQueue` |
| `Daemon` | the poll loop, `handleTask`, the tool, the cancellation poll, shutdown |
| `PullRequests` | the listeners, the job table and the workers of the pull-request jobs |
| `ServerWorkers` | `Daemon` and `PullRequests`; a behaviour follows one of the two |
| `WebSync` | the client's session, workspace, issue store, requests and socket, across pages |
| `AgentsPage`, `SkillsPage`, `InboxPage`, `IssuesBoard`, `RuntimesPage`, `RuntimeTerminal`, `IdeaPages`, `NewIssue` | one page or dialog of the client each |
| `IssueFields`, `IssueThread`, `IssueLive`, `IssueSets` | the page of an issue: fields, thread, live work, reactions and subscribers |
| `RecordPages` | the pages whose rows are records known by id, as instances over one set of variables |
| `Sublists` | what `Array.filter` leaves of a list, and the lists of a set in any order, for the lists of the issue page and the board |
| `WebPages` | all of these pages, one mounted at a time |
| `TaskQueueProofs` | theorems about `TaskQueue` |
| `TaskServiceProofs` | theorems about `TaskService` |
| `PullRequestsProofs`, `ServerWorkersProofs` | theorems about `Daemon`, `PullRequests` and the two together |
| `WebSyncProofs` | theorems about `WebSync` |
| `RecordPagesProofs`, `IssuePagesProofs`, `WebPagesProofs` | theorems about the pages |
| `MCTaskQueue`, `MCTaskService`, `MCServerWorkers`, `MCWebPages`, `MCWebSync` | values and symmetry for TLC |

### TaskQueue

`task` is the table: a record per id `1..MaxTask`, with `NoRow` for ids not inserted yet;
ids are in the order of `created_at`.  Each SQL statement is an operator with the
statement's name.  A statement whose `WHERE` tests only the row it updates is one step:
under READ COMMITTED PostgreSQL locks the row and tests it again.  `ClaimAgentTask` tests
other rows too (`NOT EXISTS`), and those it sees as they were when it began.  It is
modelled as `ClaimSnapshot`, `ClaimLock` (`FOR UPDATE SKIP LOCKED`) or `ClaimNothing`,
and `ClaimCommit`; `claim[s]` holds what goroutine `s` saw and locked.  Cancels wait for
a locked row.  `ClaimAbort` is the rollback when the client goes away.
`CreateAgentTask` is refused by the partial unique index of migration 042.

### TaskService

`req[s]` is handler `s`: its program counter and what it has read.  Each action is one
statement (or one decision between two statements), named after the function it is in.
The first action of a request carries a guard `Receive(s, kind)`: a run chooses by
`Inputs` which requests arrive.

| Request | Actions |
|---------|---------|
| claim (poll) | `Poll`, `CheckCapacity`, `BeginClaim`, `EndClaim`, `MarkWorking` or `NoTask`, next candidate |
| start, complete, fail, cancel | the statement, then `GetIssue`/`SetStage` and `CountTasks`/`ReconcileStatus` in the order of the function |
| update issue | `AssignIssue` or `EditIssue`, `UpdateIssue`, `CancelTasksForIssue`, the enqueue |
| comment | `Comment`, `CheckPending`, the enqueue; then `NextMention` for each mentioned agent |
| confirm plan | `ConfirmPlan`, `CheckActive`, `LatestPlan`, the enqueue |
| enqueue | `GetAgent`, `WriteQueueStage`, `InsertTask` |
| fan out | `FanOutTask`, `InsertChild` for each child, `WriteQueueStage` |
| agents | `MoveAgent`; `ArchiveAgent`, `CancelTasksForAgent`; `RestoreAgent` |
| runtimes | `Heartbeat`, `Lapse`, `DaemonDeregister` |
| sweeper | `MarkStaleRuntimesOffline`, `SweepOrphans`, `SweepStaleTasks`, `SweepCount`, `SweepSetStatus` |

`Abandon` ends a handler after any statement: its context is the request's, so the
statements left fail.  `delivered[t]` says whether a claim response carried the task;
only then does a daemon report on it.  The daemon reports on a task one request at a
time, in any order the server would accept.

### Daemon, PullRequests, ServerWorkers

`Daemon` has `loop` (`pollLoop`), `sem` (the semaphore), and for each task `hand` (where
`handleTask` is), `proc` (the tool's process) and `watch` (the goroutine that polls for a
cancellation).  The server's side of a request is one step on `row`, which is cut down to
status and issue: a request is taken or not and its answer arrives or not (`Request`), so
`StartTask`, `CompleteTask` and `FailTask` each have every outcome.  `began` is history.
A claim in it takes a task of an issue without active rows, as the statement does
when claims of a root and of a child do not overlap; where they do, `queue_serial` shows
two active rows, and the daemon would run both.

`PullRequests` has the job table (`job`), what each worker is at (`work`), the runs of the
issue in the order they completed (`run`), events on their way to the listeners (`event`)
and the branches with an open pull request (`pull`).  The worker's function is one action
per statement or GitHub call, in the order of `pr_job_worker.go`, with the outcome of each
call chosen by the environment within `faults`.

`ServerWorkers` EXTENDS `Daemon` and takes `PullRequests` as an instance; `part` says which
of the two a behaviour follows.  They meet only in the completion of a task, which is
where `PullRequests` begins, so the product of their interleavings would show nothing more.

### WebSync and the pages

`WebSync` follows what outlives a page: the session, the stores of workspaces, issues and
members, `localStorage`, the identity the API client sends, the socket with its retries
and its rooms at the server, the events on their way.  A store update and the React
effects it causes are one step; a request is three: sent, answered from the rows of that
moment, delivered.

The pages are modules of the same shape: the component's state, `call` (requests in
flight, each with what the handler captured before its `await`), `wire` (events on their
way), `row` (the server's rows), and `left`, the bound on clicks, background changes and
failures together.  Answers and events are not bounded by it.  What a variable stands
for is said at its declaration.  Variables called bookkeeping (`clean`, `broken`, `lost`,
`late`, `astray`, `typed`, `excused`, ...) change nothing; properties read them.

`WebPages` composes them as the router does: one page is mounted at a time, its state is
created with it.  The modules do not share their state, so one set of variables stands for
whichever page is on the screen: each page is an `INSTANCE` with its variables replaced by
`store`, `view`, `part1`..`part5`, `call`, `wire` and `row`, and `screen` says which page
it is.  Each property of a page is stated there as what holds while that page is mounted.
`RecordPages` holds the instances of the agents, the skills, the inbox, the issue's fields
and live card, the runtimes with their terminal, the ideas and the dialog, and what mounting
them means; `WebPages` EXTENDS it with the pages that keep their rows in an order (board,
thread, reactions) and with the router.

## Runs

A run answers one question about one instance.  Races in this code are between two actors
over one object, so two handlers, two requests or two workers and two or three tasks reach
them.  `CHECK_DEADLOCK FALSE` is set in every run because the bounds run out: ids are used
up, or clicks.

| Run | Instance | Shows |
|-----|----------|-------|
| `queue_lanes` | 2 agents, 1 issue, 3 tasks, 2 priorities, 2 overlapping claims | lanes, locks, order and lifecycle hold; the table implements `IssueLane` |
| `service_overlaps` | 2 overlapping handlers, 2 agents, 1 issue, 3 tasks; polls (which may hang up), reports, comments, mentions, confirmations | handlers implement `TaskQueue`; no build before a plan; the stage settles |
| `service_sequential` | 1 handler at a time, 2 runtimes, 3 tasks, moves and fan-outs | status and confirmation hold without overlaps; orphans come from moves only |
| `service_outages` | 1 handler beside the sweeper, 2 issues, 2 tasks, reassign, archive, fan-out, outages, timeouts | archived agents have no work; work is the assignee's |
| `service_progress` | 1 agent with one slot, 2 issues, 2 handlers, fairness | queued tasks leave, claimed tasks end |
| `server_workers` | daemon: 2 tasks, 2 issues, 2 slots; jobs: 2 workers, 2 runs, 2 jobs, 1 branch, 1 fault | slots and outcomes come back; tools run alone but for cancellations and timeouts and are stopped when cancelled; results are told once, truly, in the end |
| `web_pages` | twelve pages and panels | what was typed and what is shown survive requests and events in any order |
| `web_sync` | 2 workspaces with an issue each | one workspace everywhere; no skeleton for ever; foreign issues only from late answers |
| `queue_serial` | violation | a root and a child of one issue active together |
| `overlap_capacity` | violation | an agent over `max_concurrent_tasks` |
| `unassign` | violation | tasks left with the agent that was unassigned |
| `page_hears` | violation | a page that hears no events although the socket is open |

Bounds of the server's runs: `MaxTask` is how many rows are inserted; `Session` how many
handlers (or claims) are in flight at once; `Inputs` which requests arrive;
`IdsUsed`/`IdLeft` stop new enqueues when no id is left, so that no handler waits for one.
A third task is what it takes to have one working, one waiting and a child.
`service_overlaps` lets only polls hang up and leaves fan-outs out, for size; that every
handler, abandoned anywhere and with fan-outs, implements the table, and that nothing is
built unplanned, is proved instead.

Bounds of `server_workers`: `MaxAttempts` is 2 where the code has 5: what matters is whether
an attempt is the last.  One fault is one process that dies, one statement that fails or
one event lost.  The status of the issue starts anywhere and changes once (`MaxTurns`).
Two jobs are what it takes to have one overtake the other.

Bounds of `web_pages`: two requests in flight (three on the fields and the sets, where the
properties need the order of three toggles), two events on the wire (three on board and
sets), and `left` between 2 (fields, thread, runtimes, board) and 5 (terminal; 4 for the
ideas and the sets, 3 for the rest).  With one step more each page, taken alone, holds as well.
`web_sync`: two workspaces, two revisions of an issue, two requests, one event on the
wire, four clicks, changes and failures.

Every property of a passing run has a mutant in `PROJECT.json`: a plausible bug in one
mapped definition that makes TLC report the property.  The mutated forms stand in the
modules right before the definitions they replace, under a comment `Mutation:`.

### Fairness

`FairSpec` and `ServiceFairSpec` state what the liveness of the queue needs and no more:

- handlers that are in flight finish (weak fairness of each session's steps): goroutines
  are scheduled, statements end;
- a daemon polls each runtime for ever (strong fairness of `Poll`: strong because the
  bounded sessions of the model are sometimes all taken, the server's goroutines are not);
- the sweeper's ticker returns, and a row that stays active grows older until it is past
  the limit of `FailStaleTasks` (strong fairness per task, because the sweeper is busy at
  times), and a sweep that has begun finishes.

No fairness is assumed of reports, comments, cancels or heartbeats.

`Daemon` has weak fairness of `Handle(t)` (a goroutine is scheduled, its requests are
answered or time out after `client.go:52`, a process whose context is cancelled is killed)
and of the cancellation poll (its ticker finds a server that answers in the end).  That
the tool itself ends (`AgentEnds`) is not assumed: `CancelledRunStops` holds for a tool
that would run for ever.  The client's modules and `PullRequests` have no liveness
property: "waits to be saved", "is on its way" and "has a job that will be tried" are
stated as invariants about what is under way.

## What is proved

All theorems are checked by TLAPS, for every value of the constants, from nine assumptions
on them: `TaskQueueAssumption`, `TaskServiceAssumption`, `DaemonAssumption` and
`WebSyncAssumption` give the constants their types, `TasksInOrder` says that among
some tasks one is the newest, `PathsFinite` that a skill has finitely many files,
`EntriesNumbered` that comments and activities, this user's among them, are numbered from 1,
`RowsOfCards` that the board starts with finitely many issues, each in its own row, and
`FirstRequests` that a page has room for the request it is mounted with.
`PullRequests` needs none: its theorems hold for any servers, branches and bounds.

| Theorem | Module | Property |
|---------|--------|----------|
| `TypeCorrect` | `TaskQueueProofs` | `TypeOK` |
| `PendingRootIsUnique` | | `OnePendingRoot` |
| `ActiveRootIsUnique` | | `OneActiveRoot` |
| `SnapshotsAreSafe` | | `ClaimInv` and `OrderInv` |
| `LifecycleHolds` | | `Lifecycle` |
| `ClaimedInOrderHolds` | | `ClaimedInOrder` |
| `TableImplementsLanes` | | `ImplementsLane` |
| `ServiceTypeCorrect` | `TaskServiceProofs` | `ServiceTypeOK` |
| `ServiceImplementsQueue` | | `ImplementsQueue` |
| `ServerKeepsLanes` | | the lane invariants, of the whole server |
| `ServerImplementsLanes` | | `ImplementsLane`, of the whole server |
| `NothingIsBuiltUnplanned` | | `BuildAfterPlan` |
| `ClaimsAreDelivered` | | `OrphanedOnlyByMove` |
| `ConfirmsWaitForRuns` | | `ConfirmWaitsForActiveRun` |
| `StagesSettle` | | `StageSettles` |
| `WorkIsTheAssignees` | | `WorkFollowsAssignee` |
| `ArchivedAgentsAreCleared` | | `ArchivedAgentHasNoTasks` |
| `StatusesSettle` | | `StatusSettles` |
| `SlotsAreGivenBack` | `ServerWorkersProofs` | `DaemonGivesBack` |
| `ToolsRunAlone` | | `DaemonRunsAlone` |
| `DaemonTypeCorrect` | | `TypeOK` of `Daemon` |
| `DaemonBesideJobs` | | the daemon's two, beside the workers of the jobs |
| `PullsAreToldTruly` | | `PullTold` |
| `PullsAreDelivered` | | `PullDelivered` |
| `SyncTypeCorrect` | `WebSyncProofs` | `SyncTypeOK` |
| `ClientHasOneWorkspace` | | `OneWorkspace` |
| `SkeletonHasAFetch` | | `LoadingEnds` |
| `ForeignIssuesComeLate` | | `ForeignOnlyLate` |
| `TerminalTells` | `WebPagesProofs` | `TerminalConnectionShown` |
| `RuntimesPoll` | | `RuntimesBusyIsPolled` |
| `DialogKeeps` | | `DialogTypedIsKept` |
| `LiveCardTells` | | `LiveCardIsLive` |
| `AgentsKeepTheirOwn` | | `AgentsNoCrossWrite` |
| `SkillsKeepFiles` | | `SkillsFilesKept` |
| `InboxSettles` | | `InboxSettledAgrees` |
| `FieldsSettle` | | `FieldsStoreConverges` |
| `IdeasForgetNothing` | | `IdeasNoEditForgotten` |
| `ThreadShows` | | `ThreadAgrees` |
| `SetsSettle` | | `SetsShownAgree` |
| `BoardSettles` | | `BoardStoreAgrees` |

**The table.**  The inductive invariant is `IInv = TypeOK /\ OnePendingRoot /\
OneActiveRoot /\ ClaimInv /\ OrderInv`.  `OneActiveRoot` alone is not inductive: a claim
that commits makes a row active without looking at the others again.  What makes it safe
is `LaneStaysFree`: a root that a claim saw while its lane was free, and that is still
queued, occupies the one pending place of its issue (`OnePendingRoot`), so no other root
can have been inserted and claimed since.  `LocksHold` says that the row to commit is one
the claim saw, still queued, and nobody else's.  That the unique index covers dispatched
rows as well as queued ones is what the argument rests on; the mutant `IndexQueuedOnly`
shows it fails otherwise.  `SeesEarlier` and `NoGaps` do the same for the order of claims:
a claim that saw a task has seen every earlier task of the same agent and issue.

Each action is reduced to the effect it has on the rows (`SetStatusEffect`,
`StepKinds`), and the lemmas `InsertPreserves`, `EndsPreserves`, `StartPreserves`,
`SnapshotPreserves`, `LockPreserves`, `ReleasePreserves` and `CommitPreserves` treat the
effects; `NextPreserves` puts them together.

The refinement maps a lane's waiting place to the one queued root of the issue, its working
place to the one dispatched or running root, `started` to that root running, and `entered`
to the roots inserted so far.  The places are well defined because `IInv` gives at most one
root for each.  A step that moves no root leaves the lanes alone (`LanesAlone`); there is
one lemma for each kind of step that may move one: `InsertEnters`, `StartBegins`,
`EndsLeave` (a cancel or a sweep may empty places of many issues at once) and
`CommitDispatches`.  `LaneSteps` joins them.

**The server.**  `SInv` adds to `IInv` the types of the service and, for every handler,
`Ready`: at each program counter what the next statement takes (an issue, an agent, a
task, a mode) has been read.  Every action of a handler is then one statement of
`TaskQueue` or leaves the rows alone (`Advances`), so the specification of the service
implements that of the table, and the theorems of the table hold of the whole server,
with any number of handlers overlapping and abandoned anywhere.

**Planned before built.**  A stage that lets a root build has evidence: a plan task of
the issue that completed, or children a fan-out put in build mode.  Evidence never goes
away, because finished rows stay as they are and modes never change; `BInv` says that each
stage written and each mode a handler carries has evidence (`Warranted`), so it does not
matter how old the read was that it came from.

**What the server leaves behind.**  Six theorems of `TaskServiceProofs` hold of some
mixes of requests and not of others, and state the mix as a hypothesis on the constants:
`One` (requests are served one after another) or `NoneOf` (these kinds of requests stay
away).  The runs they belong to are instances that satisfy the hypotheses, and "What the
model says about the code" lists what breaks each of them outside.

| Theorem | Overlaps | Requests that stay away |
|---------|----------|-------------------------|
| `ClaimsAreDelivered` | any | polls that hang up, handlers cut off |
| `ConfirmsWaitForRuns` | none | |
| `StagesSettle` | any | cancel, assign, archive, fan-out, outages, timeouts, handlers cut off |
| `WorkIsTheAssignees` | none | mention, unassign, handlers cut off |
| `ArchivedAgentsAreCleared` | none | handlers cut off |
| `StatusesSettle` | none | assign, archive, outages, timeouts, handlers cut off, polls that hang up |

Each has the same shape: a state at rest is right, and one that is not right has a handler
that carries what will put it right.  `OInv` says where the claimed task is on its way to
the daemon (`Looks`).  `CInv` says that a confirmation past its check still has an idle
issue.  `GInv` says that a stage of planning or building has a live task or a handler that
promises one or will write the stage again (`Promises`), and that a start that is still
being reported is of a row that runs (`StartIsOn`): the daemon reports on a task one
request at a time.  `WInv` and
`AInv` say that a live task of the wrong agent, or of an archived one, has a handler about
to cancel it (`Settled`, `Cleared`), and that a handler about to insert has an agent that
is right (`Follows`, `Approved`).  `UInv` says that a status that differs from the rows
has a handler that owes the write (`Owes`) and knows what to write (`Informed`).

**The daemon.**  `RunsInv` relates goroutines, processes and rows: a task has one
goroutine in its life (`HandledOnce`), a tool runs only under a goroutine that waits for it
(`ToolsWait`) and after the server took the start (`StartedFirst`), the server keeps one
active row per issue (`OneActive`), a poll that has told of a cancellation saw one
(`SeenIsCancelled`), and a goroutine that is gone has ended its row (`GoneIsOver`).  The count of the
semaphore is a second invariant, by cardinality of the set of live goroutines.

**The jobs.**  `PInv` ties a job to its worker: an issue has one live job (`OneJob`), a job
that runs has at most one worker (`OneWorker`), a worker's run is one it read and its
outcome one it saw (`WorkersSound`), a run is commented on once unless a fault came between
(`Commented`), and what an issue was told of a run is so (`ToldTrue`).  `DInv` adds what
delivery rests on: a running job has a worker or its worker died (`RunningHasWorker`), a
worker that leaves has dealt with its run (`LeavesDealt`), and the latest run is dealt
with or covered by an event, a job or a worker that will read it (`LatestCovered`).  Both
are proved of `PullRequests` in `PullRequestsProofs` and carried to `ServerWorkers`, where
a step of the daemon leaves the jobs alone and the other way round.

**The client.**  `SyncInv = Typed /\ OneWorkspace /\ SocketQuiet /\ FirstLoad /\
RowsBelong`: events come only over an open socket, and a socket has a workspace to which the
issues it announces belong (`SocketQuiet`); while the skeleton shows, a fetch that takes it
down is under way or no workspace was hydrated yet (`FirstLoad`); a fetch is answered with
issues of the workspace it was sent for (`RowsBelong`).

**The pages.**  One page is mounted and makes all the steps, so it is enough that each page
keeps an invariant of its own; `WebPagesProofs` says so once for each page.  The variables have no types there, since they stand for the
state of whichever page is mounted: each invariant begins with the shapes of the page's
records (`TerminalShape`, `FieldsShape`, ...).  What it adds is why the property
survives answers and events in any order:

- Terminal and runtimes: `TerminalConnectionShown` and `RuntimesBusyIsPolled` are
  inductive with the shapes alone.
- Dialog: `TextInv` follows each text typed last from the form to the draft, the timer, a
  request and the issue; `AskInv` says that one submission is under way at most and only
  while the button is disabled.
- Live card: whatever task the card, or an answer on its way, names is one whose end is
  still to be told or was lost in a way the model names (`CardTold`, `CallsTold`).
- Agents: the drafts in the detail are written for the agent that is selected (`DraftOwn`)
  and each stored text is of its agent, in the store as in the rows (`OwnTexts`).
- Skills: an answer to a load that crossed no save has all files of the server (`LoadsFit`);
  an editor that took them has, or dropped, whatever the server has or is about to be sent
  (`EditorHas`), and so has each save it sends until another one is sent (`SavesHave`).
  Looking for this invariant showed that two editors of one skill, one after another, can
  lose a file together, which the clicks it takes had kept out of `web_pages`;
  `FileLostUnloaded` names it now.
- Inbox: while nothing overlapped (`part5`), one request is out at most, the store agrees
  with the rows when none is, and otherwise what the answer does makes them agree
  (`WillAgree`).  `OperationsAgree` says that the store's operations are the table's.
- Fields: the last update on the wire tells the row of the server (`EventsTell`), and a
  store that differs has an update coming or a write of its own unanswered (`StoreTold`).
- Ideas: an editor that has its idea has one live save at most, one that has not has one
  live load (`OneSave`, `OneLoad`), and an editor without a save under way says truly
  whether its draft is committed (`Tells`).  Looking for this invariant showed that the
  row of a newly created idea must not count as a commit of the editor of an older one;
  the bound of `web_pages` was too small for the two to meet.
- Thread: every entry that exists is on the screen, or a `created` event on the wire tells
  of it (`Heralds`), or a request brings it (`CallsBring`: a list, an own new comment, a
  deletion that may yet fail), or it is in `lost`; what a `deleted` event on the wire takes
  away does not exist any more (`GoneFor`); and what is listed twice was put back
  (`OnceBut`).  A list that arrives has everything: that is `LinesListed`.
- Reactions and subscribers: a list fits when, actor by actor, the last event on the wire
  about the actor tells the row, and where there is none the list does, with what a toggle
  still asks for or an answer still brings (`Fits`, `ListFits`, `MineFits`).  Each step of
  the page keeps a list fitting or is one that `astray` remembers.  Looking for this
  invariant showed that a toggle that failed puts its entry back although a later toggle
  of it is under way, which needs four clicks; `Crossed` names it now.

- Board: issue by issue, the last event on the wire about it tells its row, and on the wire
  creations and deletions of one issue alternate, with updates in between (`LastPost`,
  `Lifetimes`: together `Posting`).  The events then lead from the store to the row
  (`Leads`): one of them deletes the issue; or the issue is in the store, or a `created`
  event is to come, exactly if the row is there, and what the store has of it is the row, or
  an `updated` event is to come, or a move or a pick is still to be answered.  The invariant
  is that this holds of every issue, or a fetch is under way, or `astray` remembers what
  went wrong.  `LeadsOn` shows that hearing one event changes nothing of it, in either
  direction, and `AgreesLeads` that at the end of the wire it is `Agrees`.  Looking for this
  invariant showed that an issue that was created while the first list was answered has its
  `created` event still to come, and that two picks of it that fail one after the other then
  leave a wrong assignee behind: the event finds the issue in the store and corrects nothing.
  `Missed` took it for a correction; it counts updates and deletions only now.  To see this
  takes six steps, more than the run has.

The lists of these three are filtered, and a filter is a recursion (`Sublists!Kept`), as
is what the events make of the board's store (`Told`). What the proofs need of a filter
is that the result has the kept elements, in their order (`KeptAll`), which follows
without induction: the shortest prefix that had it wrong would contradict the one before
it.

### Model-checked only

- Liveness (`QueuedTasksLeave`, `ActiveTasksEnd`, `CancelledRunStops`): fairness is out of
  the prover's reach.
- `BoardDropsLand`: a drop between two cards halves their distance, so the statement is true
  of as many drops between the same two as `Unit` can be halved, and of no more; the numbers
  of the code run out of halves as well, after some fifty.  What sorting a column computes
  for every input is an induction over data besides.

## What the model says about the code

Four statements in the code's comments do not hold, each with a run and an entry under
`findings`: per-issue serialization across fan-out children (`agent.sql:88-91`), the
capacity check of an "atomic" claim (`task.go:276-277`), the reconciliation when an
issue is unassigned (`issue.go:684`), and the page's own subscriptions
(`use-realtime-sync.ts:32-33`).  Further facts met on the way; where a property names
an exception, it is one of these.

Server:

- `PerIssueSerialization` and `RespectsCapacity` hold with one handler at a time.
- `ArchivedAgentHasNoTasks`, `ConfirmWaitsForActiveRun` and `StatusSettles` hold with one
  handler at a time and fail with two: an enqueue that read the agent before it was
  archived, a mention between `ConfirmPlan`'s check and its insert, a claim between a
  reconcile's count and its write.
- `StageSettles` fails when fan-outs (the stage is written after the children), cancels
  and reassignments, or the sweeper (which never writes a stage) take part.
- `StatusSettles` fails after a reassignment or an archive: tasks are cancelled and the
  status is not reconciled.
- An archive abandoned between its two statements leaves live tasks, and repeating it is
  refused.
- The comments at `task.go:176-177` (children can run in parallel) and `agent.sql:90-91`
  (children execute serially) contradict each other; the statement does the second, up
  to the race of `queue_serial`.

Daemon:

- The cancellation poll cancels the run before it tells that it did, so a late `FailTask`
  may be sent for a cancelled task; the server refuses it.
- After a shutdown the reports use the cancelled context: the rows stay active until the
  sweeper finds them.
- `pollLoop` waits at most 30 s for its goroutines when it is cancelled while awake, and
  without limit when it is cancelled in its sleep (`daemon.go:729`, `:779`).
- A task that the sweeper failed keeps running beside its successor; the poll asks for
  "cancelled" only.

Pull-request jobs:

- A worker that dies, or a `Mark*` statement that fails (its error is ignored), leaves the
  job running for ever, and it blocks all later jobs of its issue.
- Any error of `GetIssue` skips the job as "issue not found".
- An event is dropped when the issue's active job has already read the runs.
- A `CompleteTask` whose request is given up publishes no event, so no job follows.
- A `CreatePullRequest` that times out is taken for a handoff although the pull request may
  exist; a comment that cannot be rewritten is followed by a second one.
- The completed task that was *created* last is looked at: one that was overtaken is never
  delivered, and a plan task without a branch hides an earlier build.

Session, workspace, realtime:

- A `refreshWorkspaces` in flight reverts a switch made meanwhile; after two switches the
  roster may be that of the first; a logout during a request stores the workspace again.
- Events between a fetch and the registration in the hub are missed, and the first
  connection does not refetch; a stale fetch overwrites newer events.
- A user who was removed while the socket was down reconnects, and is refused, for ever; a
  transient failure at boot logs out; a logout keeps the issue and inbox stores.

Issue page:

- Fields: a rollback restores the whole old issue; an emptied description is not sent; the
  description's timer dies with the page; a confirmation does not name the revision of
  the plan that was read.
- Thread: a comment that could not be sent leaves the input all the same, and an edit that
  failed never reaches its `catch`; a comment whose answer is lost is not shown; the
  rollback of a deletion duplicates after a refetch; folding a thread loses what was typed
  in it.
- Live card: cancelling all tasks of an issue publishes no event, so the card stays; the
  answer on mount can show a task again whose end was heard; nothing is refetched on
  reconnect.
- Reactions and subscribers: own toggles that the server takes in another order than they
  were sent stay apart; another tab's own reactions are never heard; a fetch that crosses a
  toggle loses or duplicates it; a toggle that fails puts its entry back, or takes it away,
  although a later toggle of the same entry is under way.

Board:

- New issues all have position 0, so drops between them do not land; a drop on the free
  area of a column in descending order goes on top, although `board-view.tsx:132` says it
  appends; a drop on a board in another order changes to the manual one.
- Hiding the last visible status shows all; the selection keeps issues that were filtered
  out or deleted; the answer of a batch overwrites events; the endpoints of the batches
  skip what fails and answer 200.
- Two picks of a card that overlap and both fail leave the assignee of the first behind
  (`board-card.tsx:50`): the second puts back what it found.
- The lists ask for 200 issues (`issues/store.ts:33`); the model is of workspaces that have
  no more.

Agents, skills, inbox:

- Enter in the name field of a new agent ignores that a creation is under way; every
  refresh of the agents wipes drafts of tools and triggers; a list of skills sent from a
  stale store drops a skill.
- Saving a skill before its files are there, or after they failed to come, deletes them
  at the server (`skill.go:332`); so does a save of an earlier visit of the editor that the
  server takes after the new editor has read the files, or after it has saved; the answer
  to such a save makes the new editor's Save available; a late answer adds a deleted skill again; a file whose
  path is a directory of another is not drawn.
- Deleting an issue from the inbox deletes its items by cascade and the archive that follows
  gets 404, so the item stays; archiving what is read brings up an older unread item of the
  same issue; batch operations reach items the user has not seen.

Runtimes and terminal:

- Polls overlap: a late "running" shows a test that nobody asks for any more, and a stale
  completion clears the interval of a newer one; an answer after the section is gone sets
  an interval nobody clears.
- A running ping never times out at the server, a late result overwrites a timeout, and a
  ping that was cleaned up is asked for in vain.
- A connect answered after the page was left opens a socket nobody closes; a close that
  crosses a new connect disconnects it; an expired session is called "exited".

Ideas and the dialog of a new issue:

- A save that failed is not tried again before the next keystroke; after one whose answer
  was lost every save conflicts until a reload; leaving the editor loses the last three
  seconds; late suggestions replace a name that was typed.
- A late answer clears the draft and closes the dialog that is open by then; a retry after a
  lost answer creates twice; the last half second of the description is lost on closing.

## What is left out, and why

Of modelled parts:

- Deleting an issue or an agent removes its rows by cascade; `TaskQueue` has no deletes.
- `CreateIssue` and `BatchUpdateIssues` reach the queue through the same enqueue and the
  same cancel as `UpdateIssue`.
- The status of an issue (done, cancelled) only decides which comments trigger; both
  choices are inputs of the model.
- Triggers, visibility and ownership of agents, and whether a runtime supports a mode:
  every request in the model is one the handler lets pass.
- Task results, sessions, run memory, comments written by the service.  With them the
  revisions of plan artifacts: `task.go:649` takes the next from the latest, and two plan
  tasks that complete together take the same.
- Database errors, other than the unique index, abandoned requests and the failing
  statements of `PullRequests`.
- A cancel of several rows is one step; PostgreSQL would lock them one by one.
- `Daemon`: registration, heartbeats, synchronisation of workspaces and configuration,
  transcripts, usage, self-update.  The rotation over runtimes: `allRuntimeIDs` iterates a
  map, so no order is promised.
- `PullRequests`: plan tasks (their result is written again after completion), pull requests
  that people close, issues without a repository.
- Client: layout, wording, the rich-text editor, uploads of avatars, charts, resizing,
  addresses changed from outside, other tabs that share `localStorage`, the sort orders
  that only the display uses; `MyIssuesPage`, which nothing renders.

Parts that are not modelled:

- Idea jobs: the table and worker of the pull-request jobs again, without their
  listeners; what is left are calls to GitHub.  IdeaOS is seen from `IdeaPages`.
- Scheduled triggers: a ticker, a cron matcher and one enqueue.  Two servers may both
  enqueue, which the lane of `TaskQueue` absorbs.
- The hub's channels and locks: `SendToUser` sends after it released the lock, a send on a
  closed channel panics, `bus.Publish` recovers, and the remaining targets miss the message.
  `WebSync` has only whether an event arrives.
- Event listeners (inbox, subscribers, activity): single inserts that nothing reads back
  into the queue.
- Repository cache, execution environment, agent backends: files and processes.
- Accounts, workspaces, skills, files, GitHub OAuth, mail, storage, middleware, CLI,
  migrations: one statement or one call outside each.
- Settings, landing pages, interface kit, mobile client: forms that send one request, and
  layout.
