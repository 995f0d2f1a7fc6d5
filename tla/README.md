# Virtual Engineer: TLA+ verification project

TLA+ models of Virtual Engineer, the TLC configurations that check them on
small instances, and theorems that TLAPS proves for every instance.  Paths of
the program are relative to its `src/` directory unless they start with `src/`.
`PROJECT.json` maps every definition to the lines it stands for.

## 1. The system

Virtual Engineer is one Node.js process that turns tickets into code changes
and reviews changes of others, with coding agents that run in sandboxes.  All
durable state is one SQLite database behind a synchronous driver; everything
else is memory of the process.  Node runs one callback at a time, so code
between two `await`s is atomic, anything may happen at an `await`, and the
process may stop at any point and start again from the database.

### 1.1 Components

| Component | State | Operations | Correct when |
|---|---|---|---|
| Concurrency tracker `orchestrator/concurrencyTracker.ts` | counters per integration, project and in total; wait queue; live leases; cached limits | `acquire`, `acquireWhenAvailable` (with abort), `release`, the drain loop | counters equal leases, limits hold, no slot is stranded, no waiter is lost or overtaken, every waiter settles |
| Task lifecycle coordinator `orchestrator/taskLifecycleCoordinator.ts` | promise tails per task and per project, abort controllers, parked cancellations, projects being deleted | `runTask`, `cancelTaskAndRun`, `acquireProjectStart`, `deleteProject` | operations of a task run alone and in call order, a deletion leaves no live task, a cancellation hits only what was called before it, no chain waits on itself |
| Task state machine `state/stateMachine.ts` and task store `state/stores/taskStore.ts` | task rows, `state_transitions`, agent cycles, rows of changes, processed comments | `transition`, `abandonTask`, `retryTask`, `deleteTask`, `pauseTask`, `startAgentCycle`, `reconcileOrphanedActiveTasks` | every writer respects the machine; rows agree with the state |
| Orchestrator `orchestrator/orchestrator.ts` | workflows that are active | `runWorkflow`, the agent cycle, `handleReviewEvent`, `markChangeMerged/Abandoned`, `abandonTask`, `resumeActiveTasks` | one workflow per task, no task stuck, cycles bounded |
| Review progress, push and feedback `orchestrator/{reviewProgressService,projectPushService,feedbackProcessor}.ts` | rows of changes, processed comments | check of all changes of a task, push of all targets | convergence only when everything is merged, no comment handled twice or dropped |
| Polling loop `orchestrator/pollingLoop.ts` | backoff, cooldowns, a watermark per project (in the database), the revisions dispatched | intake of tickets, polls of tasks in review and of stalled tasks, discovery of reviews | one task per ticket, polls recover what events lost, no revision falls behind the watermark undispatched |
| Review orchestrator `review/` | review tasks, ledger of posted comments and replies | triggers, review passes, posting, recovery | a patchset is reviewed once, nothing is posted twice, superseded results are dropped |
| Event streams `connectors/*StreamEvents.ts` | handles, reconnections, backfills | reconcile, reconnect, backfill, stop | one listener per demanded integration, never silently gone, no backfill forgotten |
| Workspace runner `workspace/openShellWorkspaceRunner.ts`, OpenShell client, sandbox reconciler `openshell/openShellSandboxReconciler.ts` | rows of credential providers; sandboxes and providers at the gateway | create and destroy per attempt; periodic inventory and deletion | never deletes what a live task uses; what a crash leaves is found and reclaimed |
| Plugin manager `plugins/pluginManager.ts` | connectors of enabled integrations | load, enable, disable, reload | what is active is what is enabled |
| Webhook server, connectors, VCS, agent adapters, agent worker | almost none | I/O | out of scope, except as the environment of the above |
| Admin server, authentication, policies, user interface | sessions, rate limiter, log buffers | HTTP routes | small algorithms: limiter, log replay |

### 1.2 How they interact

A trigger (poll, webhook, stream event, operator) calls the orchestrator.  It
wraps its work on a task in the coordinator's `runTask`, so that one operation
at a time runs for a task; an operator's abandonment goes through
`cancelTaskAndRun`, which aborts what runs and waits for it.  Inside the
operation an agent cycle acquires a lease of the concurrency tracker, claims
the task with `transition(AGENT_RUNNING)`, runs the agent, pushes and releases
the lease in a `finally`.  Retry, pause and delete of a task go to the store
directly and happen between any two steps of the operation that runs.  At a
restart, `index.ts` fails tasks found with a running agent, then resumes the
others, then starts polling.

A review is triggered for a change by the same four sources.  The trigger
starts or reuses a row of the change and enters a pass through the
coordinator; the pass waits for a lease, runs an agent in a sandbox, publishes
its findings and replies on the review system and leaves the row watching the
change.  Polls and webhooks end the row when the change is merged or abandoned.
Each run of an agent owns a sandbox and a credential provider at the OpenShell
gateway; the reconciler removes, on a timer of its own, those whose task is no
longer active.

### 1.3 What is hard

- The drain loop of the tracker keeps an index into a queue over an `await`
  while calls insert into the queue and aborts remove from it.
- Promise chains per task, cut across by project deletions which wait for
  several chains at once and which may fail half way.
- The task row is written by the operation that drives the task, by the
  operator and by a restart; the driver works with rows it read earlier.
- Two awaits may separate the effect outside (a review opened, a ticket closed,
  a comment resolved) from the row that records it.
- A failed step is left through nested `finally` blocks, and who handles the
  exception depends on who started the operation.
- A publication is a call outside followed by a write of the ledger; a patchset
  may arrive, a change may close and a trigger may reuse the row at any await of
  the pass that publishes.
- The reconciler decides from three reads made one after the other, page by
  page, and deletes later, while attempts begin and end and tasks come back; a
  page may take longer than the age below which it spares a sandbox, and a
  creation that was given up may still be carried out by the gateway.
- Polls of one project overlap and share the watermark and the memory of what
  was dispatched; each reads the repositories page by page while changes move.
- A process that was told to end closes later than the process that replaces it
  starts, and what it then reports must not count for the new one.

`PROJECT.json` lists the single hazards with their lines and the properties
that watch them, and those that no module reaches yet.

## 2. Plan

Modules in the order they are written, most important behaviour first:

| # | Module | About | Status |
|---|---|---|---|
| 1 | `ConcurrencyTracker`, `_proofs`, `_order_proofs` | slots and the drain loop; implements the abstract `SlotPool` | done: checked and proved |
| 2 | `TaskLifecycleCoordinator`, `_proofs` | promise chains, deletion; implements the abstract `SerializedTasks` | done: checked and proved |
| 3 | `TaskStateMachine` | abstract specification of a task row | done |
| 4 | `CodeGenTask`, `_proofs` | one task driven by workflow, polls, webhooks, operator, restarts; implements 3 | done: checked and proved |
| 5 | `ReviewTask`, `_proofs` | triggers, passes, superseded patchsets, posting and its ledgers, recovery; implements 3 with `TaskType = "code-review"` | done: checked and proved |
| 6 | `SandboxLifecycle`, `_proofs` | sandboxes and providers of attempts against the paged inventory of the reconciler | done: checked and proved |
| 7 | `ReviewDiscovery`, `_proofs` | overlapping polls of an automatic review project, watermark and memory | done: checked and proved |
| 8 | `StreamEvents`, `_proofs` | listener, reconnections, backfills under reconfiguration | done: checked and proved |
| 9 | `TicketIntake` | intake of tickets by polls against webhooks; backoff of the timer | planned |
| 10 | `ChangeRows` | rows of tasks that push several commits to a repository (`ORPHANED`, reconciliation of Change-Ids) | planned |
| 11 | `LoginRateLimiter`, `LogReplay` | small algorithms against reference definitions | planned |

Three abstract specifications say what a component promises to the others, and
the detailed modules are shown to implement them: `SlotPool` (1),
`SerializedTasks` (2) and `TaskStateMachine` (4 and 5).

Composition: `CodeGenTask` and `ReviewTask` take from `SerializedTasks` the
shape of their `op` and `queue` (operations of a task run one at a time, in the
order of their calls), and from `SlotPool` one step `AcquireLease` or
`AcquireSlot` (a call gets one slot, or ends with none) with the release that
undoes it.  What the tracker promises of that step holds with a condition
(`OrderlySpec`, finding 1): `ReviewTask` states it as a condition of its own
liveness properties, and `CodeGenTask` as part of its fairness.
`SandboxLifecycle` takes from `SerializedTasks` that one attempt of a task runs
at a time, though the task may be retried under it.  `ReviewDiscovery` sees a
trigger of `ReviewTask` as one call that returns or fails.

## 3. The modules

### 3.1 `ConcurrencyTracker`

| State | Code |
|---|---|
| `store`, `cache` | agent records in the database; what the cache of `agentLimits` may still answer |
| `queue`, `call` | `pendingAcquisitions`; the promise of each call |
| `active`, `perIntegration`, `perProject`, `activeGlobal` | `activeLeases` and the three counters |
| `drain` | `drainingPending`, `drainRequested`, and the loop's `index` and `progress` |
| `frame[p]` | where process `p` stands inside `acquireSlot`: the drain loop, or one direct caller of `acquire` |

`acquireSlot` awaits the limits of its agent, then (for a direct call) the
limits of each queued waiter in turn, to see whether one of the same key waits
already, and only then checks and reserves without another await.  Each stretch
is an action (`LimitsLoaded`, `ScanLoaded`, `Reserve`, `LoadFails`).  A turn of
the drain loop ends in one of `DrainError`, `DrainSettled`, `DrainNone`,
`DrainGrant`.  `acquireWhenAvailable` inserts by priority, `onAbort` rejects,
`release` is idempotent and wakes the loop, `updateAgent` is an admin's edit.
A cached record is abstracted to "the old one or the new one", which is what a
reader may see before the TTL has passed.

Both callers pass the creation time of the task as the priority, so that older
tasks go in front of newer ones.  `ArrivesInFront` is such an arrival while the
drain loop serves a waiter that stands behind the place taken; `OrderlySpec` is
`Spec` without it.  It is a condition on the callers and on timing, which the
code does not enforce (finding 1).

`SlotPool` is the tracker as its callers see it: a call asks, is given a slot of
some key while the key has fewer users than a limit the call may be held to, and
gives it back once.  Counters, queue, lookups and drain loop are gone.  The
mapping `Pool` takes the key of a live lease for the slot of a call, and
`Standing` for its state: a waiter whose promise was rejected while
`acquireSlot` still runs for it is "cancelled", because a slot may still be set
aside for it and then has to go back.

### 3.2 `TaskLifecycleCoordinator`

A call is a process with a program counter.  `taskTails[t]` is the call whose
promise stands in the map, `prev[e][t]` the promise it found there and waits
for; likewise `startTails` and `startPrev` for the starts of a project.
`runTask`, `cancelTaskAndRun`, `requestStart` and `deleteProject` are the
synchronous parts; `Begin`, `End`, `Settle` the callbacks of a chained call
(the operation begins, ends, and its `finally` removes the tail);
`acquireProjectStart`, `createTask`, `releaseStart`, `releaseAndRun` a start;
`DeleteList`, `DeleteBarrier`, `DeleteOperation`, `DeleteClear`,
`DeleteReturns` a deletion, whose listing and whose deletion may both fail.
`clock` and `stamp` only record the order of entries; no guard reads them.

`SerializedTasks` is the coordinator as its callers see it: an operation joins
with a set of tasks, remembers all the operations present that share one, enters
when none of them is left, and leaves.  The mapping `Serial` reads the phase of
a call from its program counter (`Phase`), its tasks from those whose chains it
has joined (`Joined`), and takes for the operations ahead of it those that share
a task and were called before (`Ahead`).  The code keeps none of this: a call
knows one promise per task.  A start is there only once it runs the operation
of the task it has created, since `acquireProjectStart` by itself joins no task.
`NoRing` says of the same promises that no set of calls waits in a ring, and
that whoever is waited for is in progress.

### 3.3 `TaskStateMachine`

The table of transitions as data and the operations of the store that bypass
it: abandonment from any state that has not ended, and retry, which looks at
no state at all.  `Spec` is what readers of a task row may rely on.

### 3.4 `CodeGenTask`

One task, its database rows, the operation that runs for it and the world
outside.

| State | Code |
|---|---|
| `state`, `deleted`, `mark` | the task row, and what its last `state_transitions` row says (pause, deletion) |
| `cycleCount`, `cycle` | `tasks.cycleCount`, the result of the last agent cycle |
| `rows` | `change_per_repository`, one row per push target |
| `processed` | `processed_comments` |
| `queue`, `op` | what waits in the coordinator's chain, and the operation that runs: `op.at` is the await it is at, the other fields its local variables |
| `review`, `posted`, `resolved`, `ticket` | the review systems and the ticket system |
| `prompted` | history: comments an agent was given |

`BeginWorkflow` dispatches as `executeWorkflow` does.  The cycle is
`AcquireLease`, `StartCycle`, one of six outcomes of the agent, the push of
each target (`SkipTarget`, `PushTarget` then `RecordPush`, `PushFails`),
`PushDone`, `TicketToReview`; it is left through `Cleanup`, which stands for
the awaited destruction of the workspace and the nested `finally` blocks.
A check of the reviews is `Check`, `PollStatus`/`PollFails` and `PollComments`
per change, `Decide`, `ActOnFeedback`, and after a cycle `Resolve`.
`StartClosing`, `CloseTicket`, `CloseFails`, `Closed` end a task.  `Throw` is
an exception that leaves the operation: a workflow ends in
`handleFatalError`, while the caller of a poll or a webhook only logs it.
`AbandonTask`, `RetryTask`, `PauseTask`, `ResumeTask`, `DeleteTask` are the
operator's; `Restart` drops `queue` and `op`, and is enabled between any two
steps.

Abstracted: the text of tickets, prompts and comments; which agent or model
runs; the tracker (its wait is one step) and the coordinator (one `op` at a
time); how often a failing call is retried before it fails.  Left out: rows of
several commits in one repository, tasks without rows (a path for old data),
comments delivered by a stream event, and edits of a project under its tasks.

### 3.5 `ReviewTask`

The rows of one change for one project, numbered by age, and what acts on them.

| State | Code |
|---|---|
| `count`, `task`, `cycle` | the task rows (`state`, `currentPatchset`, `reviewedPatchset`) and the last cycle of each |
| `ledger`, `replied` | unresolved rows of `posted_review_comments`; `review_thread_replies` |
| `queue`, `op` | what waits in the coordinator's chain of each row, and the pass that runs: the await it is at, the patchset it reviews, the findings and replies it has to publish and those it has sent |
| `trig`, `poll`, `recovering` | each trigger with the details it has read; the status a poll has read; where `recoverReview` is |
| `change`, `posted`, `answers` | the review system: the change, and how often each finding and reply stands there |
| `published`, `broken` | history: patchsets whose publication was finished, publications cut off between call and record |

A trigger is `TriggerReadsChange`, `TriggerActs` (which ends in the choice of
`evaluateExistingReviewTask`, or in a new row) and `TriggerRuns`.  A pass is
`StartPass`, `AcquireSlot`, one of three outcomes of the agent (the change is
closed, a newer patchset is there, or a report), `PostFindings` or
`PostingLost`, `RecordFindings`, `PublicationEnds`, `Reply`, `RecordReplies`,
`SetReviewed`, `SaveCycle`, `FinishPass`; `PassThrows` may take it at every
await.  Findings go out in one batch on Gerrit and one by one on hosted review
systems (`change.hosted`); a finding posted before may be fixed and resolved.
`HandleMerged` and `HandleAbandoned` run through the chain, and an abandonment
aborts the pass.

`Restart` is the boot: `reconcileOrphanedActiveTasks` fails every row found in
`REVIEW_RUNNING` (`Orphan`) before anything else runs.  Only much later in
`index.ts`, when triggers and the operator are served again, does
`recoverActiveReviews` list the active rows (`RecoveryReads`) and `recoverReview`
turn to each of them (`Recover`).  A row that recovery then finds in
`REVIEW_RUNNING` is one a trigger or a retry has started since the boot.

Abstracted: the text of findings, and the two-call draft of GitHub, which is
one call like Gerrit's batch or several like GitLab's.  Left out: the verdict
and the gate that keeps it silent, several projects on one change, deletion of
a review task, and the second lookup for an integration that was recreated.

### 3.6 `SandboxLifecycle`

`run[a]` is where the runner is with attempt `a`: record the provider
(`RecordProvider`), create it, create the sandbox, work, and then destroy,
unprovide, drop the row; every call may fail, and a failed creation may be
carried out by the gateway later (`CreationFails`, `Lands`).  `inventory` is a
sequence because the gateway lists it by offset, so that a removal shifts what
the next page shows; `closing` is what it has not torn down yet.  The
reconciler `recon` reads active tasks and rows (`ReconcileStarts`), pages
(`ListPage`), decides with one `nowMs` what is due (`Due`), and removes
sandboxes, providers and rows one by one, each of which may fail.  Age is two
values, below and above the minimum of ten minutes; `Tick` lets it pass at any
time, also in the middle of a call: `index.ts:141` allows each of them the time
of an agent and 30 s more.  `TaskStarts` is any way a task becomes active,
`retryTask` among them, also while its former agent is at work.  History:
`steady` are the attempts at work whose task has been active all the time,
`recon.aged` the sandboxes of such attempts that came of age while the inventory
was being read.  Attempts without credentials, sandboxes of others,
repeated attempts of a creation and the adapters' details are left out.

### 3.7 `ReviewDiscovery`

The automatic review project of a polling loop.  `since` is the watermark,
`revisions` the map of what was dispatched with the poll whose entry it is,
`poll[p]` what a poll has read and which dispatches it waits for.  The provider
lists the `open` changes of each repository, the one updated last first;
`Update` moves a change to the front, `Close` takes one out, and both shift what
the next page shows.  The steps of a poll are `PollStarts`, `ReadPage` for each
page of each repository, until one is not full or reaches the watermark,
`PageFails`, which leaves out the rest of a repository and the advance of the
watermark, `Dispatch`, `Triggered` or `TriggerFails` per change, and `PollEnds`
with the compare-and-set of the watermark; `Clear` forgets the project,
`Restart` the process.  `owed`, `passedOver` and the field `stirred` of a poll
(changes updated or moved up after it began to read their repository) are
history.  Left out: intake of tickets, discovery by
assignment, and the backoff.

### 3.8 `StreamEvents`

One Gerrit integration.  `manager` holds its entries in the manager's maps
(`demand`, `handle`, `pending` reconnection, `exhausted`, `status`,
`backfilled`, `requested`), `alive` and `dying` are ssh processes, `backfill`
the entry of `backfillPromises`.  `Undemanded`, `Unparsable`,
`DemandedAsBefore` and `Demanded` are `reconcile` by what it is given;
`FirstData`, `ChildError`, `OnClose`, `ReconnectDue` are callbacks, those of
`dying` processes included; `RequestBackfill`, `BackfillQueried`,
`BackfillEnds` the backfill and `StopAll` the shutdown.  What is done with the
lines of events is left out.

## 4. The runs

| Run | Instance | Shows |
|---|---|---|
| `ct_pool` | 3 waiters, one of an older task, a direct caller, 2 agents of one integration, 2 projects, failing lookups, one admin edit that moves an agent between integrations and changes its limit | counters, limits, no leaked lease; the tracker implements `SlotPool`, whoever arrives when |
| `ct_order` | the same 3 waiters, failing lookups, two edits; nobody arrives in front of the waiter being served | no lost waiter or wake-up, no overtaking, every waiter settles |
| `ct_lost_waiter` | the same 3 waiters, arriving anywhere | violation: finding 1 |
| `lc_tasks` | 2 runs and a cancellation of one task, a start, a deletion of the project | the coordinator implements `SerializedTasks`; a deletion runs alone; who may abort whom |
| `lc_starts` | 2 starts, a cancellation, a deletion that may fail | one lease per project, no orphan, every call returns |
| `cg_task` | 2 repositories, 1 comment, a limit of 1 cycle, one retry, restart and operator's action | the task implements the state machine; rows, ticket and cycles agree; no operation that ends leaves the task where nothing looks |
| `cg_live` | 1 repository, 1 comment, a limit of 2 cycles, one restart and operator's action | comments are worked on once; the task is never stuck between cycles, after a merge or with an abandonment pending |
| `rv_task` | 2 rows, 2 concurrent triggers, 2 patchsets, 1 finding, 1 message, one restart, retry or abandonment | every row implements the state machine; what stands on the review system, the ledgers and the rows agree; one row is active |
| `rv_live` | 1 row, 1 trigger at a time, 3 patchsets, the rest as before | a pass ends, a patchset that arrives under it is taken up, a watched task ends with its change |
| `sb_life` | 2 attempts of one task, pages of 1, at most 2 pages, any number of restarts, rounds and retries | working agents keep what they use, providers keep their rows, what is left behind is reclaimed |
| `rd_poll` | 2 changes in one repository or in two, pages of 1, 2 overlapping polls, 2 updates, any closing, any number of restarts | what is owed a dispatch stays in the next window, but for what a scan has torn or another poll had in flight |
| `se_stream` | 2 configurations and a broken one, 3 processes, 3 reconnections | one listener, for what is demanded; never silent; backfills are not forgotten; it listens again |

The order of service and the wake-ups are promised only until an agent is
edited; until then `SlotLimit` is about the limits configured,
afterwards about those that an agent of the key may have, because a limit loaded
before the edit may be checked after it.

### 4.1 Bounds

Three waiters are the least for which one can be inserted before, and one stand
behind, the waiter that is being served; limits 1 and 2 on one key make a
reservation from one agent's limit visible to the other; the direct caller adds
the scan, in `ct_pool`; the theorems about order hold with it too.  Two waiters
have one priority and the third is older, so that arrivals go to the end of the
queue and to its front.  Two runs and a cancellation give a chain with a first,
a middle and a last element; the deletion adds the promise that waits for
several chains.  What more calls could do is settled by the theorems.  In
`CodeGenTask` two repositories allow every mixture of merged, skipped and failed
changes; `MaxAgentCycles = 1` makes an agent's first failure final in `cg_task`
(where a retry follows it), and 2 makes it retried first in `cg_live`; one
comment suffices since comments are independent.  One restart, one retry and one
operator's action each fall between any two steps.  `CyclesBounded` names the
tight bound: `MaxAgentCycles + 2`, plus one for each retry; it is not the
configured limit, because a failed attempt compares with `>=`, the review
progress with `>`, and a workflow that finds a cycle to resume does not compare
at all.  `cg_task` ignores the history variable `prompted` (`SafeView`): no
guard and none of its properties reads it.

`ReviewTask`: two rows and two triggers are what a duplicate needs, and two
patchsets make a trigger's details older than the change; `rv_live` has three,
so that a pass is superseded more often than `MaxSuperseded = 1` allows.
Findings and messages are independent of each other, so one of each suffices.
Triggers are interchangeable (symmetry, in the run without liveness).
`SandboxLifecycle`: pages of one let a removal shift an item past the page read
next, and two attempts are an old and a new one of the same task; restarts and
rounds of the reconciler are not bounded.  `ReviewDiscovery`: with two polls one
may dispatch what the other passes over.  `MCListings` puts the two changes on
two pages of one repository or into two repositories, in either order; two
updates, one of a page or repository already read and one of the next, are what
tears a scan, and two seconds apart the first is behind the watermark.  Changes
and polls are interchangeable.  `StreamEvents`: three processes are the
connection, its dying predecessor and one whose backfill is in flight;
`MaxReconnects = 3` leaves a reconnection before the last one.

Bounds named in the modules: `MaxEdits`; `MaxRetries`, `MaxRestarts`,
`MaxAdmin`; `MaxPatchset`, `MaxTriggers`, `MaxEvents`; `MaxUpdates`; the calls
of the coordinator and of the tracker are constants, each made at most once.
Runs stop when everything is used up, the stream when the process does, and a
deleted task at its end, so deadlock is not checked (but in `rd_poll`); what
must not get stuck is stated as liveness.

### 4.2 Fairness

- Tracker: a process inside `acquireSlot` and the drain loop move on (promise
  callbacks are run), and a granted lease is released, which the orchestrator
  does in a `finally` around an agent run with a timeout.  Aborts, new calls and
  edits are not fair.  `FairSpec` has one condition besides: nobody arrives in
  front of the waiter the drain loop is serving, which the code does not ensure;
  `ct_lost_waiter` is what happens otherwise.
- Coordinator: callbacks run, and the operations it is given end.
- Code-generation task: every await of the running operation ends, the wait for
  a slot with it, which the tracker promises under the condition just named
  (`StalledResumes` depends on it); the chain of the task is first in, first out
  (strong fairness of the two `Begin` actions, which a restart may disable); the
  polling loop's timer ticks, so a stalled task and a task in review are
  eventually looked at at a moment when nothing else runs for them; each review
  system answers again and again.  Webhooks, reviewers, the operator and
  restarts are not fair: the liveness properties hold if every webhook is lost.
- Review task: a pass, a recovery, a poll of a watched task and a trigger that
  has begun go on (`PassThrows` stands for the deadline that ends a hanging
  await).  Not so the wait for a slot: the deadline is paused while a pass is
  queued (`reviewOrchestrator.ts:715`), so nothing but the tracker or an abort
  ends it, and no fairness is assumed of it.  The properties say what they need
  instead, `SlotsGranted`: a pass of the task does not wait for its slot for
  ever.  By finding 1 that may fail.  Triggers, webhooks, restarts and the
  operator are not fair.
- Sandboxes: a step of an attempt or of the gateway's teardown is made, the
  interval of the timer passes, and the reconciler goes on.  In the end the
  process is not restarted any more, and the reconciler's calls to the gateway
  and the database are not refused (`<>[][~Restart /\ ~Refused]_vars`), without
  which nothing could be reclaimed for good.  Tasks and attempts may go on.
- Stream: ssh delivers something or ends, also when it is told to, and the
  reconnection timer expires.

### 4.3 Findings

1. `ct_lost_waiter`: the drain loop removes the granted waiter with an index
   taken before an `await`.  A waiter of smaller priority value that is inserted
   meanwhile shifts the queue, another waiter is removed instead, and its
   promise never settles (`concurrencyTracker.ts:257`).  The
   priority is the creation time of the task (`orchestrator.ts:693`,
   `reviewOrchestrator.ts:717`), so a task that is older than one being served
   and asks during the drain is enough.  An arrival in front of the waiter being
   served is also the only cause, for any priorities: `NoWaiterLost`.

Disagreements between code and documents that were met while modelling, and
for which there is no run of their own; the model follows the code.

Code-generation tasks and the coordinator:

- `reviewProgressService.ts:344` compares with `>` and abandons; the context
  documents (`src/.github/context/state-machine.md:70`) speak of failing.
- `feedbackProcessor.ts:50` marks comments before an agent was given them, and a
  crash in between loses them; `src/.github/context/modules/orchestrator.md:142`
  says they are marked once consumed.  `CommentsOnce` covers the side the code
  chose.
- `orchestrator.ts:804`: an agent that cannot be resolved leaves its cycle's row
  at `running`; `src/.github/context/modules/orchestrator.md:88` says that
  exceptions replace that row with a failed result.
- `taskStore.ts:349` fails every task found in `AGENT_RUNNING` at a restart;
  `src/.github/context/modules/orchestrator.md:65` says it resumes its cycle.
- `pollingLoop.ts:583` passes over tasks whose rows are all `NO_CHANGE`, which
  `src/.github/context/modules/orchestrator.md:148` says converge to `MERGED`.
- A pause is recorded, but nothing reads it; `src/docs/ARCHITECTURE.md:598` says
  the polling loop does.
- `taskLifecycleCoordinator.ts:91`: a deletion aborts the operations that run
  when it takes its place in the chains, not those called before it that have
  not begun; these run to their end first.
- `orchestrator.ts:359`: a cycle begun by a poll or a webhook that throws leaves
  the task `AGENT_RUNNING`; only a workflow has a handler that fails the task,
  and no poll looks at that state.  `taskStore.ts:338` says a task is found so
  only if the process died.
- `projectPushService.ts:105`: a later cycle that leaves a repository at its
  branch writes `NO_CHANGE` over the row of its open review, and the task
  converges without it; `src/.github/context/architecture.md:29` says all rows
  that are active must be merged.
- `orchestrator.ts:986`: the attempt that follows a failed one is run without
  the review's feedback; `src/.github/context/state-machine.md:89` says the
  context is rebuilt with it.
- `reviewProgressService.ts:331`: a task that a restart finds in
  `FEEDBACK_PROCESSING` throws if its changes were merged meanwhile, as `MERGED`
  is no edge of that state; `src/.github/context/state-machine.md:124` calls the
  state idempotent.
- `orchestrator.ts:564`: a retry joins the workflow that has failed the task and
  is still posting its note; the row is back at `DETECTED` and nothing drives it
  until a restart (the poll of stalled tasks looks at two later states), though
  `orchestrator.ts:491` says it resumes the workflow.

Review tasks:

- `src/.github/context/modules/orchestrator.md:24` says that startup recovery
  resumes an orphaned `REVIEW_RUNNING` task in its running cycle; the boot has
  failed that task before (`taskStore.ts:343`).
- The comment at `index.ts:62` counts `REVIEW_COMMENTING` among the states that
  are failed at boot; `taskStore.ts:343` leaves it to the recovery.
- The wait of a pass for its slot has no deadline of its own
  (`reviewOrchestrator.ts:715` pauses it), so a waiter the tracker has lost
  (finding 1) stays `REVIEW_RUNNING` until it is abandoned or the process is
  restarted.
- `reviewOrchestrator.ts:436` leaves a new patchset to the pass in flight, whose
  "fresh details" (`:437`) it may have read for the last time.
  `NewPatchsetTakenUp` promises what arrives while the agent works.
- `reviewRetriggerGuard.ts:50` says that automatic triggers never review a
  patchset again; one that finds the row `REVIEW_PENDING` after a retry does.
- A retry is lost when the pass that runs ends in an error after it.
- `recoverReview` does not go through the coordinator for a row in
  `REVIEW_COMMENTING`; with a second event it may meet a pass that a trigger has
  started, and `NewPatchsetTakenUp` does not hold then (`MaxEvents = 1` in
  `rv_live`).  A completed review whose `currentPatchset` lags is failed by it.
- A crash between the requeue of a watched row and its pass leaves it
  `REVIEW_WATCHING` with a patchset that no later automatic trigger reviews.
- Replies are posted again when the process dies between the posting and
  `markThreadReplyPosted`: `LedgersAreBehind` states the side the code chose.

Sandboxes, discovery and streams:

- `openShellWorkspaceRunner.ts:202` and `schema.ts:567` speak of a restart-safe
  ledger of providers.  A creation whose command was killed may be carried out
  after the row was dropped; that provider has no row, and no round finds it.  A
  creation that takes longer than the minimum age, of a task ended meanwhile,
  can lose its row to the reconciler in the same way (`ProviderKnown` excepts
  both).
- `openShellSandboxReconciler.ts:71` takes the time once the inventory has been
  read, but the active tasks were read before it.  A sandbox that comes of age
  in between, of a task that was not active before, is removed from its working
  agent.  The minimum age is ten minutes, while ten pages may each take as long
  as an agent (`index.ts:141`); `AgentUndisturbed` excepts it (`recon.aged`).
- More sandboxes than the inventory's ten pages hold are never listed; those
  that are not listed are protected by the gateway, which refuses to remove a
  provider attached to a sandbox.
- `pollingLoop.ts:449` says that failures stay in the next window.  A poll that
  passes over a change which another poll is dispatching moves the watermark
  beyond it; if that dispatch then fails, the change is out of every window
  (`OwedIsInWindow` excepts it).  `reviewBootstrap.ts:602` swallows failures of
  `startReviewTask`, so that these count as dispatched.
- A scan is not a snapshot, and `complete` (`interfaces.ts:354`) only says that
  no page failed.  A change updated after its page or repository was read, a
  second or more before one that is found later, is behind the watermark the
  poll sets; so is one that a closed change has moved onto a page already read.
  `pollingLoop.ts:449` says the watermark passes what was dispatched, except
  failures, and `src/.github/context/modules/orchestrator.md:111` that requests
  created or updated after it are polled.  No later poll finds the change until
  it is updated again; the poll of a watched task (section 3.5) sees it if there
  is one.  `OwedIsInWindow` excepts what a scan has torn in this way (`Torn`), and
  holds of every other change a complete scan has not found.
- A change pushed in the second in which a project is activated is not found.
- `src/.github/context/modules/connectors.md:121`: "Runs the capped assignment
  backfill on first connection".  The first connection for a new configuration
  joins a backfill of the previous one that is in flight, which then gives up;
  and after giving up reconnections, demand that goes and returns starts a
  connection that has `backfilledIntegrations` still set
  (`gerritStreamEvents.ts:110`), so none is run.
- The count of reconnections is not reset by a connection that succeeds, and the
  status of an exhausted or broken stream stays after its demand is gone.

## 5. The proofs

TLAPS proves the theorems below for every value of the constants that satisfies
the module's assumption (which TLC evaluates in every run of the module).

### 5.1 `ConcurrencyTracker_proofs`

Assumption: calls are finite in number, records admissible for an agent are
records, priorities are numbers.  Nothing is assumed of limits, keys or the
number of edits.

1. `TInv` = `TypeOK` and `FrameInv`.  Type correctness is not inductive alone:
   the drain loop's index must stay inside a queue that others edit, the frame
   of a process must name a call of its own, and limits it carries must be a key
   and a positive number.  The lemmas about `RemoveIndex`, `insertAt`,
   `DropSettled` and `Advance` say how the queue and the index move together.
   `TypeCorrect` follows.
2. `LInv` adds `LeaseInv`: a call inside `acquireSlot` has not been answered,
   and its lease is live exactly if the frame is about to return it.  This
   relates the abort of a waiter to the grant that may be on its way; `NoLeak`
   follows.
3. `CInv` adds `CountersMatchLeases` and `AdmissibleLimit`.  By `LInv` a
   reservation always adds a lease that was not live and a release removes a
   live one, so each counter moves by one with its set (`ReserveCounts`,
   `ReleaseCounts`, over cardinalities of finite sets): `CountersExact`.
4. `NInv` adds `NowInv`, which speaks of the time before the first edit: the
   cache answers what the store has, the limit a process carries over its awaits
   is the one configured for the agent of its call, and every key keeps to a
   limit that is configured.  The check of the limit and the count of the slot
   are one step, so the counter cannot move between them (`CountsNow`); that
   is `LimitsHold`.
5. `PInv` adds `PoolInv`: only calls that were made are queued or served, the
   limit a process checks is one of its own call's agent, and a granted call
   holds a slot.  It is what the mapping to `SlotPool` needs.  `StandingOf` says
   what a call has come to from its promise and the frames; `PoolMove` turns a
   change of one call's standing and slot into a step of `SlotPool`, `PoolTake`
   a reservation, where the counter is the number of users by `CInv`.
   `PoolStep` has a case per action: lookups, the moves of the drain loop that
   settle nothing, a second release and edits stutter.  `ImplementsPool`.

`ConcurrencyTracker_order_proofs` is about `OrderlySpec`: priorities are any
numbers, as the callers pass creation times, and no waiter arrives in front of
the one being served.  The condition is needed (`ct_lost_waiter` shows a waiter
lost without it), and it is used in one place: `insertAtEffect` says where an
insertion goes, and the condition that this is behind the drain loop's index.

6. `QInv` adds to `TInv` that `NoLostWaiter` holds and that the index the drain
   loop holds over an await is still that of the waiter it serves; hence what
   `RemoveIndex` removes is the waiter that has just been settled
   (`NoWaiterLost`).  An arrival in front breaks the second part.
7. `FInv` adds what the loop knows in the middle of `acquireSlot`.  `Fresh`: the
   queue has no duplicates.  `ServeInv`: no waiting entry of the key stands before
   the position the scan has reached.  `PassedInv` and `PassingInv`: in a pass
   after which the loop would stop, every entry passed over is blocked, by its
   limit or by an earlier waiter.  A waiter aborted while it is served has asked
   for another pass, so the lease that is taken back then wakes the others.
   `AdvanceShape` (a turn leaves the passed part of the queue as it was) carries
   these over a turn.  `NoWakeupLost` and `FirstComeFirstServed` follow; like the
   properties, they speak of the time before the first edit of a record.

### 5.2 `TaskLifecycleCoordinator_proofs`

Assumption: the four kinds of calls are disjoint and the maps between calls,
tasks and projects are total.  Tasks, projects and calls may be infinite.

The inductive invariant `IInv` has four groups.

1. `ChainInv`: stamps are distinct and at most the clock; the tail of a chain
   is the latest promise that has not settled; a promise that waits finds every
   earlier unsettled promise of the task at or before the one it waits for.
   From these, `Ready` implies that every earlier promise has settled, and
   `InCallOrder` is preserved: `CallOrder`.
2. `StartChainInv`: the same for the starts of a project: `OneLeaseHolds`.
3. `DelInv`: a project that is being deleted stays marked until the deletion has
   failed; a deletion that is past `awaitStarts` finds no start holding a lease,
   so the list it reads is complete; while it is at work it stands in the chain
   of every task of the project, or the task did not exist when it was closed.
   With `CallOrder` this gives `DeletionAlone`.
4. `RestInv`: rows agree with the starts, cancellations have an owner, an abort
   comes from a later call, and no live task is in a deleted project:
   `NoOrphans`, `CancellationOwned`, `AbortedLater`.

Each group is preserved by lemmas per kind of step (`JoinChain`, `BeginChain`,
`LeaveChain`, `SameChain` and so on); `StepIInv` puts them together.

`ServesInTurn`, the refinement of `SerializedTasks`, has a lemma per abstract
step.  `SerialJoin`: what a call finds present is what is ahead of it, as its
stamp is the latest.  `SerialEnter`: a call that is `Ready` has nobody ahead,
which is where one promise per task has to stand for all earlier ones
(`ChainInv`).  `SerialLeave`: who settles was ahead of later calls only and
disappears from all of them.  `SerialStays`: whatever leaves phases, chains and
stamps alone is a stutter.

`NoRingForms` is the safety core of `CallsReturn`: if calls waited in a ring,
nobody would ever return.  `BegunInv` adds to `IInv` that the start promise a
call found belongs to a start that was called before.  A call then waits only
for calls of a smaller `Rank` (its stamp, but that of a deletion waiting for
starts is above all stamps), and a set of calls without an end of its waits
would have no least rank (`LeastNatural`, from the well-foundedness of `<` on
the naturals).  The set may be infinite.

### 5.3 `CodeGenTask_proofs`

Assumption `CodeGenAssumption`: there is a repository, limits and bounds are
numbers, every comment is on a repository.  `IInv` is `TypeOK` and five groups:

1. `Workflows`: one workflow at a time is queued or running, and one queued for
   a new task finds it so or ended: `OneWorkflowRuns`.
2. `Cycles`: how far below the bound the count of cycles is, by the state and by
   the await the operation is at.  This is where retries, resumed cycles and
   the different comparisons meet: `CyclesAreBounded`.
3. `Convergence`: while a task is `MERGED`, `CLOSING` or `DONE` no operation
   touches its rows but the one that closes it; `RowsConverged`, `DoneClosed`.
4. `Polling`: what a check has gone through without finding it open is merged.
5. `Marked`: what an agent was given is marked as processed, until the task is
   deleted; with it `CommentsGivenOnce`.

`NothingStranded` is the safety core of `MergedCloses` and `StalledResumes`, and
needs to know where the operation is.  `Guided`, inductive on top of `IInv`:
while no workflow is queued, a task in a state that no poll looks at has an
operation which is at an await that leads on (`Placed`), and a check that has
found rows still finds some (`HasRows`), since it would otherwise end without
touching the state.  What makes a step keep `Placed` is that an exception of a
workflow always ends in `FAILED`, while the handlers of polls and webhooks,
whose exceptions are only logged, weigh no feedback on a task they did not move
there themselves, and are refused no transition while it is where they put it.
The statement excepts a retry that has joined a workflow at its end, and says of
a cycle that a handler began only that its row is closed (section 4.3).

Each action has a lemma; the parts that several share (`Throw`, leaving a
cycle, stopping) are lemmas about the shape of the step.  `Moved` says what a
step may do to the state, from which `ImplementsMachine` follows: every step
of `CodeGenTask` is a step or a stutter of `TaskStateMachine`.  That the least
element of a non-empty set of numbers exists (`Target`) is taken from the
well-foundedness of `<` on the naturals.

### 5.4 `ReviewTask_proofs`

Assumption `ReviewAssumption`: there is a row, bounds are numbers; findings and
messages may be infinite.  `IInv` is `TypeOK`, `RowInv` (one row is active, a
trigger runs a row that exists) and for each row

- `Absent`: nothing happens to a row before it is created;
- `Publishes`: a pass past its publication has finished that of its patchset,
  and so has what `reviewedPatchset` names: `ReviewedPublished`;
- `Stands`: what the ledgers have, or what the pass is about to record, stands
  on the review system: `LedgersBehind`;
- `Once`: a finding outside the ledger stands there at most as often as
  publications were cut off: `FindingsPostedOnce`.

A step touches one row, so each action is proved for that row and `OneRow`
carries the others.  The new row of a trigger and the retry of an old one are
the steps that could make two active: `OneRowActive`.  `ImplementsMachine`
refines `TaskStateMachine` for every row.

No trigger takes up a task in `REVIEW_RUNNING`, and only a new one a task in
`REVIEW_PENDING`, so somebody must be about to turn to it at every moment:
`NothingStranded`.  `Guided`, inductive on top of `IInv`, says who: a recovery
that has not begun, or whose list is still to be read after a boot; the pass
itself, a pass or an abandonment that waits behind it, a trigger that is about
to call for a pass.  The step that would strand a task is the end of an aborted
pass, which leaves the state alone; hence `AbortedAreAbandoned`, that the
abandonment which aborted it is still waiting.  It is also why a pass taken from
the queue may be refused: the task it was called for is then in the hands of
another.  Both facts were checked by TLC on the instance of `rv_task` before
they were proved.

### 5.5 `SandboxLifecycle_proofs`

Assumption `SandboxAssumption`: attempts have tasks, pages and their number are
positive.  `IInv` is `TypeOK` and for each attempt

- `RowOf`: the row is there before the provider and goes after it, but for a
  provider that was made late; an attempt that has not begun owns nothing;
- `Steady`: the task of a steady attempt is active and its agent not done;
- `Spares`: what the reconciler has read is stale when it acts, and yet what it
  has chosen is no steady attempt's.  It holds because an old row or sandbox of
  a steady attempt was there before the round began, with its task active, or
  came of age under it; the latter are `recon.aged`.

`ProvidersKnown` follows from `RowOf`.  `AgentsUndisturbed` is about a step: by
`StepUndisturbed` only the reconciler takes anything from an agent that is at
work, a provider never, and a sandbox only from `recon.aged`.  Nothing is
assumed of how long a call lasts or of who retries a task.

### 5.6 `ReviewDiscovery_proofs`

Assumption `DiscoveryAssumption`: `MaxUpdates` and the positive page size are
numbers, and listings name a change once; changes, repositories and polls may be
any.  `Times` orders seconds and revisions, `PollInv` says that a poll knows what
once was, `Remembered` that an owed change whose revision is remembered is
pending in the poll that remembers it.  `Listed` says that a repository lists a
change once and the one updated last first, which is why a page that reaches the
watermark is the last one to read.  `ReadUp` is what a scan may rely on: if no
page failed, it has found, as it is, every change in the window whose page it
has read and which was not stirred meanwhile.  `UpdateIInv` and `CloseIInv` keep
it (`RemoveAtEffect` and `MoveUp` say what a removal does to places), and
`ReadPageIInv` extends it by a page.  `Window` is the core: an owed change was
updated after the watermark, and every poll that could still move the watermark
(its own reading of it is current and its scan complete) has the change pending
or failed, or has found nothing later than it.  At `Dispatch` it follows from
`ReadUp` for what is not torn.  `OwedFound` follows, and `WatermarkMovesOn` from
the compare-and-set.  Minimum and maximum of what a poll has found are numbers
by `MinOf` and `MaxOf`, the latter for sets with an upper bound.

### 5.7 `StreamEvents_proofs`

Assumption `StreamAssumption`: the special values are none of the
configurations and processes, and the limit is positive.  `IInv` adds to the
properties `GivenUp` (what was given up is neither connected nor about to be)
and `OwedIsAsked` (an owed backfill will be asked for at the first data).  One
lemma, `StartIInv`, covers the two outcomes of starting a process, for
`reconcile` and for the reconnection.

### 5.8 Model-checked only

Liveness under fairness (`WaiterSettles`, `CallsReturn`, `StalledResumes`,
`MergedCloses`, `MergeIsNoticed`, `AbandonCarriedOut`, `PassEnds`,
`NewPatchsetTakenUp`, `ClosedEnds`, `LeftIsReclaimed`, `ListensAgain`) is
outside what the provers do: it needs ENABLED and a variant over fair steps.
What of it is safety is proved for seven of them: that nobody waits in a ring
(`NoRingForms`, for `CallsReturn`), that no waiter or wake-up is lost
(`NoWaiterLost`, `NoWakeupLost`, for `WaiterSettles`), that what is left behind
has its row (`ProvidersKnown`, for `LeftIsReclaimed`), that a demanded stream is
connecting, has a reconnection pending or shows an error (`NeverSilentHolds`,
for `ListensAgain`), that an operation which ends leaves its task where
something looks (`NothingStranded` of `CodeGenTask`, for `StalledResumes` and
`MergedCloses`; that of `ReviewTask`, for `PassEnds`).  Every other property of
the passing runs is proved.  The type invariants and `InCallOrder`,
`CancellationHasOwner`, `NoRing`, `OneWorkflow`, `WatermarkAdvances`, and
`NeverStranded` and `AbortedByAbandonment` of `ReviewTask`, are stated by
theorems alone.

## 6. Not modelled, and why

- Intake of tickets, the backoff of the polling loop, rows of several commits,
  the rate limiter and log replay: planned (section 2).
- Connectors, VCS, webhook server, agent adapters and worker, and what the
  OpenShell client does beyond sandboxes and providers: input and output
  against systems outside; their answers and failures are actions of the
  modules above.
- Stores other than those of tasks, reviews and providers, schema and
  migrations: single statements.
- The plugin manager: which connectors exist; no protocol with the parts above
  beyond the demand that `StreamEvents` has as input.
- The admin server and its user interface, most of the source by lines: routes
  and forms over the operations modelled; what an operator does to a task is
  modelled.
- Prompt building, parsing and formatting: conversions of text.
