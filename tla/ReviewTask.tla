------------------------------ MODULE ReviewTask ------------------------------
(***************************************************************************)
(* The reviews of one change for one project: the triggers that start or   *)
(* reuse a task, the passes that run the agent and publish what it found,  *)
(* the operator, the polls and webhooks that end a task, and restarts      *)
(* (reviewOrchestrator.ts, reviewRetriggerGuard.ts, reviewRecovery.ts,     *)
(* reviewDedupStore.ts and what they call of taskStore.ts).                *)
(*                                                                         *)
(* The coordinator lets one operation run on a task at a time: op is the   *)
(* pass that runs, queue the operations behind it.  An action is the code  *)
(* between two calls outside, or between two writes of the database that   *)
(* a crash would tell apart.  Triggers, polls, retries and the recovery of *)
(* a task in REVIEW_COMMENTING do not go through the coordinator.          *)
(***************************************************************************)
EXTENDS Integers, Sequences, FiniteSets

CONSTANTS
  NTasks,          \* rows that may be created for the change, numbered by age
  Triggers,        \* concurrent calls of triggerReviewForChange
  Findings,        \* what a review may find
  Messages,        \* messages of people, each the last one of its thread
  MaxSuperseded,   \* MAX_SUPERSEDED_REVIEW_RETRIES
  \* Bounds of the exploration:
  MaxPatchset, MaxTriggers,
  MaxEvents        \* retries, abandonments by the operator and restarts together

Tasks == 1..NTasks

ASSUME ReviewAssumption ==
  /\ NTasks \in Nat \ {0}
  /\ MaxSuperseded \in Nat /\ MaxPatchset \in Nat \ {0}
  /\ MaxTriggers \in Nat /\ MaxEvents \in Nat

VARIABLES
  \* The database.
  count,       \* rows created so far
  task,        \* each row: state, currentPatchset, reviewedPatchset (0 is null)
  cycle,       \* the last agent_cycles row of each task: result and patchset
  ledger,      \* posted_review_comments that are not resolved
  replied,     \* review_thread_replies
  \* The process.
  queue, op,   \* per task: the operations that wait, and the pass that runs
  trig,        \* each trigger: where it is and what it has read
  poll,        \* the status checkReviewWatchingTask has read, before it acts
  recovering,  \* where recoverReview is with each task
  \* The review system.
  change,      \* its status, its patchset, whether its findings are hosted
  posted,      \* how often each open finding stands there, per task
  answers,     \* how often each message was answered, per task
  \* History.
  published,   \* patchsets whose publication a pass has finished, per task
  broken,      \* publications cut off between the call and its record, per task
  left         \* what is left of each bound

dbVars   == <<count, task, cycle, ledger, replied>>
outVars  == <<change, posted, answers>>
histVars == <<published, broken>>
vars == <<dbVars, queue, op, trig, poll, recovering, outVars, histVars, left>>

Machine(t) == INSTANCE TaskStateMachine
  WITH TaskType <- "code-review", state <- task[t].state

Terminal == {"REVIEW_DONE", "REVIEW_FAILED", "ABANDONED"}
Active   == {"REVIEW_PENDING", "REVIEW_RUNNING", "REVIEW_COMMENTING", "REVIEW_WATCHING"}

Idle == [at |-> "idle", aborted |-> FALSE, ps |-> 0, retries |-> 0,
         new |-> {}, fixed |-> {}, replies |-> {}, sent |-> {}]
NoTrigger == [at |-> "idle", ps |-> 0, force |-> FALSE, task |-> 0]
NewRow(ps) == [state |-> "REVIEW_PENDING", cur |-> ps, reviewed |-> 0]

Init ==
  /\ count = 0 /\ task = [t \in Tasks |-> NewRow(0)]
  /\ cycle = [t \in Tasks |-> [result |-> "none", ps |-> 0]]
  /\ ledger = [t \in Tasks |-> {}] /\ replied = [t \in Tasks |-> {}]
  /\ queue = [t \in Tasks |-> <<>>] /\ op = [t \in Tasks |-> Idle]
  /\ trig = [g \in Triggers |-> NoTrigger]
  /\ poll = [t \in Tasks |-> "none"] /\ recovering = [t \in Tasks |-> "no"]
  /\ \E hosted \in BOOLEAN : change = [status |-> "OPEN", ps |-> 1, hosted |-> hosted]
  /\ posted = [t \in Tasks |-> [f \in Findings |-> 0]]
  /\ answers = [t \in Tasks |-> [m \in Messages |-> 0]]
  /\ published = [t \in Tasks |-> {}] /\ broken = [t \in Tasks |-> 0]
  /\ left = [trigger |-> MaxTriggers, event |-> MaxEvents]

-----------------------------------------------------------------------------
(* What the steps are made of.                                             *)

State(t) == task[t].state
Legal(t, to) == Machine(t)!Legal(State(t), to)

\* transition(to), which must not throw.
Move(t, to) == task' = [task EXCEPT ![t].state = to]

Goto(t, l)  == op' = [op EXCEPT ![t].at = l]
Stop(t)     == op' = [op EXCEPT ![t] = Idle]
Save(t, r, ps) == cycle' = [cycle EXCEPT ![t] = [result |-> r, ps |-> ps]]
Enqueue(t, item) == queue' = [queue EXCEPT ![t] = Append(@, item)]

\* assertReviewStillActive does not throw.
StillActive(t) == State(t) \in {"REVIEW_RUNNING", "REVIEW_COMMENTING"}

\* The publication was made, and its record will not be.
CutOff(t) == broken' = [broken EXCEPT ![t] = @ + IF op[t].at = "record" THEN 1 ELSE 0]

\* ReviewCancelledError, or the lifecycle's signal: the task is left alone.
Cancelled(t) == Save(t, "failed", 0) /\ Stop(t) /\ UNCHANGED task

\* Any other error: a task in REVIEW_COMMENTING stays there.
Failed(t) ==
  /\ Save(t, "failed", 0) /\ Stop(t)
  /\ IF State(t) # "REVIEW_COMMENTING" /\ Legal(t, "REVIEW_FAILED")
     THEN Move(t, "REVIEW_FAILED") ELSE UNCHANGED task

Thrown(t) == IF op[t].aborted THEN Cancelled(t) ELSE Failed(t)

\* Mutated: no index refuses a second active row.
MayBeActiveAny(t) == TRUE

\* idx_tasks_active_ticket_id refuses a second active row of a ticket.
MayBeActive(t) == \A u \in 1..count \ {t} : State(u) \in Terminal

-----------------------------------------------------------------------------
(* Triggers: startReviewTask, then runReview on the task it returns.       *)

\* getChangeDetails.  A trigger that finds the change closed, or the patchset
\* reviewed on the server (a check that may fail), or the assignment missing,
\* ends here without a trace.
TriggerReadsChange(g, force) ==
  /\ trig[g].at = "idle" /\ left.trigger > 0 /\ change.status = "OPEN"
  /\ left' = [left EXCEPT !.trigger = @ - 1]
  /\ trig' = [trig EXCEPT ![g] = [at |-> "evaluate", ps |-> change.ps, force |-> force, task |-> 0]]
  /\ UNCHANGED <<dbVars, queue, op, poll, recovering, outVars, histVars>>

\* evaluateExistingReviewTask.
Evaluate(row, ps, force) ==
  IF ~force /\ ps = row.reviewed THEN "skip-already-reviewed"
  ELSE IF ~force /\ row.state = "REVIEW_DONE" /\ row.reviewed = 0 /\ row.cur = ps
       THEN "skip-already-reviewed"
  ELSE IF row.state \in Terminal THEN "fallthrough"
  ELSE IF row.cur # ps
       THEN IF row.state = "REVIEW_WATCHING" THEN "requeue-new-patchset"
            ELSE "await-in-flight-new-patchset"
  ELSE IF force /\ (ps = row.reviewed \/ row.state = "REVIEW_WATCHING")
       THEN "reuse-manual-retrigger"
  ELSE CASE row.state = "REVIEW_WATCHING" -> "skip-watching"
         [] row.state \in {"REVIEW_RUNNING", "REVIEW_COMMENTING"} -> "skip-in-flight"
         [] OTHER -> "reuse-pending"

TriggerReturns(g, t) == trig' = [trig EXCEPT ![g].at = "run", ![g].task = t]
TriggerEnds(g)       == trig' = [trig EXCEPT ![g] = NoTrigger]

\* The section under the project's lease: the newest row is reused, left to
\* what already runs, or followed by a new one.
TriggerActs(g) ==
  /\ trig[g].at = "evaluate"
  /\ LET ps == trig[g].ps
         action == IF count = 0 THEN "fallthrough" ELSE Evaluate(task[count], ps, trig[g].force)
     IN
     \/ /\ action \in {"skip-already-reviewed", "skip-watching", "skip-in-flight"}
        /\ TriggerEnds(g) /\ UNCHANGED <<count, task>>
     \/ /\ action \in {"reuse-manual-retrigger", "reuse-pending"}
        /\ TriggerReturns(g, count) /\ UNCHANGED <<count, task>>
     \/ /\ action = "requeue-new-patchset"
        /\ task' = [task EXCEPT ![count].cur = ps]
        /\ TriggerReturns(g, count) /\ UNCHANGED count
     \/ /\ action = "await-in-flight-new-patchset"
        /\ task' = [task EXCEPT ![count].cur = ps]
        /\ TriggerEnds(g) /\ UNCHANGED count
     \/ /\ action = "fallthrough" /\ count + 1 \in Tasks /\ MayBeActive(count + 1)
        /\ count' = count + 1 /\ task' = [task EXCEPT ![count + 1] = NewRow(ps)]
        /\ TriggerReturns(g, count + 1)
     \/ /\ action = "fallthrough"   \* the bound, or the insertion throws
        /\ count + 1 \notin Tasks \/ ~MayBeActive(count + 1)
        /\ TriggerEnds(g) /\ UNCHANGED <<count, task>>
  /\ UNCHANGED <<cycle, ledger, replied, queue, op, poll, recovering, outVars, histVars, left>>

TriggerRuns(g) ==
  /\ trig[g].at = "run"
  /\ Enqueue(trig[g].task, [kind |-> "pass", resume |-> FALSE])
  /\ TriggerEnds(g)
  /\ UNCHANGED <<dbVars, op, poll, recovering, outVars, histVars, left>>

-----------------------------------------------------------------------------
(* A pass: runReviewPass.                                                  *)

\* A task in another state throws; one that runs already is left alone.
MayEnter(t, resume) ==
  \/ State(t) \in {"REVIEW_PENDING", "REVIEW_WATCHING"}
  \/ State(t) = "REVIEW_RUNNING" /\ resume

StartPass(t) ==
  /\ op[t].at = "idle" /\ queue[t] # <<>> /\ Head(queue[t]).kind = "pass"
  /\ queue' = [queue EXCEPT ![t] = Tail(@)]
  /\ IF MayEnter(t, Head(queue[t]).resume)
     THEN /\ Move(t, "REVIEW_RUNNING") /\ Save(t, "running", 0)
          /\ op' = [op EXCEPT ![t] = [Idle EXCEPT !.at = "slot"]]
     ELSE UNCHANGED <<task, cycle, op>>
  /\ UNCHANGED <<count, ledger, replied, trig, poll, recovering, outVars, histVars, left>>

\* The slot is granted, the task still active and the change read.
AcquireSlot(t) ==
  /\ op[t].at = "slot" /\ ~op[t].aborted
  /\ IF StillActive(t)
     THEN op' = [op EXCEPT ![t].at = "agent", ![t].ps = change.ps] /\ UNCHANGED <<task, cycle>>
     ELSE Cancelled(t)
  /\ UNCHANGED <<count, ledger, replied, queue, trig, poll, recovering, outVars, histVars, left>>

\* An error, the deadline or the lifecycle's signal ends a call outside.
PassThrows(t) ==
  /\ op[t].at \in {"slot", "agent", "posting", "replies", "refresh"} /\ Thrown(t)
  /\ UNCHANGED <<count, ledger, replied, queue, trig, poll, recovering, outVars, histVars, left>>

\* Mutated: the result is published although the patchset has been replaced.
FreshAlways(t) == TRUE

\* The result is valid for the patchset it was made from only.
Fresh(t) == change.ps = op[t].ps

\* The messages to reply to, and the findings the agent has to assess again.
Eligible(t) == Messages \ replied[t]
Prior(t)    == IF change.hosted THEN ledger[t] ELSE {}

\* What the ledger has is not published again, unless it had been fixed.
NewFindings(t, found, fixed) == (found \ ledger[t]) \cup (found \cap fixed)

\* The agent has run and its result is accepted.
AgentReports(t) ==
  /\ op[t].at = "agent" /\ ~op[t].aborted /\ change.status = "OPEN" /\ Fresh(t)
  /\ IF StillActive(t)
     THEN /\ \E found \in SUBSET Findings, fixed \in SUBSET Prior(t), replies \in SUBSET Eligible(t) :
               op' = [op EXCEPT ![t].at = "posting", ![t].new = NewFindings(t, found, fixed),
                                ![t].fixed = fixed, ![t].replies = replies]
          /\ Move(t, "REVIEW_COMMENTING") /\ UNCHANGED cycle
     ELSE Cancelled(t)
  /\ UNCHANGED <<count, ledger, replied, queue, trig, poll, recovering, outVars, histVars, left>>

\* The change was closed meanwhile: the result is archived.
AgentReportsClosed(t) ==
  /\ op[t].at = "agent" /\ ~op[t].aborted /\ change.status # "OPEN"
  /\ IF StillActive(t)
     THEN Save(t, "closed", op[t].ps) /\ Move(t, "REVIEW_COMMENTING") /\ Goto(t, "closing")
     ELSE Cancelled(t)
  /\ UNCHANGED <<count, ledger, replied, queue, trig, poll, recovering, outVars, histVars, left>>

Close(t) ==
  /\ op[t].at = "closing"
  /\ IF Legal(t, "REVIEW_DONE") THEN Move(t, "REVIEW_DONE") /\ Stop(t) /\ UNCHANGED cycle
     ELSE Thrown(t)
  /\ UNCHANGED <<count, ledger, replied, queue, trig, poll, recovering, outVars, histVars, left>>

\* A newer patchset: the pass is restarted on it, a limited number of times.
AgentReportsOld(t) ==
  /\ op[t].at = "agent" /\ ~op[t].aborted /\ change.status = "OPEN" /\ ~Fresh(t)
  /\ IF op[t].retries >= MaxSuperseded THEN Thrown(t)
     ELSE /\ task' = [task EXCEPT ![t].cur = change.ps]
          /\ IF StillActive(t)
             THEN /\ op' = [op EXCEPT ![t].at = "slot", ![t].retries = @ + 1]
                  /\ Save(t, "running", 0)
             ELSE Stop(t) /\ Save(t, "superseded", 0)
  /\ UNCHANGED <<count, ledger, replied, queue, trig, poll, recovering, outVars, histVars, left>>

\* Gerrit takes all findings in one call, a hosted review one at a time.
Batches(t) == IF change.hosted THEN {{f} : f \in op[t].new} ELSE {op[t].new} \ {{}}

\* A finding that returns stands in the place of the one that was fixed.
Post(t, batch) ==
  posted' = [posted EXCEPT ![t] = [f \in Findings |->
               IF f \notin batch THEN @[f] ELSE IF f \in op[t].fixed THEN 1 ELSE @[f] + 1]]

PostFindings(t) ==
  /\ op[t].at = "posting" /\ ~op[t].aborted
  /\ \E batch \in Batches(t) :
       /\ Post(t, batch)
       /\ op' = [op EXCEPT ![t].at = "record", ![t].sent = batch]
  /\ UNCHANGED <<dbVars, queue, trig, poll, recovering, change, answers, histVars, left>>

\* The call throws although the review system has carried it out.
PostingLost(t) ==
  /\ op[t].at = "posting"
  /\ \E batch \in Batches(t) : Post(t, batch)
  /\ broken' = [broken EXCEPT ![t] = @ + 1] /\ Thrown(t)
  /\ UNCHANGED <<count, ledger, replied, queue, trig, poll, recovering, change, answers, published, left>>

\* Mutated: findings that Gerrit has taken are not recorded.
RecordHosted(t) == IF change.hosted THEN op[t].sent ELSE {}

\* What markReviewCommentsPosted inserts.
Recorded(t) == op[t].sent

\* A fixed finding is retired first, if the task is still active.
RecordFindings(t) ==
  /\ op[t].at = "record"
  /\ IF StillActive(t) \/ (change.hosted /\ op[t].sent \cap op[t].fixed = {})
     THEN /\ ledger' = [ledger EXCEPT ![t] = @ \cup Recorded(t)]
          /\ op' = [op EXCEPT ![t].at = "posting", ![t].new = @ \ op[t].sent,
                              ![t].fixed = @ \ op[t].sent, ![t].sent = {}]
          /\ UNCHANGED <<task, cycle, broken>>
     ELSE Cancelled(t) /\ CutOff(t) /\ UNCHANGED ledger
  /\ UNCHANGED <<count, replied, queue, trig, poll, recovering, outVars, published, left>>

\* All findings stand on the review system; those that were fixed are retired.
PublicationEnds(t) ==
  /\ op[t].at = "posting" /\ ~op[t].aborted /\ op[t].new = {}
  /\ IF StillActive(t) \/ op[t].fixed = {}
     THEN /\ ledger' = [ledger EXCEPT ![t] = @ \ op[t].fixed]
          /\ posted' = [posted EXCEPT ![t] = [f \in Findings |-> IF f \in op[t].fixed THEN 0 ELSE @[f]]]
          /\ published' = [published EXCEPT ![t] = @ \cup {op[t].ps}]
          /\ Goto(t, "replies") /\ UNCHANGED <<task, cycle>>
     ELSE Cancelled(t) /\ UNCHANGED <<ledger, posted, published>>
  /\ UNCHANGED <<count, replied, queue, trig, poll, recovering, change, answers, broken, left>>

\* Mutated: a reply that could not be posted is recorded with the others.
ReplyCounted(t, m) ==
  /\ op[t].at = "replies" /\ m \in op[t].replies /\ ~op[t].aborted
  /\ \/ StillActive(t) /\ answers' = [answers EXCEPT ![t][m] = @ + 1]
     \/ UNCHANGED answers
  /\ op' = [op EXCEPT ![t].replies = @ \ {m}, ![t].sent = @ \cup {m}]
  /\ UNCHANGED <<dbVars, queue, trig, poll, recovering, change, posted, histVars, left>>

\* One reply: a failure, also that of the task being ended, skips it.
Reply(t, m) ==
  /\ op[t].at = "replies" /\ m \in op[t].replies /\ ~op[t].aborted
  /\ \/ /\ StillActive(t)
        /\ answers' = [answers EXCEPT ![t][m] = @ + 1]
        /\ op' = [op EXCEPT ![t].replies = @ \ {m}, ![t].sent = @ \cup {m}]
     \/ /\ op' = [op EXCEPT ![t].replies = @ \ {m}] /\ UNCHANGED answers
  /\ UNCHANGED <<dbVars, queue, trig, poll, recovering, change, posted, histVars, left>>

\* The replies that were posted are recorded together.
RecordReplies(t) ==
  /\ op[t].at = "replies" /\ op[t].replies = {}
  /\ IF StillActive(t) \/ op[t].sent = {}
     THEN /\ replied' = [replied EXCEPT ![t] = @ \cup op[t].sent]
          /\ op' = [op EXCEPT ![t].at = "finish", ![t].sent = {}] /\ UNCHANGED <<task, cycle>>
     ELSE Cancelled(t) /\ UNCHANGED replied
  /\ UNCHANGED <<count, ledger, queue, trig, poll, recovering, outVars, histVars, left>>

SetReviewed(t) ==
  /\ op[t].at = "finish"
  /\ IF StillActive(t)
     THEN task' = [task EXCEPT ![t].reviewed = op[t].ps] /\ Goto(t, "save") /\ UNCHANGED cycle
     ELSE Cancelled(t)
  /\ UNCHANGED <<count, ledger, replied, queue, trig, poll, recovering, outVars, histVars, left>>

SaveCycle(t) ==
  /\ op[t].at = "save" /\ Save(t, "success", op[t].ps) /\ Goto(t, "refresh")
  /\ UNCHANGED <<count, task, ledger, replied, queue, trig, poll, recovering, outVars, histVars, left>>

\* Where a task goes when its review has been published.
Watched == IF change.status = "OPEN" THEN "REVIEW_WATCHING" ELSE "REVIEW_DONE"

FinishPass(t) ==
  /\ op[t].at = "refresh" /\ ~op[t].aborted
  /\ IF Legal(t, Watched) THEN Move(t, Watched) /\ Stop(t) /\ UNCHANGED cycle ELSE Thrown(t)
  /\ UNCHANGED <<count, ledger, replied, queue, trig, poll, recovering, outVars, histVars, left>>

-----------------------------------------------------------------------------
(* What ends a task from outside its pass.                                 *)

\* stateStore.abandonTask, whose error on a terminal task is logged.
Abandon(t) == IF State(t) \in Terminal THEN UNCHANGED task ELSE Move(t, "ABANDONED")

\* Mutated: the poll looks for merges only.
PollReadsMerge(t) ==
  /\ poll[t] = "none" /\ t <= count /\ State(t) = "REVIEW_WATCHING" /\ change.status = "MERGED"
  /\ poll' = [poll EXCEPT ![t] = change.status]
  /\ UNCHANGED <<dbVars, queue, op, trig, recovering, outVars, histVars, left>>

\* checkReviewWatchingTask reads the task and the status of its change.
PollReads(t) ==
  /\ poll[t] = "none" /\ t <= count /\ State(t) = "REVIEW_WATCHING" /\ change.status # "OPEN"
  /\ poll' = [poll EXCEPT ![t] = change.status]
  /\ UNCHANGED <<dbVars, queue, op, trig, recovering, outVars, histVars, left>>

\* It acts on the state the task is in by then.
PollActs(t) ==
  /\ poll[t] # "none" /\ poll' = [poll EXCEPT ![t] = "none"]
  /\ IF poll[t] = "ABANDONED" THEN Abandon(t)
     ELSE IF Legal(t, "REVIEW_DONE") THEN Move(t, "REVIEW_DONE") ELSE UNCHANGED task
  /\ UNCHANGED <<count, cycle, ledger, replied, queue, op, trig, recovering, outVars, histVars, left>>

\* markChangeMerged and markChangeAbandoned queue up behind the pass.
Webhook(t) ==
  /\ t <= count /\ change.status # "OPEN" /\ State(t) \notin Terminal
  /\ \A i \in DOMAIN queue[t] : queue[t][i].kind # change.status
  /\ Enqueue(t, [kind |-> change.status])
  /\ UNCHANGED <<dbVars, op, trig, poll, recovering, outVars, histVars, left>>

\* A merge is noted while the task watches; otherwise a poll will find it.
HandleMerged(t) ==
  /\ op[t].at = "idle" /\ queue[t] # <<>> /\ Head(queue[t]).kind = "MERGED"
  /\ queue' = [queue EXCEPT ![t] = Tail(@)]
  /\ IF State(t) = "REVIEW_WATCHING" THEN Move(t, "REVIEW_DONE") ELSE UNCHANGED task
  /\ UNCHANGED <<count, cycle, ledger, replied, op, trig, poll, recovering, outVars, histVars, left>>

HandleAbandoned(t) ==
  /\ op[t].at = "idle" /\ queue[t] # <<>> /\ Head(queue[t]).kind = "ABANDONED"
  /\ queue' = [queue EXCEPT ![t] = Tail(@)] /\ Abandon(t)
  /\ UNCHANGED <<count, cycle, ledger, replied, op, trig, poll, recovering, outVars, histVars, left>>

\* Mutated: the pass is aborted, and nothing abandons its task.
AbandonTaskAborts(t) ==
  /\ t <= count /\ left.event > 0 /\ op[t].at # "idle"
  /\ op' = [op EXCEPT ![t].aborted = TRUE]
  /\ left' = [left EXCEPT !.event = @ - 1]
  /\ UNCHANGED <<dbVars, queue, trig, poll, recovering, outVars, histVars>>

\* The operator's abandonTask aborts the pass that runs and waits behind it.
AbandonTask(t) ==
  /\ t <= count /\ left.event > 0 /\ (op[t].at # "idle" \/ queue[t] = <<>>)
  /\ op' = IF op[t].at = "idle" THEN op ELSE [op EXCEPT ![t].aborted = TRUE]
  /\ Enqueue(t, [kind |-> "ABANDONED"])
  /\ left' = [left EXCEPT !.event = @ - 1]
  /\ UNCHANGED <<dbVars, trig, poll, recovering, outVars, histVars>>

ResetState == "REVIEW_PENDING"

\* retryTask looks at no state.  A pass with force follows.
RetryTask(t) ==
  /\ t <= count /\ left.event > 0 /\ MayBeActive(t)
  /\ Move(t, ResetState)
  /\ Enqueue(t, [kind |-> "pass", resume |-> FALSE])
  /\ left' = [left EXCEPT !.event = @ - 1]
  /\ UNCHANGED <<count, cycle, ledger, replied, op, trig, poll, recovering, outVars, histVars>>

-----------------------------------------------------------------------------
(* A restart, and the recovery of the tasks it finds active.               *)

\* Mutated: the boot ends what was at work with a state of another workflow.
OrphanFails(t) ==
  IF t <= count /\ State(t) = "REVIEW_RUNNING" THEN [task[t] EXCEPT !.state = "FAILED"] ELSE task[t]

\* reconcileOrphanedActiveTasks: no agent survives a restart.
Orphan(t) ==
  IF t <= count /\ State(t) = "REVIEW_RUNNING" THEN [task[t] EXCEPT !.state = "REVIEW_FAILED"] ELSE task[t]

\* The process dies and boots.  Triggers and the operator are served before
\* the recovery begins.
Restart ==
  /\ left.event > 0
  /\ left' = [left EXCEPT !.event = @ - 1]
  /\ task' = [t \in Tasks |-> Orphan(t)]
  /\ queue' = [t \in Tasks |-> <<>>] /\ op' = [t \in Tasks |-> Idle]
  /\ trig' = [g \in Triggers |-> NoTrigger] /\ poll' = [t \in Tasks |-> "none"]
  /\ recovering' = [t \in Tasks |-> "boot"]
  /\ broken' = [t \in Tasks |-> broken[t] + IF op[t].at = "record" THEN 1 ELSE 0]
  /\ UNCHANGED <<count, cycle, ledger, replied, outVars, published>>

\* recoverActiveReviews lists the tasks it is to recover.
RecoveryReads ==
  /\ \E t \in Tasks : recovering[t] = "boot"
  /\ recovering' = [t \in Tasks |-> IF t <= count /\ State(t) \in Active THEN "start" ELSE "no"]
  /\ UNCHANGED <<dbVars, queue, op, trig, poll, outVars, histVars, left>>

\* Mutated: what is found in REVIEW_COMMENTING is taken for complete.
CompletedAlways(t) == TRUE

\* The last cycle shows that the review of the current patchset is complete.
Completed(t) ==
  cycle[t] = [result |-> "success", ps |-> task[t].cur] /\ task[t].reviewed = task[t].cur

CompletedClosed(t) ==
  cycle[t] = [result |-> "closed", ps |-> task[t].cur] /\ change.status # "OPEN"

\* recoverReview: what was cut off while it published is failed, since some
\* of it may stand on the review system.  A task is in REVIEW_RUNNING here when
\* a trigger or the operator has started a pass since the boot.
Recover(t) ==
  /\ recovering[t] = "start"
  /\ IF State(t) \in {"REVIEW_PENDING", "REVIEW_RUNNING"}
     THEN Enqueue(t, [kind |-> "pass", resume |-> State(t) = "REVIEW_RUNNING"])
     ELSE UNCHANGED queue
  /\ recovering' = [recovering EXCEPT ![t] =
       IF State(t) = "REVIEW_COMMENTING" /\ ~CompletedClosed(t) /\ Completed(t)
       THEN "refresh" ELSE "no"]
  /\ IF State(t) # "REVIEW_COMMENTING" THEN UNCHANGED task
     ELSE IF CompletedClosed(t) THEN Move(t, "REVIEW_DONE")
     ELSE IF Completed(t) THEN UNCHANGED task ELSE Move(t, "REVIEW_FAILED")
  /\ UNCHANGED <<count, cycle, ledger, replied, op, trig, poll, outVars, histVars, left>>

\* The change is read, or cannot be: then the task waits for a restart.
RecoverEnds(t) ==
  /\ recovering[t] = "refresh" /\ recovering' = [recovering EXCEPT ![t] = "no"]
  /\ IF Legal(t, Watched) THEN Move(t, Watched) \/ UNCHANGED task ELSE UNCHANGED task
  /\ UNCHANGED <<count, cycle, ledger, replied, queue, op, trig, poll, outVars, histVars, left>>

-----------------------------------------------------------------------------
(* The review system.                                                      *)

NewPatchset ==
  /\ change.status = "OPEN" /\ change.ps < MaxPatchset
  /\ change' = [change EXCEPT !.ps = @ + 1]
  /\ UNCHANGED <<dbVars, queue, op, trig, poll, recovering, posted, answers, histVars, left>>

CloseChange ==
  /\ change.status = "OPEN"
  /\ \E s \in {"MERGED", "ABANDONED"} : change' = [change EXCEPT !.status = s]
  /\ UNCHANGED <<dbVars, queue, op, trig, poll, recovering, posted, answers, histVars, left>>

-----------------------------------------------------------------------------
PassStep(t) ==
  \/ StartPass(t) \/ AcquireSlot(t) \/ PassThrows(t)
  \/ AgentReports(t) \/ AgentReportsClosed(t) \/ Close(t) \/ AgentReportsOld(t)
  \/ PostFindings(t) \/ PostingLost(t) \/ RecordFindings(t) \/ PublicationEnds(t)
  \/ (\E m \in Messages : Reply(t, m)) \/ RecordReplies(t)
  \/ SetReviewed(t) \/ SaveCycle(t) \/ FinishPass(t)
  \/ HandleMerged(t) \/ HandleAbandoned(t)

TriggerStep(g) == TriggerActs(g) \/ TriggerRuns(g)
RecoverStep(t) == Recover(t) \/ RecoverEnds(t)
PollStep(t)    == PollReads(t) \/ PollActs(t)

Next ==
  \/ \E t \in Tasks : PassStep(t) \/ RecoverStep(t) \/ PollStep(t)
                      \/ Webhook(t) \/ AbandonTask(t) \/ RetryTask(t)
  \/ \E g \in Triggers : TriggerStep(g) \/ \E force \in BOOLEAN : TriggerReadsChange(g, force)
  \/ Restart \/ RecoveryReads \/ NewPatchset \/ CloseChange

Spec == Init /\ [][Next]_vars

\* What is bound to happen: not the grant of a slot, for which a pass may wait
\* without a deadline.
FairPassStep(t) == (op[t].at = "slot" => op[t].aborted) /\ PassStep(t)

\* Promises settle: the coordinator starts what is queued, the deadline ends
\* what hangs, and the poll of watched tasks returns in every interval.
LiveSpec ==
  /\ Spec
  /\ \A t \in Tasks : WF_vars(FairPassStep(t)) /\ WF_vars(RecoverStep(t)) /\ WF_vars(PollStep(t))
  /\ WF_vars(RecoveryReads)
  /\ \A g \in Triggers : WF_vars(TriggerStep(g))

-----------------------------------------------------------------------------
(* Properties.                                                             *)

Rows   == [state : Active \cup Terminal, cur : 0..MaxPatchset, reviewed : 0..MaxPatchset]
Cycles == [result : {"none", "running", "success", "closed", "superseded", "failed"}, ps : 0..MaxPatchset]
Items  == [kind : {"pass"}, resume : BOOLEAN] \cup [kind : {"MERGED", "ABANDONED"}]
Passes == [at : {"idle", "slot", "agent", "closing", "posting", "record", "replies", "finish", "save", "refresh"},
           aborted : BOOLEAN, ps : 0..MaxPatchset, retries : 0..MaxSuperseded,
           new : SUBSET Findings, fixed : SUBSET Findings, replies : SUBSET Messages,
           sent : SUBSET (Findings \cup Messages)]

\* Every variable has its type.
TypeOK ==
  /\ count \in 0..NTasks
  /\ task \in [Tasks -> Rows] /\ cycle \in [Tasks -> Cycles]
  /\ ledger \in [Tasks -> SUBSET Findings] /\ replied \in [Tasks -> SUBSET Messages]
  /\ queue \in [Tasks -> Seq(Items)] /\ op \in [Tasks -> Passes]
  /\ trig \in [Triggers -> [at : {"idle", "evaluate", "run"}, ps : 0..MaxPatchset,
                            force : BOOLEAN, task : 0..NTasks]]
  /\ poll \in [Tasks -> {"none", "MERGED", "ABANDONED"}]
  /\ recovering \in [Tasks -> {"no", "boot", "start", "refresh"}]
  /\ change \in [status : {"OPEN", "MERGED", "ABANDONED"}, ps : 1..MaxPatchset, hosted : BOOLEAN]
  /\ posted \in [Tasks -> [Findings -> Nat]] /\ answers \in [Tasks -> [Messages -> Nat]]
  /\ published \in [Tasks -> SUBSET (1..MaxPatchset)] /\ broken \in [Tasks -> Nat]
  /\ left \in [trigger : Nat, event : Nat]

\* A finding stands on the review system once: it is posted again by a later
\* pass only when an earlier one was cut off between the call that posted it
\* and the record of it (newComments, posted_review_comments).
PostedOnce == \A t \in Tasks, f \in Findings : posted[t][f] <= 1 + broken[t]

\* The ledgers are never ahead of the review system: what they hold has been
\* posted, so that nothing is silenced that people have not seen.
LedgersAreBehind ==
  \A t \in Tasks : /\ \A f \in ledger[t] : posted[t][f] > 0
                   /\ \A m \in replied[t] : answers[t][m] > 0

\* reviewedPatchset, which stops every automatic trigger, names a patchset
\* whose publication was finished, and no task watches without it: whatever
\* was cancelled, retried, or cut off by a restart.
ReviewedIsPublished ==
  \A t \in Tasks : /\ task[t].reviewed # 0 => task[t].reviewed \in published[t]
                   /\ State(t) = "REVIEW_WATCHING" => task[t].reviewed # 0

\* One row of the change is active, however triggers, retries and ends of
\* tasks interleave; two would publish the same review side by side.
OneActiveRow == Cardinality({t \in 1..count : State(t) \in Active}) <= 1

\* The rows obey the table of the state machine and its three exceptions.
KeepsToMachine ==
  /\ \A t \in Tasks : Machine(t)!Init
  /\ [][\A t \in Tasks : [Machine(t)!Next]_(task[t].state)]_task

\* Who turns next to a task that waits for a pass: a recovery, a pass that was
\* called for, or a trigger that is about to call for one.
PendingHeld(t) ==
  \/ recovering[t] \in {"boot", "start"}
  \/ \E i \in DOMAIN queue[t] : queue[t][i].kind = "pass"
  \/ \E g \in Triggers : trig[g].at = "run" /\ trig[g].task = t

\* Who turns next to a task whose agent is to run: a recovery, the pass itself,
\* a pass that resumes it, or an abandonment.
RunningHeld(t) ==
  \/ recovering[t] \in {"boot", "start"} \/ op[t].at \in {"slot", "agent"}
  \/ \E i \in DOMAIN queue[t] : \/ queue[t][i].kind = "pass" /\ queue[t][i].resume
                                \/ queue[t][i].kind = "ABANDONED"

\* No trigger takes up a task in REVIEW_RUNNING and only a new one a task in
\* REVIEW_PENDING, so none is left there: not by a pass that was aborted, which
\* leaves its task alone, nor by a retry, a restart or the end of another pass.
NeverStranded ==
  \A t \in 1..count : /\ State(t) = "REVIEW_PENDING" => PendingHeld(t)
                      /\ State(t) = "REVIEW_RUNNING" => RunningHeld(t)

\* A pass that was aborted has an abandonment behind it.
AbortedByAbandonment ==
  \A t \in 1..count : op[t].aborted => \E i \in DOMAIN queue[t] : queue[t][i].kind = "ABANDONED"

\* No pass of the task waits for ever for its slot.  The tracker does not see
\* to it: finding 1 of the README (CT_lost) leaves a waiter behind.
SlotsGranted(t) == []<>(op[t].at # "slot")

\* Where slots are granted a pass comes to an end: a task does not stay in
\* REVIEW_RUNNING, whatever aborts its pass or waits behind it.
PassEnds ==
  \A t \in Tasks : SlotsGranted(t) => (State(t) = "REVIEW_RUNNING" ~> State(t) # "REVIEW_RUNNING")

\* Where slots are granted, a patchset that arrives while the agent is at work
\* on an older one is reviewed by this pass, unless the pass fails or the task
\* is ended.
NewPatchsetTakenUp ==
  \A t \in Tasks : SlotsGranted(t) => \A p \in 1..MaxPatchset :
    op[t].at = "agent" /\ op[t].ps < p /\ change.ps = p
      ~> \/ task[t].reviewed >= p
         \/ op[t].at = "idle" /\ State(t) \notin {"REVIEW_RUNNING", "REVIEW_WATCHING"}

\* A task that watches a change ends when the change does, unless a pass has
\* taken it up and waits for ever for its slot.
ClosedEnds ==
  \A t \in Tasks : SlotsGranted(t) =>
    (t <= count /\ State(t) = "REVIEW_WATCHING" /\ change.status # "OPEN" ~> State(t) \in Terminal)
=============================================================================
