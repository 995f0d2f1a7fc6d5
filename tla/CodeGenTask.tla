----------------------------- MODULE CodeGenTask -----------------------------
(***************************************************************************)
(* The life of one ticket-driven task: the workflow that drives it, the    *)
(* polls and webhooks that act on it, the operator who retries, abandons,  *)
(* resumes or deletes it, restarts of the process, and the review system   *)
(* and the ticket outside (orchestrator.ts, reviewProgressService.ts,      *)
(* projectPushService.ts, feedbackProcessor.ts, taskStore.ts).             *)
(*                                                                         *)
(* The coordinator lets one operation run on the task at a time (module    *)
(* TaskLifecycleCoordinator): it is the record op, and an action of it is  *)
(* the code between two awaits of I/O or two writes of the database.       *)
(* Retry and delete go to the store directly and happen between any two.   *)
(***************************************************************************)
EXTENDS Integers, Sequences, FiniteSets, FiniteSetsExt

CONSTANTS
  NRepos,          \* push targets, numbered by commitOrder
  Comments,        \* review comments the reviewers may write
  RepoOf,          \* the repository whose change each comment is on
  MaxAgentCycles,
  \* Bounds of the exploration:
  MaxRetries, MaxRestarts, MaxAdmin   \* retries; restarts; abandon, delete, pause, resume

Repos == 1..NRepos

ASSUME CodeGenAssumption ==
  /\ NRepos \in Nat \ {0} /\ MaxAgentCycles \in Nat \ {0}
  /\ RepoOf \in [Comments -> Repos]
  /\ MaxRetries \in Nat /\ MaxRestarts \in Nat /\ MaxAdmin \in Nat

VARIABLES
  \* The database.
  state, deleted,  \* the task row, and its deletedAt
  mark,            \* what the last state_transitions row says beyond its states
  cycleCount,
  cycle,           \* the result of the last agent_cycles row
  rows,            \* change_per_repository: the status of each row
  processed,       \* processed_comments
  \* The process.
  queue,           \* workflows and abandonments that wait for their turn
  op,              \* the operation that runs
  \* The outside.
  review,          \* the status of the review of each repository
  posted,          \* comments written by reviewers
  resolved,        \* comments marked as resolved on the review system
  ticket,
  \* History.
  prompted,        \* comments some agent was given
  left             \* what is left of each bound

dbVars   == <<deleted, cycleCount, cycle, rows, processed>>
outVars  == <<review, posted, resolved, ticket>>
vars == <<state, mark, dbVars, queue, op, outVars, prompted, left>>

Machine == INSTANCE TaskStateMachine WITH TaskType <- "code-gen"

Terminal == {"DONE", "FAILED", "ABANDONED"}

Idle == [at |-> "idle", kind |-> "none", checking |-> FALSE, aborted |-> FALSE,
         todo |-> {}, allMerged |-> TRUE, anyAbandoned |-> FALSE,
         feedback |-> {}, batch |-> {}, pushed |-> FALSE, pushErrors |-> FALSE,
         after |-> "return"]

Init ==
  /\ state = "DETECTED" /\ mark = "none" /\ deleted = FALSE /\ cycleCount = 0 /\ cycle = "none"
  /\ rows = [r \in Repos |-> "none"] /\ processed = {}
  /\ queue = <<[kind |-> "workflow", seen |-> "DETECTED"]>> /\ op = Idle
  /\ review = [r \in Repos |-> "none"] /\ posted = {} /\ resolved = {} /\ ticket = "open"
  /\ prompted = {}
  /\ left = [retry |-> MaxRetries, restart |-> MaxRestarts, admin |-> MaxAdmin]

-----------------------------------------------------------------------------
(* What the steps are made of.                                             *)

\* Rows that count for convergence: neither NO_CHANGE nor absent.
Active == {r \in Repos : rows[r] \in {"OPEN", "MERGED", "ABANDONED"}}

\* Every change of the state writes a row of state_transitions with it.
Recorded == mark' = IF state' = state THEN mark ELSE "none"

Goto(l) == op' = [op EXCEPT !.at = l]
Stop    == op' = Idle

\* transition(to) does not throw.
Legal(to) == ~deleted /\ Machine!Legal(state, to)

\* Mutated: a terminal state is overwritten with FAILED.
ThrowAlways ==
  IF op.kind = "workflow" /\ ~deleted
  THEN state' = "FAILED" /\ Goto("notify")
  ELSE state' = state /\ Stop

\* An exception leaves the operation.  A workflow ends in handleFatalError;
\* the caller of a poll or a webhook only logs it.
Throw ==
  IF op.kind = "workflow" /\ ~deleted /\ state \notin Terminal
  THEN state' = "FAILED" /\ Goto("notify")
  ELSE state' = state /\ Stop

Transition(to, l) == IF Legal(to) THEN state' = to /\ Goto(l) ELSE Throw

\* stateStore.abandonTask, on any state that is not terminal.
Abandon(l) ==
  IF deleted \/ state \in {"DONE", "FAILED"} THEN Throw
  ELSE state' = "ABANDONED" /\ Goto(l)

\* The agent cycle is left for its finally blocks.
Leave(after) == op' = [op EXCEPT !.at = "cleanup", !.after = after]

\* An exception inside the cycle: its row says so, then it is thrown again.
CycleThrows == cycle' = "failed" /\ Leave("throw") /\ state' = state

-----------------------------------------------------------------------------
(* The workflow and its first step.                                        *)

WorkflowActive == op.kind = "workflow" \/ \E i \in DOMAIN queue : queue[i].kind = "workflow"

\* runWorkflow: a call joins the workflow that is active, if there is one.
runWorkflow(s) ==
  queue' = IF WorkflowActive THEN queue ELSE Append(queue, [kind |-> "workflow", seen |-> s])

\* executeWorkflow dispatches on the state it reads; a deleted task is still
\* driven, from the row the caller had read.
Entry(s) ==
  CASE s = "DETECTED" -> "start"
    [] s \in {"CONTEXT_BUILDING", "AGENT_RUNNING", "RETRY_CYCLE"} -> "lease"
    [] s \in {"IN_REVIEW", "FEEDBACK_PROCESSING"} -> "check"
    [] s \in {"MERGED", "CLOSING"} -> "close"
    [] OTHER -> "idle"

BeginWorkflow ==
  /\ op.at = "idle" /\ queue # <<>> /\ Head(queue).kind = "workflow"
  /\ LET s == IF deleted THEN Head(queue).seen ELSE state IN
       op' = IF Entry(s) = "idle" THEN Idle
             ELSE [Idle EXCEPT !.at = Entry(s), !.kind = "workflow"]
  /\ state' = IF ~deleted /\ state = "AGENT_RUNNING" /\ cycle # "running"
              THEN "RETRY_CYCLE" ELSE state
  /\ queue' = Tail(queue)
  /\ UNCHANGED <<dbVars, outVars, prompted, left>> /\ Recorded

\* runFromDetected: the ticket is moved to in-progress and noted upon.
StartTicket ==
  /\ op.at = "start"
  /\ \/ ticket' = "progress" /\ Transition("CONTEXT_BUILDING", "lease")
     \/ UNCHANGED ticket /\ Throw
  /\ UNCHANGED <<dbVars, queue, review, posted, resolved, prompted, left>> /\ Recorded

\* The note about the failure has been posted, or could not be.
Notified ==
  /\ op.at = "notify" /\ Stop
  /\ UNCHANGED <<state, mark, dbVars, queue, outVars, prompted, left>>

-----------------------------------------------------------------------------
(* The agent cycle.                                                        *)

\* Where an operation goes when its agent cycle returns.
AfterCycle ==
  IF op.checking /\ ~deleted /\ state = "IN_REVIEW" THEN Goto("resolve") ELSE Stop

\* A slot of the concurrency tracker is granted, or the wait was aborted.
AcquireLease ==
  /\ op.at = "lease"
  /\ IF op.aborted THEN AfterCycle ELSE Goto("prompt")
  /\ UNCHANGED <<state, mark, dbVars, queue, outVars, prompted, left>>

\* The ticket is read, AGENT_RUNNING claimed and the cycle's row inserted.
StartCycle ==
  /\ op.at = "prompt"
  /\ \/ IF Legal("AGENT_RUNNING")
        THEN /\ Transition("AGENT_RUNNING", "agent")
             /\ cycle' = "running"
             /\ cycleCount' = IF state = "AGENT_RUNNING" /\ cycle = "running"
                              THEN cycleCount ELSE cycleCount + 1
             /\ prompted' = prompted \cup op.feedback
        ELSE Throw /\ UNCHANGED <<cycle, cycleCount, prompted>>
     \/ Throw /\ UNCHANGED <<cycle, cycleCount, prompted>>   \* the ticket cannot be read
  /\ UNCHANGED <<deleted, rows, processed, queue, outVars, left>> /\ Recorded

\* The workspace, the clone or the agent fails, or runs out of time.
AgentThrows ==
  /\ op.at = "agent" /\ CycleThrows
  /\ UNCHANGED <<deleted, cycleCount, rows, processed, queue, outVars, prompted, left>> /\ Recorded

\* The project's agent cannot be resolved: handled on the spot.
AgentUnresolved ==
  /\ op.at = "agent" /\ Leave("return")
  /\ state' = IF deleted \/ state \in Terminal THEN state ELSE "FAILED"
  /\ UNCHANGED <<dbVars, queue, outVars, prompted, left>> /\ Recorded

\* The task ended while the agent was at work: the result is discarded.
ResultDiscarded ==
  /\ op.at = "agent" /\ (deleted \/ state \in Terminal)
  /\ Leave("return")
  /\ cycle' = IF deleted THEN cycle ELSE "failed"
  /\ UNCHANGED <<state, mark, deleted, cycleCount, rows, processed, queue, outVars, prompted, left>>

ResultKept == op.at = "agent" /\ ~deleted /\ state \notin Terminal

AgentChangedNothing ==
  /\ ResultKept
  /\ IF Legal("ABANDONED")
     THEN state' = "ABANDONED" /\ cycle' = "no_change" /\ Leave("return")
     ELSE CycleThrows
  /\ UNCHANGED <<deleted, cycleCount, rows, processed, queue, outVars, prompted, left>> /\ Recorded

\* Mutated: a failed cycle is followed by another without a limit.
NoLimit(n) == FALSE

\* cycleNumber >= maxAgentCycles, or the prompt did not fit the model.
AtLimit(n) == n >= MaxAgentCycles

AgentReportsFailure ==
  /\ ResultKept
  /\ \/ state' = "ABANDONED" /\ cycle' = "failed" /\ Leave("return")   \* context overflow
     \/ /\ AtLimit(cycleCount)
        /\ state' = "ABANDONED" /\ cycle' = "failed" /\ Leave("return")
     \/ /\ ~AtLimit(cycleCount)
        /\ IF Legal("RETRY_CYCLE")
           THEN state' = "RETRY_CYCLE" /\ cycle' = "failed" /\ Leave("retry")
           ELSE CycleThrows
  /\ UNCHANGED <<deleted, cycleCount, rows, processed, queue, outVars, prompted, left>> /\ Recorded

AgentSucceeds ==
  /\ ResultKept
  /\ cycle' = "success"
  /\ op' = [op EXCEPT !.at = "push", !.todo = Repos, !.pushed = FALSE, !.pushErrors = FALSE]
  /\ UNCHANGED <<state, mark, deleted, cycleCount, rows, processed, queue, outVars, prompted, left>>

\* destroyWorkspace has been awaited and the slot is released.
Cleanup ==
  /\ op.at = "cleanup"
  /\ CASE op.after = "return" -> AfterCycle /\ UNCHANGED state
       [] op.after = "retry"  -> /\ op' = [op EXCEPT !.at = "lease", !.feedback = {}]
                                 /\ UNCHANGED state
       [] op.after = "throw"  -> Throw
  /\ UNCHANGED <<dbVars, queue, outVars, prompted, left>> /\ Recorded

-----------------------------------------------------------------------------
(* The push of the agent's commits, one target after the other.            *)

Target == Min(op.todo)

\* The target is not ahead of its branch: its row becomes NO_CHANGE.
SkipTarget ==
  /\ op.at = "push" /\ op.todo # {}
  /\ rows' = [rows EXCEPT ![Target] = "NO_CHANGE"]
  /\ op' = [op EXCEPT !.todo = @ \ {Target}]
  /\ UNCHANGED <<state, mark, deleted, cycleCount, cycle, processed, queue, outVars, prompted, left>>

\* pushDirect opens the review, or adds a patchset to it.
PushTarget ==
  /\ op.at = "push" /\ op.todo # {}
  /\ review' = [review EXCEPT ![Target] = "OPEN"]
  /\ Goto("record")
  /\ UNCHANGED <<state, mark, dbVars, queue, posted, resolved, ticket, prompted, left>>

RecordPush ==
  /\ op.at = "record"
  /\ rows' = [rows EXCEPT ![Target] = "OPEN"]
  /\ op' = [op EXCEPT !.at = "push", !.todo = @ \ {Target}, !.pushed = TRUE]
  /\ UNCHANGED <<state, mark, deleted, cycleCount, cycle, processed, queue, outVars, prompted, left>>

\* One target fails; the others are still pushed.
PushFails ==
  /\ op.at = "push" /\ op.todo # {}
  /\ op' = [op EXCEPT !.todo = @ \ {Target}, !.pushErrors = TRUE]
  /\ UNCHANGED <<state, mark, dbVars, queue, outVars, prompted, left>>

PushDone ==
  /\ op.at = "push" /\ op.todo = {}
  /\ IF (op.pushErrors /\ ~op.pushed) \/ ~Legal("IN_REVIEW") THEN CycleThrows
     ELSE state' = "IN_REVIEW" /\ Goto("toReview") /\ UNCHANGED cycle
  /\ UNCHANGED <<deleted, cycleCount, rows, processed, queue, outVars, prompted, left>> /\ Recorded

\* transitionToInReview of the ticket: a failure undoes nothing.
TicketToReview ==
  /\ op.at = "toReview"
  /\ \/ ticket' = "review" /\ Leave("return") /\ UNCHANGED <<state, cycle>>
     \/ UNCHANGED ticket /\ CycleThrows
  /\ UNCHANGED <<deleted, cycleCount, rows, processed, queue, review, posted, resolved, prompted, left>> /\ Recorded

-----------------------------------------------------------------------------
(* The progress of the reviews (checkMultiRepository).                     *)

\* The rows are read.  A task without rows has no change to look at.
Check ==
  /\ op.at = "check"
  /\ IF \A r \in Repos : rows[r] = "none" THEN Stop /\ UNCHANGED state
     ELSE IF Active = {} THEN Transition("MERGED", "close")
     ELSE /\ op' = [op EXCEPT !.at = "poll", !.checking = TRUE,
                      !.todo = {r \in Active : rows[r] = "OPEN"},
                      !.anyAbandoned = \E r \in Active : rows[r] = "ABANDONED"]
          /\ UNCHANGED state
  /\ UNCHANGED <<dbVars, queue, outVars, prompted, left>> /\ Recorded

\* updateChangePerRepositoryStatusById: MERGED and ABANDONED are kept.
RecordStatus(r) ==
  rows' = IF rows[r] = "OPEN" THEN [rows EXCEPT ![r] = review[r]] ELSE rows

PollFails ==
  /\ op.at = "poll" /\ op.todo # {}
  /\ op' = [op EXCEPT !.todo = @ \ {Target}, !.allMerged = FALSE]
  /\ UNCHANGED <<state, mark, dbVars, queue, outVars, prompted, left>>

\* The review system answers; the comments of an open change are next.
PollStatus ==
  /\ op.at = "poll" /\ op.todo # {}
  /\ RecordStatus(Target)
  /\ op' = IF review[Target] = "OPEN"
           THEN [op EXCEPT !.at = "comments", !.allMerged = FALSE]
           ELSE [op EXCEPT !.todo = @ \ {Target},
                           !.anyAbandoned = @ \/ review[Target] = "ABANDONED"]
  /\ UNCHANGED <<state, mark, deleted, cycleCount, cycle, processed, queue, outVars, prompted, left>>

\* Mutated: the comments are handed on but not marked as processed.
PollCommentsUnmarked ==
  /\ op.at = "comments"
  /\ LET new == {c \in posted \ (processed \cup resolved) : RepoOf[c] = Target} IN
       op' = [op EXCEPT !.at = "poll", !.todo = @ \ {Target},
                        !.feedback = @ \cup new, !.batch = @ \cup new]
  /\ UNCHANGED <<state, mark, dbVars, queue, outVars, prompted, left>>

\* extractNewFeedback marks what it returns; reading the comments may fail.
PollComments ==
  /\ op.at = "comments"
  /\ \E new \in {{}, {c \in posted \ (processed \cup resolved) : RepoOf[c] = Target}} :
       /\ processed' = processed \cup new
       /\ op' = [op EXCEPT !.at = "poll", !.todo = @ \ {Target},
                           !.feedback = @ \cup new, !.batch = @ \cup new]
  /\ UNCHANGED <<state, mark, deleted, cycleCount, cycle, rows, queue, outVars, prompted, left>>

Decide ==
  /\ op.at = "poll" /\ op.todo = {}
  /\ IF op.anyAbandoned THEN Abandon("notify")
     ELSE IF op.allMerged THEN Transition("MERGED", "close")
     ELSE Transition("FEEDBACK_PROCESSING", "feedback")
  /\ UNCHANGED <<dbVars, queue, outVars, prompted, left>> /\ Recorded

OverCycles == cycleCount > MaxAgentCycles

\* Nothing new: wait on.  Too many cycles: give up.  Otherwise another cycle.
ActOnFeedback ==
  /\ op.at = "feedback"
  /\ IF op.feedback = {}
     THEN IF Legal("IN_REVIEW") THEN state' = "IN_REVIEW" /\ Stop ELSE Throw
     ELSE IF OverCycles THEN Abandon("notify")
     ELSE Transition("RETRY_CYCLE", "lease")
  /\ UNCHANGED <<dbVars, queue, outVars, prompted, left>> /\ Recorded

\* resolveComments, after a cycle that led back to the review.
Resolve ==
  /\ op.at = "resolve" /\ Stop
  /\ \E cs \in {{}, op.batch} : resolved' = resolved \cup cs
  /\ UNCHANGED <<state, mark, dbVars, queue, review, posted, ticket, prompted, left>>

-----------------------------------------------------------------------------
(* The end of the task.                                                    *)

StartClosing ==
  /\ op.at = "close" /\ Transition("CLOSING", "closing")
  /\ UNCHANGED <<dbVars, queue, outVars, prompted, left>> /\ Recorded

\* The ticket is closed, or found to be gone.
CloseTicket ==
  /\ op.at = "closing" /\ ticket' = "closed" /\ Goto("closed")
  /\ UNCHANGED <<state, mark, dbVars, queue, review, posted, resolved, prompted, left>>

GiveUp == IF ~deleted /\ state \notin Terminal THEN state' = "FAILED" /\ Stop ELSE Throw

\* Mutated: the task is done whether or not the ticket was closed.
CloseFailsDone ==
  /\ op.at = "closing"
  /\ IF Legal("DONE") THEN state' = "DONE" /\ Stop ELSE GiveUp
  /\ UNCHANGED <<dbVars, queue, outVars, prompted, left>> /\ Recorded

\* Mutated: that the ticket could not be closed is only logged.
CloseFailsLogged ==
  /\ op.at = "closing" /\ Stop
  /\ UNCHANGED <<state, mark, dbVars, queue, outVars, prompted, left>>

\* The retries of the ticket system are exhausted.
CloseFails ==
  /\ op.at = "closing" /\ GiveUp
  /\ UNCHANGED <<dbVars, queue, outVars, prompted, left>> /\ Recorded

Closed ==
  /\ op.at = "closed"
  /\ IF Legal("DONE") THEN state' = "DONE" /\ Stop ELSE GiveUp
  /\ UNCHANGED <<dbVars, queue, outVars, prompted, left>> /\ Recorded

-----------------------------------------------------------------------------
(* Polls, webhooks and the operator.                                       *)

HandlerMayRun == op.at = "idle" /\ ~deleted

\* Mutated: only tasks with a change id of their own are looked at, and a
\* project's pushes record none.
BeginCheckById ==
  /\ HandlerMayRun /\ state = "IN_REVIEW" /\ Active = {} /\ Active # {}
  /\ op' = [Idle EXCEPT !.at = "check", !.kind = "handler"]
  /\ UNCHANGED <<state, mark, dbVars, queue, outVars, prompted, left>>

\* pollInReviewTasks and the webhooks about comments.
BeginCheck ==
  /\ HandlerMayRun /\ state = "IN_REVIEW" /\ Active # {}
  /\ op' = [Idle EXCEPT !.at = "check", !.kind = "handler"]
  /\ UNCHANGED <<state, mark, dbVars, queue, outVars, prompted, left>>

\* Mutated: one merged change is enough.
ConvergedAny(rs) == \E r \in Repos : rs[r] = "MERGED"

\* Every active row is MERGED.
Converged(rs) ==
  /\ \E r \in Repos : rs[r] \notin {"none", "NO_CHANGE"}
  /\ \A r \in Repos : rs[r] \in {"none", "NO_CHANGE", "MERGED"}

\* The webhook about a merged change.
ChangeMerged(r) ==
  /\ HandlerMayRun /\ state = "IN_REVIEW" /\ r \in Active /\ review[r] = "MERGED"
  /\ RecordStatus(r)
  /\ IF Converged(rows')
     THEN state' = "MERGED" /\ op' = [Idle EXCEPT !.at = "close", !.kind = "handler"]
     ELSE UNCHANGED <<state, op>>
  /\ UNCHANGED <<deleted, cycleCount, cycle, processed, queue, outVars, prompted, left>> /\ Recorded

\* The webhook about an abandoned change, in any state that is not terminal.
ChangeAbandoned(r) ==
  /\ HandlerMayRun /\ state \notin Terminal /\ r \in Active /\ review[r] = "ABANDONED"
  /\ state' = "ABANDONED" /\ op' = [Idle EXCEPT !.at = "notify", !.kind = "handler"]
  /\ UNCHANGED <<dbVars, queue, outVars, prompted, left>> /\ Recorded

\* Mutated: only a task that never had a cycle is resumed.
StalledPollFirst ==
  /\ ~deleted /\ state = "CONTEXT_BUILDING" /\ ~WorkflowActive
  /\ runWorkflow(state)
  /\ UNCHANGED <<state, mark, dbVars, op, outVars, prompted, left>>

\* resumeStalledCodeGenTask, on each tick of the poll.
StalledPoll ==
  /\ ~deleted /\ state \in {"CONTEXT_BUILDING", "RETRY_CYCLE"} /\ ~WorkflowActive
  /\ runWorkflow(state)
  /\ UNCHANGED <<state, mark, dbVars, op, outVars, prompted, left>>

Use(b) == left[b] > 0 /\ left' = [left EXCEPT ![b] = @ - 1]

\* cancelTaskAndRun aborts what runs and waits for it to end.
AbandonTask ==
  /\ ~deleted /\ Use("admin")
  /\ queue' = Append(queue, [kind |-> "abandon", seen |-> state])
  /\ op' = IF op.at = "idle" THEN op ELSE [op EXCEPT !.aborted = TRUE]
  /\ UNCHANGED <<state, mark, dbVars, outVars, prompted>>

\* Mutated: the abandonment asks the table of transitions.
BeginAbandonLegal ==
  /\ op.at = "idle" /\ queue # <<>> /\ Head(queue).kind = "abandon"
  /\ queue' = Tail(queue)
  /\ state' = IF ~Legal("ABANDONED") THEN state ELSE "ABANDONED"
  /\ UNCHANGED <<dbVars, op, outVars, prompted, left>> /\ Recorded

BeginAbandon ==
  /\ op.at = "idle" /\ queue # <<>> /\ Head(queue).kind = "abandon"
  /\ queue' = Tail(queue)
  /\ state' = IF deleted \/ state \in Terminal THEN state ELSE "ABANDONED"
  /\ UNCHANGED <<dbVars, op, outVars, prompted, left>> /\ Recorded

\* POST /retry, and the relaunch of failed tasks after a reconfiguration.
RetryTask ==
  /\ ~deleted /\ Use("retry")
  /\ state' = "DETECTED" /\ mark' = "none"
  /\ runWorkflow("DETECTED")
  /\ UNCHANGED <<dbVars, op, outVars, prompted>>

\* A pause is a row of state_transitions, and a resume another.
PauseTask ==
  /\ ~deleted /\ Use("admin") /\ mark' = "pause"
  /\ UNCHANGED <<state, dbVars, queue, op, outVars, prompted>>

ResumeTask ==
  /\ ~deleted /\ Use("admin") /\ mark' = "none"
  /\ runWorkflow(state)
  /\ UNCHANGED <<state, dbVars, op, outVars, prompted>>

\* A task at work is abandoned; one that has ended disappears with its rows,
\* unless it is a deletion that has ended it.
DeleteTask ==
  /\ ~deleted /\ Use("admin")
  /\ IF state \notin Terminal
     THEN state' = "ABANDONED" /\ mark' = "delete" /\ UNCHANGED <<deleted, rows, processed>>
     ELSE /\ UNCHANGED <<state, mark>>
          /\ IF mark = "delete" THEN UNCHANGED <<deleted, rows, processed>>
             ELSE deleted' = TRUE /\ rows' = [r \in Repos |-> "none"] /\ processed' = {}
  /\ UNCHANGED <<cycleCount, cycle, queue, op, outVars, prompted>>

\* reconcileOrphanedActiveTasks.
Orphan == IF ~deleted /\ state = "AGENT_RUNNING" THEN "FAILED" ELSE state

\* The process dies and starts again: resumeActiveTasks drives every task
\* that has not ended.
Restart ==
  /\ Use("restart")
  /\ op' = Idle
  /\ state' = Orphan
  /\ queue' = IF deleted \/ state' \in Terminal THEN <<>>
              ELSE <<[kind |-> "workflow", seen |-> state']>>
  /\ UNCHANGED <<dbVars, outVars, prompted>> /\ Recorded

(* The reviewers.                                                          *)

ReviewerActs(r, status) ==
  /\ review[r] = "OPEN" /\ review' = [review EXCEPT ![r] = status]
  /\ UNCHANGED <<state, mark, dbVars, queue, op, posted, resolved, ticket, prompted, left>>

Comment(c) ==
  /\ c \notin posted /\ review[RepoOf[c]] = "OPEN"
  /\ posted' = posted \cup {c}
  /\ UNCHANGED <<state, mark, dbVars, queue, op, review, resolved, ticket, prompted, left>>

-----------------------------------------------------------------------------
\* The steps of an operation that runs.
OpStep ==
  \/ StartTicket \/ Notified
  \/ AcquireLease \/ StartCycle
  \/ AgentThrows \/ AgentUnresolved \/ ResultDiscarded
  \/ AgentChangedNothing \/ AgentReportsFailure \/ AgentSucceeds \/ Cleanup
  \/ SkipTarget \/ PushTarget \/ RecordPush \/ PushFails \/ PushDone \/ TicketToReview
  \/ Check \/ PollFails \/ PollStatus \/ PollComments \/ Decide \/ ActOnFeedback \/ Resolve
  \/ StartClosing \/ CloseTicket \/ CloseFails \/ Closed

Operator == AbandonTask \/ RetryTask \/ PauseTask \/ ResumeTask \/ DeleteTask

Poll    == BeginCheck \/ StalledPoll
Webhook == \E r \in Repos : ChangeMerged(r) \/ ChangeAbandoned(r)

Reviewer ==
  \/ \E r \in Repos, s \in {"MERGED", "ABANDONED"} : ReviewerActs(r, s)
  \/ \E c \in Comments : Comment(c)

Next ==
  \/ BeginWorkflow \/ BeginAbandon \/ OpStep
  \/ Poll \/ Webhook
  \/ Operator \/ Restart \/ Reviewer

Spec == Init /\ [][Next]_vars

\* Every await ends, the chain of the task is first in first out, the timer
\* of the polling loop keeps ticking, and each review system answers
\* again and again.  That the wait for a slot ends (AcquireLease) is what the
\* tracker promises, but for a waiter it loses (WaiterSettles and OrderlySpec of
\* ConcurrencyTracker).
Fairness ==
  /\ WF_vars(OpStep)
  /\ SF_vars(BeginWorkflow) /\ SF_vars(BeginAbandon)
  /\ WF_vars(StalledPoll) /\ SF_vars(BeginCheck)
  /\ \A r \in Repos : SF_vars(PollStatus /\ r = Target)

LiveSpec == Spec /\ Fairness

-----------------------------------------------------------------------------
(* Properties.                                                             *)

Labels == {"idle", "start", "lease", "prompt", "agent", "cleanup", "push", "record",
           "toReview", "notify", "check", "poll", "comments", "feedback", "resolve",
           "close", "closing", "closed"}

RowStatus == {"none", "NO_CHANGE", "OPEN", "MERGED", "ABANDONED"}

TaskStates == {"DETECTED", "CONTEXT_BUILDING", "AGENT_RUNNING", "IN_REVIEW", "FEEDBACK_PROCESSING",
               "RETRY_CYCLE", "MERGED", "CLOSING", "DONE", "FAILED", "ABANDONED"}

Items == [kind : {"workflow", "abandon"}, seen : TaskStates]

Operations ==
  [at : Labels, kind : {"none", "workflow", "handler"}, checking : BOOLEAN, aborted : BOOLEAN,
   todo : SUBSET Repos, allMerged : BOOLEAN, anyAbandoned : BOOLEAN,
   feedback : SUBSET Comments, batch : SUBSET Comments, pushed : BOOLEAN, pushErrors : BOOLEAN,
   after : {"return", "retry", "throw"}]

\* Every variable has its type; a step of a push or a poll has a target.
TypeOK ==
  /\ state \in TaskStates /\ deleted \in BOOLEAN
  /\ mark \in {"none", "pause", "delete"}
  /\ cycleCount \in Nat /\ cycle \in {"none", "running", "failed", "no_change", "success"}
  /\ rows \in [Repos -> RowStatus]
  /\ review \in [Repos -> {"none", "OPEN", "MERGED", "ABANDONED"}]
  /\ ticket \in {"open", "progress", "review", "closed"}
  /\ processed \in SUBSET Comments /\ posted \in SUBSET Comments /\ resolved \in SUBSET Comments
  /\ prompted \in SUBSET Comments
  /\ queue \in Seq(Items)
  /\ op \in Operations
  /\ op.at \in {"record", "comments"} => op.todo # {}
  /\ left \in [retry : 0..MaxRetries, restart : 0..MaxRestarts, admin : 0..MaxAdmin]

\* However the workflow, the handlers, the operator, the reviewers and
\* restarts interleave, the task row only makes the moves of the state
\* machine: in particular a workflow that is still ending never revives a
\* task that was abandoned, deleted or failed meanwhile.
KeepsToMachine == Machine!Spec

\* A task that converged has no row left open or abandoned, and none while
\* its ticket is being closed, whatever polls, webhooks and pushes did to
\* the rows before.
ConvergedRows ==
  state \in {"MERGED", "CLOSING", "DONE"} =>
    \A r \in Repos : rows[r] \in {"none", "NO_CHANGE", "MERGED"}

\* A task is DONE only once its ticket was closed, and the ticket stays so:
\* no operation that is still ending moves it back to progress or review.
DoneIsClosed == state = "DONE" => ticket = "closed"

\* No comment is worked on twice: not after a restart, not when the same
\* check is made by the poll and by a webhook, not by the next cycle.
CommentsOnce == op.at = "prompt" => op.feedback \cap prompted = {}

\* Cycles are bounded, in whatever order polls, workflows, failures and
\* restarts follow each other: a review may take the task one past the
\* limit, a workflow that finds the cycle of a failed review pass one
\* further, and each retry of the operator one more.
CyclesBounded == cycleCount <= MaxAgentCycles + 2 + (MaxRetries - left.retry)

\* One workflow at a time is queued or running, so that no two drive the
\* task from different readings of its row.
OneWorkflow ==
  Cardinality({i \in DOMAIN queue : queue[i].kind = "workflow"})
    + (IF op.kind = "workflow" THEN 1 ELSE 0) <= 1

\* An operation is at work on the task, or a workflow waits for its turn.
Attended == op.at # "idle" \/ \E i \in DOMAIN queue : queue[i].kind = "workflow"

\* No poll looks at a task that is new, weighs feedback or is being closed, nor
\* at one whose agent is at work, so none is left there by whatever ends the
\* operation it was in: but for a retry that joined a workflow at its end, and
\* for a cycle that a poll or a webhook began and that has failed.
NeverStranded ==
  ~deleted /\ ~Attended =>
    /\ state \notin {"FEEDBACK_PROCESSING", "MERGED", "CLOSING"}
    /\ state = "DETECTED" => left.retry < MaxRetries
    /\ state = "AGENT_RUNNING" => cycle # "running"

\* A task is not left between two cycles, whatever ended the operation that
\* was there: the polling loop drives it on, where the tracker grants slots.
StalledResumes ==
  (state \in {"CONTEXT_BUILDING", "RETRY_CYCLE"}) ~> (state \notin {"CONTEXT_BUILDING", "RETRY_CYCLE"})

\* A task that converged comes to an end.
MergedCloses == (state \in {"MERGED", "CLOSING"}) ~> (state \notin {"MERGED", "CLOSING"})

\* A task in review whose active changes are all merged does not stay there,
\* even if every webhook is lost.
MergeIsNoticed ==
  (state = "IN_REVIEW" /\ Active # {} /\ \A r \in Active : review[r] = "MERGED")
    ~> (state # "IN_REVIEW" \/ deleted)

\* An abandonment is carried out even if it had to wait behind the agent.
AbandonCarriedOut == (\E i \in DOMAIN queue : queue[i].kind = "abandon") ~> (state \in Terminal \/ left.restart < MaxRestarts)
=============================================================================
