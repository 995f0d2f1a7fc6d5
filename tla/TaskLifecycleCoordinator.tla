----------------------- MODULE TaskLifecycleCoordinator -----------------------
(***************************************************************************)
(* The promise chains that serialize work on a task, and that keep the     *)
(* deletion of a project apart from the start of its tasks                 *)
(* (class TaskLifecycleCoordinator).                                       *)
(*                                                                         *)
(* An entry of the map taskTails is the promise of the last call made for  *)
(* the task; each call waits for the promise it found there.  One action   *)
(* is the code between two awaits (or between two promise callbacks); the  *)
(* operations the coordinator is given are what its callers pass.          *)
(***************************************************************************)
EXTENDS Integers, FiniteSets

CONSTANTS
  Tasks, Projects,
  Runs,       \* calls of runTask: workflows, webhook handlers, review passes
  Cancels,    \* calls of cancelTaskAndRun: an operator abandons the task
  Starts,     \* calls of startTaskForProject and startReviewTask
  Deletes,    \* calls of deleteProject
  TaskOf,     \* the task of each call; of a start, the task it would create
  ProjectOf,  \* the project of each task
  Deleted,    \* the project each call of deleteProject names
  Existing,   \* the tasks in the database at the beginning
  None        \* no promise, no controller

Calls   == Runs \cup Cancels \cup Starts
Entries == Calls \cup Deletes   \* what may stand in taskTails

ASSUME ConstantsAssumption ==
  /\ Runs \cap Cancels = {} /\ Runs \cap Starts = {} /\ Cancels \cap Starts = {}
  /\ Calls \cap Deletes = {}
  /\ None \notin Entries
  /\ TaskOf \in [Calls -> Tasks]
  /\ ProjectOf \in [Tasks -> Projects]
  /\ Deleted \in [Deletes -> Projects]
  /\ Existing \subseteq Tasks

VARIABLES
  row,             \* task rows: "none", "live", "done", "abandoned"
  gone,            \* projects whose row has been deleted
  pc,              \* where each call is
  taskTails,       \* per task, the last promise of its chain
  prev,            \* per call and task, the promise it found in taskTails
  controllers,     \* activeTaskControllers: the call that runs for the task
  pending,         \* pendingTaskCancellations
  aborted,         \* calls whose signal was aborted
  deletedTaskIds,
  startTails,      \* projectStartTails
  startPrev,       \* the start promise each start or deletion waits for
  deleting,        \* deletingProjects
  ids,             \* the task ids each deletion listed
  clock, stamp     \* the order in which promises entered the two maps of tails

dbVars    == <<row, gone>>
chainVars == <<taskTails, prev, clock, stamp>>
abortVars == <<controllers, pending, aborted>>
startVars == <<startTails, startPrev>>
delVars   == <<deletedTaskIds, deleting, ids>>
vars == <<dbVars, pc, chainVars, abortVars, startVars, delVars>>

-----------------------------------------------------------------------------
(* Promises.                                                               *)

\* The promise a call put into taskTails has settled.
Resolved(e) == pc[e] \in {"settled", "cleared", "rejected", "done", "failed"}

\* Every promise the call waits for has settled.
Ready(e) == \A t \in Tasks : prev[e][t] # None => Resolved(prev[e][t])

\* The tasks whose chains the call joins.
Covers(e) == IF e \in Deletes THEN ids[e] ELSE {TaskOf[e]}

\* Mutated: the chain is read after the call was put at its end.
EnqueueSelf(e, T) ==
  /\ prev' = [prev EXCEPT ![e] = [t \in Tasks |-> IF t \in T THEN e ELSE None]]
  /\ taskTails' = [t \in Tasks |-> IF t \in T THEN e ELSE taskTails[t]]
  /\ clock' = clock + 1
  /\ stamp' = [stamp EXCEPT ![e] = clock + 1]

\* The call joins the chains of the tasks T.
Enqueue(e, T) ==
  /\ prev' = [prev EXCEPT ![e] = [t \in Tasks |-> IF t \in T THEN taskTails[t] ELSE None]]
  /\ taskTails' = [t \in Tasks |-> IF t \in T THEN e ELSE taskTails[t]]
  /\ clock' = clock + 1
  /\ stamp' = [stamp EXCEPT ![e] = clock + 1]

\* Mutated: the end of a call empties the chain even if another one joined it.
LeaveAlways(e) ==
  /\ taskTails' = [t \in Tasks |-> IF t \in Covers(e) THEN None ELSE taskTails[t]]
  /\ prev' = [prev EXCEPT ![e] = [t \in Tasks |-> None]]
  /\ UNCHANGED <<clock, stamp>>

\* A chain is dropped if the call is still its last one.
Leave(e) ==
  /\ taskTails' = [t \in Tasks |-> IF taskTails[t] = e THEN None ELSE taskTails[t]]
  /\ prev' = [prev EXCEPT ![e] = [t \in Tasks |-> None]]
  /\ UNCHANGED <<clock, stamp>>

\* The lease of a start has been released.
Released(s) == pc[s] \notin {"idle", "waiting", "leased", "created"}

\* Mutated: the promise resolves when the lease is granted.
StartGranted(e) == startPrev[e] # None => pc[startPrev[e]] \notin {"idle", "waiting"}

\* The lease the start or deletion waits for has been released.
StartReady(e) == startPrev[e] # None => Released(startPrev[e])

JoinStarts(s, p) ==
  /\ startPrev' = [startPrev EXCEPT ![s] = startTails[p]]
  /\ startTails' = [startTails EXCEPT ![p] = s]
  /\ clock' = clock + 1
  /\ stamp' = [stamp EXCEPT ![s] = clock + 1]
  /\ UNCHANGED <<taskTails, prev>>

LeaveStarts(s, p) ==
  /\ startTails' = IF startTails[p] = s THEN [startTails EXCEPT ![p] = None] ELSE startTails
  /\ UNCHANGED startPrev

Goto(e, label) == pc' = [pc EXCEPT ![e] = label]

-----------------------------------------------------------------------------
(* Operations on a task.                                                   *)

runTask(x) ==
  LET t == TaskOf[x] IN
  /\ pc[x] = "idle" /\ row[t] # "none"
  /\ Enqueue(x, {t})
  /\ Goto(x, "queued")
  /\ UNCHANGED <<dbVars, abortVars, startVars, delVars>>

\* The call that runs is aborted; if none runs but the chain is not empty,
\* the next one to begin will be.
cancelTaskAndRun(x) ==
  LET t == TaskOf[x] IN
  /\ pc[x] = "idle" /\ row[t] # "none"
  /\ aborted' = IF controllers[t] # None THEN aborted \cup {controllers[t]} ELSE aborted
  /\ pending' = IF controllers[t] = None /\ taskTails[t] # None
                THEN pending \cup {t} ELSE pending
  /\ Enqueue(x, {t})
  /\ Goto(x, "queued")
  /\ UNCHANGED <<dbVars, controllers, startVars, delVars>>

\* Mutated: a pending cancellation is not taken off the map.
BeginKeepsPending(x) ==
  LET t == TaskOf[x] IN
  /\ pc[x] = "queued" /\ Ready(x)
  /\ controllers' = [controllers EXCEPT ![t] = x]
  /\ aborted' = IF t \in pending THEN aborted \cup {x} ELSE aborted
  /\ Goto(x, "running")
  /\ UNCHANGED <<dbVars, chainVars, pending, startVars, delVars>>

\* The promises before the call have settled: its operation begins.
Begin(x) ==
  LET t == TaskOf[x] IN
  /\ pc[x] = "queued" /\ Ready(x)
  /\ controllers' = [controllers EXCEPT ![t] = x]
  /\ aborted' = IF t \in pending THEN aborted \cup {x} ELSE aborted
  /\ pending' = pending \ {t}
  /\ Goto(x, "running")
  /\ UNCHANGED <<dbVars, chainVars, startVars, delVars>>

\* What an operation leaves in the task row: an abandonment ends a live task,
\* any other operation ends it or leaves it active.
Outcome(x) ==
  LET r == row[TaskOf[x]] IN
  IF r # "live" THEN {r} ELSE IF x \in Cancels THEN {"abandoned"} ELSE {"live", "done"}

\* The operation ends, by returning or throwing; its controller is removed.
End(x) ==
  LET t == TaskOf[x] IN
  /\ pc[x] = "running"
  /\ \E r \in Outcome(x) : row' = [row EXCEPT ![t] = r]
  /\ controllers' = IF controllers[t] = x THEN [controllers EXCEPT ![t] = None] ELSE controllers
  /\ Goto(x, "finished")
  /\ UNCHANGED <<gone, chainVars, pending, aborted, startVars, delVars>>

\* The finally callback of the tracked promise.
Settle(x) ==
  /\ pc[x] = "finished"
  /\ Leave(x)
  /\ Goto(x, "settled")
  /\ UNCHANGED <<dbVars, abortVars, startVars, delVars>>

-----------------------------------------------------------------------------
(* Starts of tasks.                                                        *)

\* acquireProjectStart up to its await.
requestStart(s) ==
  LET p == ProjectOf[TaskOf[s]] IN
  /\ pc[s] = "idle"
  /\ IF p \in deleting
     THEN Goto(s, "refused") /\ UNCHANGED <<startVars, chainVars>>
     ELSE Goto(s, "waiting") /\ JoinStarts(s, p)
  /\ UNCHANGED <<dbVars, abortVars, delVars>>

\* acquireProjectStart after its await.
acquireProjectStart(s) ==
  LET p == ProjectOf[TaskOf[s]] IN
  /\ pc[s] = "waiting" /\ StartReady(s)
  /\ IF p \in deleting
     THEN Goto(s, "refused") /\ LeaveStarts(s, p)
     ELSE Goto(s, "leased") /\ UNCHANGED startVars
  /\ UNCHANGED <<dbVars, chainVars, abortVars, delVars>>

\* The holder of the lease inserts the task.
createTask(s) ==
  LET t == TaskOf[s] IN
  /\ pc[s] = "leased" /\ row[t] = "none"
  /\ row' = [row EXCEPT ![t] = "live"]
  /\ Goto(s, "created")
  /\ UNCHANGED <<gone, chainVars, abortVars, startVars, delVars>>

\* The holder leaves without a task: the ticket already has one, its attempts
\* are used up, or a lookup threw.  A review start also leaves this way after
\* it created the task; its caller runs the review later.
releaseStart(s) ==
  /\ pc[s] \in {"leased", "created"}
  /\ LeaveStarts(s, ProjectOf[TaskOf[s]])
  /\ Goto(s, "returned")
  /\ UNCHANGED <<dbVars, chainVars, abortVars, delVars>>

\* A code-generation start releases its lease and queues the workflow at once.
releaseAndRun(s) ==
  /\ pc[s] = "created"
  /\ LeaveStarts(s, ProjectOf[TaskOf[s]])
  /\ Enqueue(s, {TaskOf[s]})
  /\ Goto(s, "queued")
  /\ UNCHANGED <<dbVars, abortVars, delVars>>

-----------------------------------------------------------------------------
(* Deletion of a project.                                                  *)

deleteProject(d) ==
  LET p == Deleted[d] IN
  /\ pc[d] = "idle"
  /\ IF p \in deleting
     THEN Goto(d, "refused") /\ UNCHANGED <<startPrev, deleting>>
     ELSE /\ deleting' = deleting \cup {p}
          /\ startPrev' = [startPrev EXCEPT ![d] = startTails[p]]
          /\ Goto(d, "awaitStarts")
  /\ UNCHANGED <<dbVars, chainVars, abortVars, startTails, deletedTaskIds, ids>>

TasksOf(p) == {t \in Tasks : ProjectOf[t] = p /\ row[t] # "none"}

\* The starts in progress are over; getTaskIds reads the tasks of the project.
DeleteList(d) ==
  /\ pc[d] = "awaitStarts" /\ StartReady(d)
  /\ ids' = [ids EXCEPT ![d] = TasksOf(Deleted[d])]
  /\ Goto(d, "listing")
  /\ UNCHANGED <<dbVars, chainVars, abortVars, startVars, deletedTaskIds, deleting>>

\* What a deletion does to the rows: the transaction commits or rolls back.
DeleteRows(d, commits) ==
  LET p == Deleted[d] IN
  IF commits
  THEN /\ row' = [t \in Tasks |-> IF ProjectOf[t] = p /\ row[t] = "live"
                                  THEN "abandoned" ELSE row[t]]
       /\ gone' = gone \cup {p}
  ELSE UNCHANGED dbVars

\* The calls that run for the listed tasks.
RunningFor(T) == {controllers[t] : t \in T} \ {None}

\* Mutated: the barrier joins no chain.
DeleteUnbarred(d) ==
  /\ pc[d] = "listing"
  /\ aborted' = aborted \cup RunningFor(ids[d])
  /\ Enqueue(d, {}) /\ Goto(d, "barrier") /\ UNCHANGED dbVars
  /\ UNCHANGED <<controllers, pending, startVars, delVars>>

\* Running calls are aborted and the barrier joins the chain of every task; a
\* project without tasks is deleted at once.
DeleteBarrier(d) ==
  /\ pc[d] = "listing"
  /\ aborted' = aborted \cup RunningFor(ids[d])
  /\ \/ /\ ids[d] # {}
        /\ Enqueue(d, ids[d]) /\ Goto(d, "barrier") /\ UNCHANGED dbVars
     \/ /\ ids[d] = {}
        /\ \E commits \in BOOLEAN :
             DeleteRows(d, commits) /\ Goto(d, IF commits THEN "cleared" ELSE "rejected")
        /\ UNCHANGED chainVars
  /\ UNCHANGED <<controllers, pending, startVars, delVars>>

\* Every call before the barrier has settled.
DeleteOperation(d) ==
  /\ pc[d] = "barrier" /\ Ready(d)
  /\ \E commits \in BOOLEAN :
       DeleteRows(d, commits) /\ Goto(d, IF commits THEN "ran" ELSE "threw")
  /\ UNCHANGED <<chainVars, abortVars, startVars, delVars>>

DeleteClear(d) ==
  /\ pc[d] \in {"ran", "threw"}
  /\ Leave(d)
  /\ Goto(d, IF pc[d] = "ran" THEN "cleared" ELSE "rejected")
  /\ UNCHANGED <<dbVars, abortVars, startVars, delVars>>

\* Mutated: a deletion that succeeded lifts the mark as well.
DeleteUnmarks(d) ==
  /\ pc[d] \in {"cleared", "rejected"}
  /\ deletedTaskIds' = IF pc[d] = "cleared" THEN deletedTaskIds \cup ids[d] ELSE deletedTaskIds
  /\ deleting' = deleting \ {Deleted[d]}
  /\ Goto(d, IF pc[d] = "cleared" THEN "done" ELSE "failed")
  /\ UNCHANGED <<dbVars, chainVars, abortVars, startVars, ids>>

\* deleteProject returns, or rethrows and lifts the mark.  getTaskIds may also
\* reject.
DeleteReturns(d) ==
  /\ \/ /\ pc[d] = "cleared"
        /\ deletedTaskIds' = deletedTaskIds \cup ids[d]
        /\ Goto(d, "done")
        /\ UNCHANGED deleting
     \/ /\ pc[d] \in {"rejected", "listing"}
        /\ deleting' = deleting \ {Deleted[d]}
        /\ Goto(d, "failed")
        /\ UNCHANGED deletedTaskIds
  /\ UNCHANGED <<dbVars, chainVars, abortVars, startVars, ids>>

-----------------------------------------------------------------------------
Init ==
  /\ row = [t \in Tasks |-> IF t \in Existing THEN "live" ELSE "none"]
  /\ gone = {}
  /\ pc = [e \in Entries |-> "idle"]
  /\ taskTails = [t \in Tasks |-> None]
  /\ prev = [e \in Entries |-> [t \in Tasks |-> None]]
  /\ controllers = [t \in Tasks |-> None]
  /\ pending = {} /\ aborted = {} /\ deletedTaskIds = {}
  /\ startTails = [p \in Projects |-> None]
  /\ startPrev = [e \in Starts \cup Deletes |-> None]
  /\ deleting = {}
  /\ ids = [d \in Deletes |-> {}]
  /\ clock = 0
  /\ stamp = [e \in Entries |-> 0]

TaskStep(x)   == Begin(x) \/ End(x) \/ Settle(x)
StartStep(s)  == acquireProjectStart(s) \/ createTask(s) \/ releaseStart(s) \/ releaseAndRun(s)
DeleteStep(d) == \/ DeleteList(d) \/ DeleteBarrier(d) \/ DeleteOperation(d)
                 \/ DeleteClear(d) \/ DeleteReturns(d)

Next ==
  \/ \E x \in Runs : runTask(x)
  \/ \E x \in Cancels : cancelTaskAndRun(x)
  \/ \E s \in Starts : requestStart(s)
  \/ \E d \in Deletes : deleteProject(d)
  \/ \E x \in Calls : TaskStep(x)
  \/ \E s \in Starts : StartStep(s)
  \/ \E d \in Deletes : DeleteStep(d)

Spec == Init /\ [][Next]_vars

\* Promise callbacks are run by the event loop, and an operation given to the
\* coordinator ends: agent runs and provider calls have timeouts.
Fairness ==
  /\ \A x \in Calls : WF_vars(TaskStep(x))
  /\ \A s \in Starts : WF_vars(StartStep(s))
  /\ \A d \in Deletes : WF_vars(DeleteStep(d))

LiveSpec == Spec /\ Fairness

-----------------------------------------------------------------------------
(* Properties.                                                             *)

CallLabels == {"idle", "queued", "running", "finished", "settled"}
StartLabels == CallLabels \cup {"refused", "waiting", "leased", "created", "returned"}
DeleteLabels == {"idle", "refused", "awaitStarts", "listing", "barrier", "ran", "threw",
                 "cleared", "rejected", "done", "failed"}

\* Type invariant.
TypeOK ==
  /\ row \in [Tasks -> {"none", "live", "done", "abandoned"}]
  /\ gone \subseteq Projects
  /\ pc \in [Entries -> StartLabels \cup DeleteLabels]
  /\ \A x \in Runs \cup Cancels : pc[x] \in CallLabels
  /\ \A s \in Starts : pc[s] \in StartLabels
  /\ \A d \in Deletes : pc[d] \in DeleteLabels
  /\ taskTails \in [Tasks -> Entries \cup {None}]
  /\ prev \in [Entries -> [Tasks -> Entries \cup {None}]]
  /\ controllers \in [Tasks -> Calls \cup {None}]
  /\ pending \subseteq Tasks /\ aborted \subseteq Calls /\ deletedTaskIds \subseteq Tasks
  /\ startTails \in [Projects -> Starts \cup {None}]
  /\ startPrev \in [Starts \cup Deletes -> Starts \cup {None}]
  /\ deleting \subseteq Projects
  /\ ids \in [Deletes -> SUBSET Tasks]
  /\ clock \in Nat
  /\ stamp \in [Entries -> Nat]

\* The operation of the call is under way, or its last callback is due.
Working(e) == pc[e] \in {"running", "finished", "ran", "threw"}

\* The call has joined a chain and has not settled.
Unsettled(e) == pc[e] = "queued" \/ pc[e] = "barrier" \/ Working(e)

\* Operations on one task do not overlap and run in the order of their calls:
\* when one is under way, every call before it has settled.
InCallOrder ==
  \A e, f \in Entries :
    Working(f) /\ Unsettled(e) /\ e # f /\ Covers(e) \cap Covers(f) # {}
      => stamp[f] < stamp[e]

\* While the rows of a project are deleted nothing runs for any of its tasks,
\* also not for one that was created while the deletion was waiting.
DeletionRunsAlone ==
  \A d \in Deletes, x \in Calls :
    pc[d] \in {"ran", "threw"} /\ ProjectOf[TaskOf[x]] = Deleted[d] => pc[x] # "running"

\* Starts of a project check for an active task and create one one at a time.
OneLease ==
  \A r, s \in Starts :
    /\ pc[r] \in {"leased", "created"} /\ pc[s] \in {"leased", "created"}
    /\ ProjectOf[TaskOf[r]] = ProjectOf[TaskOf[s]]
    => r = s

\* No task of a deleted project is live: every task was abandoned with it, and
\* none was created afterwards.
NoOrphanTask == \A t \in Tasks : row[t] = "live" => ProjectOf[t] \notin gone

\* A cancellation left for the next call to begin belongs to a cancelling call
\* that has not begun: it cannot be left for a call made later.
CancellationHasOwner ==
  \A t \in pending : \E c \in Cancels : TaskOf[c] = t /\ pc[c] = "queued"

\* A call is aborted only by a cancellation of its task or the deletion of its
\* project that was called after it (a cancelling call may abort itself).
AbortedByLaterCall ==
  \A x \in aborted :
    \/ \E c \in Cancels : TaskOf[c] = TaskOf[x] /\ pc[c] # "idle" /\ stamp[x] <= stamp[c]
    \/ \E d \in Deletes : TaskOf[x] \in ids[d]

\* The coordinator as its callers see it: a call has not joined the chain of
\* its tasks, waits there, is at work, or is over; it is behind the calls that
\* joined one of the chains before it and have not settled.
Phase(e) == CASE Working(e) -> "inside"
              [] pc[e] \in {"queued", "barrier"} -> "waiting"
              [] pc[e] \in {"idle", "waiting", "leased", "created", "awaitStarts", "listing"} -> "out"
              [] OTHER -> "over"

Joined(e) == IF Unsettled(e) THEN Covers(e) ELSE {}

Ahead(e) == {f \in Entries : Joined(e) \cap Joined(f) # {} /\ stamp[f] < stamp[e]}

Serial == INSTANCE SerializedTasks
  WITH Operations <- Entries,
       state <- [e \in Entries |-> Phase(e)],
       tasks <- [e \in Entries |-> Joined(e)],
       ahead <- [e \in Entries |-> Ahead(e)]

\* Calls that share a task are served one at a time and in the order in which
\* they were made, each once, although a call waits only for the one promise
\* it finds in taskTails for each of its tasks.
RunsInTurn == Serial!Spec

\* The call waits for a promise of f that has not settled.
WaitsFor(e, f) ==
  \/ /\ pc[e] \in {"queued", "barrier"} /\ ~Resolved(f)
     /\ \E t \in Tasks : prev[e][t] = f
  \/ pc[e] \in {"waiting", "awaitStarts"} /\ startPrev[e] = f /\ ~Released(f)

InProgress(e) == pc[e] \notin {"idle", "settled", "refused", "returned", "done", "failed"}

\* The waits of calls for one another never close into a ring: whoever is
\* waited for has been called and has not returned, and in any set of calls
\* one waits for none of the others.
NoRing ==
  /\ \A e, f \in Entries : WaitsFor(e, f) => InProgress(f)
  /\ \A S \in SUBSET Entries : S # {} => \E e \in S : \A f \in S : ~WaitsFor(e, f)

\* Every call returns: no chain of promises waits on itself.
CallsReturn ==
  /\ \A x \in Runs \cup Cancels : pc[x] = "queued" ~> pc[x] = "settled"
  /\ \A s \in Starts : pc[s] = "waiting" ~> pc[s] \in {"refused", "returned", "settled"}
  /\ \A d \in Deletes : pc[d] = "awaitStarts" ~> pc[d] \in {"done", "failed"}
=============================================================================
