-------------------- MODULE TaskLifecycleCoordinator_proofs --------------------
(***************************************************************************)
(* Proofs of the safety properties of TaskLifecycleCoordinator for any     *)
(* number of tasks, projects and calls.                                    *)
(*                                                                         *)
(* The chains are described by the order in which promises entered them:   *)
(* the tail of a chain is its latest unsettled promise, and a promise that *)
(* waits for another one finds every earlier unsettled promise behind it.  *)
(* Mutual exclusion and call order follow from that.                       *)
(***************************************************************************)
EXTENDS TaskLifecycleCoordinator, WellFoundedInduction, TLAPS

\* The start holds, or waits for, the lease of its project.
Held(s) == pc[s] \in {"waiting", "leased", "created"}

\* The promise of the call is the tail of a chain or behind one.
Placed(e) == Unsettled(e) \/ (e \in Starts /\ Held(e))

StartProject(s) == ProjectOf[TaskOf[s]]

\* The deletion may have changed the project or may still do so.
Deleting(d) == pc[d] \in {"awaitStarts", "listing", "barrier", "ran", "threw",
                          "cleared", "rejected", "done"}

\* The chain of each task.
StampInv == \A e \in Entries : stamp[e] <= clock

DistinctInv ==
  \A e, f \in Entries :
    Placed(e) /\ Placed(f) /\ stamp[e] = stamp[f] => e = f

TailInv ==
  \A t \in Tasks :
    /\ taskTails[t] # None => Unsettled(taskTails[t]) /\ t \in Covers(taskTails[t])
    /\ \A e \in Entries : Unsettled(e) /\ t \in Covers(e)
         => taskTails[t] # None /\ stamp[e] <= stamp[taskTails[t]]

PrevInv ==
  \A f \in Entries, t \in Tasks :
    pc[f] \in {"queued", "barrier"} =>
      /\ prev[f][t] # None =>
           /\ t \in Covers(f) /\ t \in Covers(prev[f][t])
           /\ Unsettled(prev[f][t]) \/ Resolved(prev[f][t])
           /\ stamp[prev[f][t]] < stamp[f]
      /\ \A e \in Entries :
           Unsettled(e) /\ t \in Covers(e) /\ t \in Covers(f) /\ stamp[e] < stamp[f]
             => prev[f][t] # None /\ Unsettled(prev[f][t]) /\ stamp[e] <= stamp[prev[f][t]]

OrderInv == InCallOrder

\* The chain of starts of each project.
StartTailInv ==
  \A p \in Projects :
    /\ startTails[p] # None => Held(startTails[p]) /\ StartProject(startTails[p]) = p
    /\ \A s \in Starts : Held(s) /\ StartProject(s) = p
         => startTails[p] # None /\ stamp[s] <= stamp[startTails[p]]

StartPrevInv ==
  \A s \in Starts :
    pc[s] = "waiting" =>
      /\ startPrev[s] # None => /\ StartProject(startPrev[s]) = StartProject(s)
                                /\ pc[startPrev[s]] # "idle"
                                /\ stamp[startPrev[s]] < stamp[s] \/ ~Held(startPrev[s])
      /\ \A r \in Starts : Held(r) /\ StartProject(r) = StartProject(s) /\ stamp[r] < stamp[s]
           => startPrev[s] # None /\ Held(startPrev[s]) /\ stamp[r] <= stamp[startPrev[s]]

LeaseInv ==
  \A r, s \in Starts :
    pc[r] \in {"leased", "created"} /\ Held(s) /\ StartProject(r) = StartProject(s) /\ r # s
      => stamp[r] < stamp[s]

\* Deletions.
MarkInv ==
  /\ \A d \in Deletes : Deleting(d) => Deleted[d] \in deleting
  /\ \A c, d \in Deletes : Deleting(c) /\ Deleting(d) /\ Deleted[c] = Deleted[d] => c = d
  /\ \A p \in gone : \E d \in Deletes : Deleted[d] = p /\ pc[d] \in {"ran", "cleared", "done"}

WaitInv ==
  \A d \in Deletes, s \in Starts :
    pc[d] = "awaitStarts" /\ Held(s) /\ StartProject(s) = Deleted[d]
      => /\ startPrev[d] # None /\ Held(startPrev[d])
         /\ StartProject(startPrev[d]) = Deleted[d]
         /\ stamp[s] <= stamp[startPrev[d]]

ClosedInv ==
  \A d \in Deletes :
    /\ Deleting(d) /\ pc[d] # "awaitStarts" =>
         \A s \in Starts : Held(s) => StartProject(s) # Deleted[d]
    /\ pc[d] \in {"listing", "barrier", "ran", "threw"} =>
         \A t \in Tasks : ProjectOf[t] = Deleted[d] /\ row[t] # "none" => t \in ids[d]
    /\ pc[d] \in {"idle", "awaitStarts"} => ids[d] = {}

\* Rows, controllers and cancellations.
RowInv ==
  /\ \A x \in Calls : pc[x] \in {"created", "queued", "running"} => row[TaskOf[x]] # "none"
  /\ \A t \in Tasks : controllers[t] # None
       => TaskOf[controllers[t]] = t /\ pc[controllers[t]] = "running"
  /\ \A x \in aborted : pc[x] \in {"running", "finished", "settled"}

IInv ==
  /\ TypeOK
  /\ StampInv /\ DistinctInv /\ TailInv /\ PrevInv /\ OrderInv
  /\ StartTailInv /\ StartPrevInv /\ LeaseInv
  /\ MarkInv /\ WaitInv /\ ClosedInv /\ RowInv
  /\ CancellationHasOwner /\ AbortedByLaterCall /\ NoOrphanTask

-----------------------------------------------------------------------------
(* Typing.                                                                 *)

\* What a step of Next may be, as a list of cases.
LEMMA NextCases ==
  ASSUME Next, NEW P,
         \A x \in Runs : runTask(x) => P,
         \A x \in Cancels : cancelTaskAndRun(x) => P,
         \A x \in Calls : Begin(x) \/ End(x) \/ Settle(x) => P,
         \A s \in Starts : requestStart(s) \/ acquireProjectStart(s) \/ createTask(s)
                          \/ releaseStart(s) \/ releaseAndRun(s) => P,
         \A d \in Deletes : deleteProject(d) \/ DeleteList(d) \/ DeleteBarrier(d)
                          \/ DeleteOperation(d) \/ DeleteClear(d) \/ DeleteReturns(d) => P
  PROVE  P
BY DEF Next, TaskStep, StartStep, DeleteStep

\* Joining a chain keeps the types of its variables.
LEMMA EnqueueTyped ==
  ASSUME TypeOK, NEW e \in Entries, NEW T \in SUBSET Tasks, Enqueue(e, T)
  PROVE  /\ taskTails' \in [Tasks -> Entries \cup {None}]
         /\ prev' \in [Entries -> [Tasks -> Entries \cup {None}]]
         /\ clock' \in Nat /\ stamp' \in [Entries -> Nat]
BY DEF TypeOK, Enqueue

LEMMA LeaveTyped ==
  ASSUME TypeOK, NEW e \in Entries, Leave(e)
  PROVE  /\ taskTails' \in [Tasks -> Entries \cup {None}]
         /\ prev' \in [Entries -> [Tasks -> Entries \cup {None}]]
         /\ clock' \in Nat /\ stamp' \in [Entries -> Nat]
BY DEF TypeOK, Leave

\* A call goes on to a label of its kind.
LEMMA GotoTyped ==
  ASSUME TypeOK, NEW e \in Entries, NEW l, Goto(e, l),
         \/ e \in Runs \cup Cancels /\ l \in CallLabels
         \/ e \in Starts /\ l \in StartLabels
         \/ e \in Deletes /\ l \in DeleteLabels
  PROVE  /\ pc' \in [Entries -> StartLabels \cup DeleteLabels]
         /\ \A x \in Runs \cup Cancels : pc'[x] \in CallLabels
         /\ \A s \in Starts : pc'[s] \in StartLabels
         /\ \A d \in Deletes : pc'[d] \in DeleteLabels
<1>1. \A f \in Entries : pc'[f] = IF f = e THEN l ELSE pc[f]
  BY DEF TypeOK, Goto
<1>2. l \in StartLabels \cup DeleteLabels
  BY DEF StartLabels
<1>3. pc' \in [Entries -> StartLabels \cup DeleteLabels]
  BY <1>2 DEF TypeOK, Goto
<1>4. Runs \cap Starts = {} /\ Cancels \cap Starts = {} /\ (Runs \cup Cancels \cup Starts) \cap Deletes = {}
  BY ConstantsAssumption DEF Calls
<1>5. \A x \in Runs \cup Cancels : pc'[x] \in CallLabels
  BY <1>1, <1>4 DEF TypeOK, Entries, Calls
<1>6. \A s \in Starts : pc'[s] \in StartLabels
  BY <1>1, <1>4 DEF TypeOK, Entries, Calls, StartLabels
<1>7. \A d \in Deletes : pc'[d] \in DeleteLabels
  BY <1>1, <1>4 DEF TypeOK, Entries, Calls
<1> QED BY <1>3, <1>5, <1>6, <1>7

LEMMA Typing == TypeOK /\ [Next]_vars => TypeOK'
<1> SUFFICES ASSUME TypeOK, [Next]_vars PROVE TypeOK'
  OBVIOUS
<1> USE ConstantsAssumption DEF dbVars, chainVars, abortVars, startVars, delVars
<1> DEFINE PcOK == /\ pc \in [Entries -> StartLabels \cup DeleteLabels]
                   /\ \A x \in Runs \cup Cancels : pc[x] \in CallLabels
                   /\ \A s \in Starts : pc[s] \in StartLabels
                   /\ \A d \in Deletes : pc[d] \in DeleteLabels
<1>0. /\ \A x \in Calls : x \in Entries /\ TaskOf[x] \in Tasks
      /\ \A s \in Starts : s \in Calls
      /\ \A d \in Deletes : d \in Entries
      /\ \A x \in Runs \cup Cancels : x \in Calls
      /\ \A s \in Starts : ProjectOf[TaskOf[s]] \in Projects
      /\ \A x \in Calls : x \in Runs \cup Cancels \/ x \in Starts
  BY DEF Entries, Calls
<1>L. /\ {"idle", "queued", "running", "finished", "settled"} \subseteq CallLabels
      /\ CallLabels \subseteq StartLabels
      /\ {"refused", "waiting", "leased", "created", "returned"} \subseteq StartLabels
      /\ {"idle", "refused", "awaitStarts", "listing", "barrier", "ran", "threw",
          "cleared", "rejected", "done", "failed"} \subseteq DeleteLabels
  BY DEF CallLabels, StartLabels, DeleteLabels
<1>1. CASE UNCHANGED vars
  BY <1>1 DEF TypeOK, vars
<1>2. CASE Next
  <2>1. ASSUME NEW x \in Runs, runTask(x) PROVE TypeOK'
    <3>1. Goto(x, "queued")
      BY <2>1 DEF runTask
    <3>2. PcOK'
      BY <3>1, <1>0, <1>L, GotoTyped
    <3>3. /\ taskTails' \in [Tasks -> Entries \cup {None}]
          /\ prev' \in [Entries -> [Tasks -> Entries \cup {None}]]
          /\ clock' \in Nat /\ stamp' \in [Entries -> Nat]
      BY <2>1, <1>0, EnqueueTyped DEF runTask
    <3> QED BY <2>1, <3>2, <3>3, <1>0 DEF TypeOK, runTask
  <2>2. ASSUME NEW x \in Cancels, cancelTaskAndRun(x) PROVE TypeOK'
    <3>1. Goto(x, "queued")
      BY <2>2 DEF cancelTaskAndRun
    <3>2. PcOK'
      BY <3>1, <1>0, <1>L, GotoTyped
    <3>3. /\ taskTails' \in [Tasks -> Entries \cup {None}]
          /\ prev' \in [Entries -> [Tasks -> Entries \cup {None}]]
          /\ clock' \in Nat /\ stamp' \in [Entries -> Nat]
      BY <2>2, <1>0, EnqueueTyped DEF cancelTaskAndRun
    <3> QED BY <2>2, <3>2, <3>3, <1>0 DEF TypeOK, cancelTaskAndRun
  <2>3. ASSUME NEW x \in Calls, Begin(x) PROVE TypeOK'
    <3>1. Goto(x, "running")
      BY <2>3 DEF Begin
    <3>2. PcOK'
      BY <3>1, <1>0, <1>L, GotoTyped
    <3> QED BY <2>3, <3>2, <1>0 DEF TypeOK, Begin
  <2>4. ASSUME NEW x \in Calls, End(x) PROVE TypeOK'
    <3>1. Goto(x, "finished")
      BY <2>4 DEF End
    <3>2. PcOK'
      BY <3>1, <1>0, <1>L, GotoTyped
    <3>3. row' \in [Tasks -> {"none", "live", "done", "abandoned"}]
      <4>1. \A r \in Outcome(x) : r \in {"none", "live", "done", "abandoned"}
        BY <1>0 DEF TypeOK, Outcome
      <4> QED BY <2>4, <4>1 DEF TypeOK, End
    <3>4. controllers' \in [Tasks -> Calls \cup {None}]
      BY <2>4 DEF TypeOK, End
    <3> QED BY <2>4, <3>2, <3>3, <3>4 DEF TypeOK, End
  <2>5. ASSUME NEW x \in Calls, Settle(x) PROVE TypeOK'
    <3>1. Goto(x, "settled")
      BY <2>5 DEF Settle
    <3>2. PcOK'
      BY <3>1, <1>0, <1>L, GotoTyped
    <3>3. /\ taskTails' \in [Tasks -> Entries \cup {None}]
          /\ prev' \in [Entries -> [Tasks -> Entries \cup {None}]]
          /\ clock' \in Nat /\ stamp' \in [Entries -> Nat]
      BY <2>5, <1>0, LeaveTyped DEF Settle
    <3> QED BY <2>5, <3>2, <3>3, <1>0 DEF TypeOK, Settle
  <2>6. ASSUME NEW s \in Starts, requestStart(s) PROVE TypeOK'
    <3>1. Goto(s, "refused") \/ Goto(s, "waiting")
      BY <2>6 DEF requestStart
    <3>2. PcOK'
      BY <3>1, <1>0, <1>L, GotoTyped
    <3>3. /\ startPrev' \in [Starts \cup Deletes -> Starts \cup {None}]
          /\ startTails' \in [Projects -> Starts \cup {None}]
      <4> DEFINE p == ProjectOf[TaskOf[s]]
      <4>1. p \in Projects
        BY <1>0
      <4>2. startTails[p] \in Starts \cup {None}
        BY <4>1 DEF TypeOK
      <4>3. CASE UNCHANGED startVars
        BY <4>3 DEF TypeOK
      <4>4. CASE JoinStarts(s, p)
        BY <4>2, <4>4 DEF TypeOK, JoinStarts
      <4> QED BY <2>6, <4>3, <4>4 DEF requestStart
    <3>4. clock' \in Nat /\ stamp' \in [Entries -> Nat]
      BY <2>6, <1>0 DEF TypeOK, requestStart, JoinStarts
    <3>5. UNCHANGED <<dbVars, abortVars, delVars, taskTails, prev>>
      BY <2>6 DEF requestStart, JoinStarts
    <3> QED BY <3>2, <3>3, <3>4, <3>5 DEF TypeOK
  <2>7. ASSUME NEW s \in Starts, acquireProjectStart(s) PROVE TypeOK'
    <3>1. Goto(s, "refused") \/ Goto(s, "leased")
      BY <2>7 DEF acquireProjectStart
    <3>2. PcOK'
      BY <3>1, <1>0, <1>L, GotoTyped
    <3> QED BY <2>7, <3>2, <1>0 DEF TypeOK, acquireProjectStart, LeaveStarts
  <2>8. ASSUME NEW s \in Starts, createTask(s) PROVE TypeOK'
    <3>1. Goto(s, "created")
      BY <2>8 DEF createTask
    <3>2. PcOK'
      BY <3>1, <1>0, <1>L, GotoTyped
    <3> QED BY <2>8, <3>2, <1>0 DEF TypeOK, createTask
  <2>9. ASSUME NEW s \in Starts, releaseStart(s) PROVE TypeOK'
    <3>1. Goto(s, "returned")
      BY <2>9 DEF releaseStart
    <3>2. PcOK'
      BY <3>1, <1>0, <1>L, GotoTyped
    <3> QED BY <2>9, <3>2, <1>0 DEF TypeOK, releaseStart, LeaveStarts
  <2>10. ASSUME NEW s \in Starts, releaseAndRun(s) PROVE TypeOK'
    <3>1. Goto(s, "queued")
      BY <2>10 DEF releaseAndRun
    <3>2. PcOK'
      BY <3>1, <1>0, <1>L, GotoTyped
    <3>3. /\ taskTails' \in [Tasks -> Entries \cup {None}]
          /\ prev' \in [Entries -> [Tasks -> Entries \cup {None}]]
          /\ clock' \in Nat /\ stamp' \in [Entries -> Nat]
      BY <2>10, <1>0, EnqueueTyped DEF releaseAndRun
    <3> QED BY <2>10, <3>2, <3>3, <1>0 DEF TypeOK, releaseAndRun, LeaveStarts
  <2>11. ASSUME NEW d \in Deletes, deleteProject(d) PROVE TypeOK'
    <3>1. Goto(d, "refused") \/ Goto(d, "awaitStarts")
      BY <2>11 DEF deleteProject
    <3>2. PcOK'
      BY <3>1, <1>0, <1>L, GotoTyped
    <3>3. deleting' \subseteq Projects
      BY <2>11 DEF TypeOK, deleteProject
    <3>4. startPrev' \in [Starts \cup Deletes -> Starts \cup {None}]
      BY <2>11 DEF TypeOK, deleteProject
    <3> QED BY <2>11, <3>2, <3>3, <3>4 DEF TypeOK, deleteProject
  <2>12. ASSUME NEW d \in Deletes, DeleteList(d) PROVE TypeOK'
    <3>1. Goto(d, "listing")
      BY <2>12 DEF DeleteList
    <3>2. PcOK'
      BY <3>1, <1>0, <1>L, GotoTyped
    <3> QED BY <2>12, <3>2, <1>0 DEF TypeOK, DeleteList, TasksOf
  <2>13. ASSUME NEW d \in Deletes, DeleteBarrier(d) PROVE TypeOK'
    <3>1. \E l \in {"barrier", "cleared", "rejected"} : Goto(d, l)
      BY <2>13 DEF DeleteBarrier
    <3>2. PcOK'
      BY <3>1, <1>0, <1>L, GotoTyped
    <3>3. RunningFor(ids[d]) \subseteq Calls
      BY DEF TypeOK, RunningFor
    <3>4. /\ taskTails' \in [Tasks -> Entries \cup {None}]
          /\ prev' \in [Entries -> [Tasks -> Entries \cup {None}]]
          /\ clock' \in Nat /\ stamp' \in [Entries -> Nat]
      <4>1. ids[d] \in SUBSET Tasks
        BY DEF TypeOK
      <4>2. CASE Enqueue(d, ids[d])
        BY <4>1, <4>2, <1>0, EnqueueTyped
      <4>3. CASE UNCHANGED chainVars
        BY <4>3 DEF TypeOK
      <4> QED BY <2>13, <4>2, <4>3 DEF DeleteBarrier
    <3>5. row' \in [Tasks -> {"none", "live", "done", "abandoned"}] /\ gone' \subseteq Projects
      BY <2>13 DEF TypeOK, DeleteBarrier, DeleteRows
    <3> QED BY <2>13, <3>2, <3>3, <3>4, <3>5, <1>0 DEF TypeOK, DeleteBarrier
  <2>14. ASSUME NEW d \in Deletes, DeleteOperation(d) PROVE TypeOK'
    <3>1. \E l \in {"ran", "threw"} : Goto(d, l)
      BY <2>14 DEF DeleteOperation
    <3>2. PcOK'
      BY <3>1, <1>0, <1>L, GotoTyped
    <3> QED BY <2>14, <3>2, <1>0 DEF TypeOK, DeleteOperation, DeleteRows
  <2>15. ASSUME NEW d \in Deletes, DeleteClear(d) PROVE TypeOK'
    <3>1. \E l \in {"cleared", "rejected"} : Goto(d, l)
      BY <2>15 DEF DeleteClear
    <3>2. PcOK'
      BY <3>1, <1>0, <1>L, GotoTyped
    <3>3. /\ taskTails' \in [Tasks -> Entries \cup {None}]
          /\ prev' \in [Entries -> [Tasks -> Entries \cup {None}]]
          /\ clock' \in Nat /\ stamp' \in [Entries -> Nat]
      BY <2>15, <1>0, LeaveTyped DEF DeleteClear
    <3> QED BY <2>15, <3>2, <3>3, <1>0 DEF TypeOK, DeleteClear
  <2>16. ASSUME NEW d \in Deletes, DeleteReturns(d) PROVE TypeOK'
    <3>1. \E l \in {"done", "failed"} : Goto(d, l)
      BY <2>16 DEF DeleteReturns
    <3>2. PcOK'
      BY <3>1, <1>0, <1>L, GotoTyped
    <3> QED BY <2>16, <3>2, <1>0 DEF TypeOK, DeleteReturns
  <2> QED
    BY <1>2, <2>1, <2>2, <2>3, <2>4, <2>5, <2>6, <2>7, <2>8, <2>9, <2>10, <2>11, <2>12,
       <2>13, <2>14, <2>15, <2>16, NextCases
<1> QED BY <1>1, <1>2

-----------------------------------------------------------------------------
(* The chain of each task.                                                 *)

ChainInv == StampInv /\ DistinctInv /\ TailInv /\ PrevInv /\ OrderInv

\* A call that joins the chains of its tasks comes after every other call.
LEMMA JoinChain ==
  ASSUME ConstantsAssumption, TypeOK, ChainInv, NEW e \in Entries, NEW l \in {"queued", "barrier"},
         Enqueue(e, Covers(e)), Covers(e) \subseteq Tasks, ~Unsettled(e), ~Resolved(e),
         Goto(e, l), ids' = ids
  PROVE  ChainInv'
<1> USE DEF ChainInv
<1>1. /\ \A f \in Entries : pc'[f] = IF f = e THEN l ELSE pc[f]
      /\ \A f \in Entries : Covers(f)' = Covers(f)
      /\ \A f \in Entries : stamp'[f] = IF f = e THEN clock + 1 ELSE stamp[f]
      /\ clock' = clock + 1 /\ clock \in Nat
      /\ \A f \in Entries : stamp[f] \in Nat
  BY DEF TypeOK, Goto, Enqueue, Covers
<1>2. /\ \A f \in Entries : Unsettled(f)' <=> (f = e \/ Unsettled(f))
      /\ \A f \in Entries : f # e => (Working(f)' <=> Working(f)) /\ (Resolved(f)' <=> Resolved(f))
      /\ \A f \in Entries : Placed(f)' => f = e \/ Placed(f)
      /\ ~Working(e)'
  BY <1>1 DEF Unsettled, Working, Resolved, Placed, Held
<1>3. \A f \in Entries : stamp[f] < stamp'[e]
  BY <1>1 DEF StampInv
<1>4. StampInv'
  BY <1>1 DEF StampInv
<1>5. DistinctInv'
  BY <1>1, <1>2, <1>3 DEF DistinctInv
<1>6. /\ \A t \in Tasks : taskTails'[t] = IF t \in Covers(e) THEN e ELSE taskTails[t]
      /\ \A f \in Entries, t \in Tasks :
           prev'[f][t] = IF f # e THEN prev[f][t]
                         ELSE IF t \in Covers(e) THEN taskTails[t] ELSE None
      /\ \A t \in Tasks : taskTails[t] \in Entries \cup {None}
      /\ \A f \in Entries, t \in Tasks : prev[f][t] \in Entries \cup {None}
  BY DEF Enqueue, TypeOK
<1>7. None \notin Entries
  BY DEF ConstantsAssumption
<1>8. TailInv'
  <2> SUFFICES ASSUME NEW t \in Tasks
               PROVE  /\ taskTails'[t] # None
                          => Unsettled(taskTails[t])' /\ t \in Covers(taskTails[t])'
                      /\ \A f \in Entries : Unsettled(f)' /\ t \in Covers(f)'
                           => taskTails'[t] # None /\ stamp'[f] <= stamp'[taskTails'[t]]
    BY DEF TailInv
  <2>1. CASE t \in Covers(e)
    <3>1. taskTails'[t] = e
      BY <1>6, <2>1
    <3>2. Unsettled(e)' /\ t \in Covers(e)'
      BY <1>1, <1>2, <2>1
    <3>3. \A f \in Entries : stamp'[f] <= stamp'[e]
      BY <1>1, <1>3
    <3> QED BY <3>1, <3>2, <3>3, <1>7
  <2>2. CASE t \notin Covers(e)
    <3>1. taskTails'[t] = taskTails[t]
      BY <1>6, <2>2
    <3>2. ASSUME taskTails[t] # None PROVE Unsettled(taskTails[t])' /\ t \in Covers(taskTails[t])'
      BY <3>1, <3>2, <1>6, <1>1, <1>2 DEF TailInv
    <3>3. ASSUME NEW f \in Entries, Unsettled(f)', t \in Covers(f)'
          PROVE  taskTails'[t] # None /\ stamp'[f] <= stamp'[taskTails'[t]]
      <4>1. f # e /\ Unsettled(f) /\ t \in Covers(f)
        BY <3>3, <2>2, <1>1, <1>2
      <4>2. taskTails[t] # None /\ stamp[f] <= stamp[taskTails[t]] /\ Unsettled(taskTails[t])
        BY <4>1 DEF TailInv
      <4>3. taskTails[t] # e /\ taskTails[t] \in Entries
        BY <4>2, <1>6
      <4> QED BY <4>1, <4>2, <4>3, <3>1, <1>1
    <3> QED BY <3>1, <3>2, <3>3
  <2> QED BY <2>1, <2>2
<1>9. PrevInv'
  <2> SUFFICES ASSUME NEW f \in Entries, NEW t \in Tasks, pc'[f] \in {"queued", "barrier"}
               PROVE  /\ prev'[f][t] # None =>
                           /\ t \in Covers(f)' /\ t \in Covers(prev[f][t])'
                           /\ Unsettled(prev[f][t])' \/ Resolved(prev[f][t])'
                           /\ stamp'[prev'[f][t]] < stamp'[f]
                      /\ \A g \in Entries :
                           Unsettled(g)' /\ t \in Covers(g)' /\ t \in Covers(f)'
                             /\ stamp'[g] < stamp'[f]
                             => /\ prev'[f][t] # None /\ Unsettled(prev[f][t])'
                                /\ stamp'[g] <= stamp'[prev'[f][t]]
    BY DEF PrevInv
  <2>1. CASE f = e
    <3>1. prev'[f][t] = IF t \in Covers(e) THEN taskTails[t] ELSE None
      BY <1>6, <2>1
    <3>2. ASSUME prev'[f][t] # None
          PROVE  /\ t \in Covers(e) /\ prev'[f][t] = taskTails[t] /\ taskTails[t] \in Entries
                 /\ Unsettled(taskTails[t]) /\ t \in Covers(taskTails[t])
                 /\ taskTails[t] # e
      <4>1. t \in Covers(e) /\ prev'[f][t] = taskTails[t] /\ taskTails[t] # None
        BY <3>1, <3>2
      <4>2. taskTails[t] \in Entries /\ Unsettled(taskTails[t]) /\ t \in Covers(taskTails[t])
        BY <4>1, <1>6 DEF TailInv
      <4> QED BY <4>1, <4>2
    <3>3. ASSUME prev'[f][t] # None
          PROVE  /\ t \in Covers(f)' /\ t \in Covers(prev[f][t])'
                 /\ Unsettled(prev[f][t])'
                 /\ stamp'[prev'[f][t]] < stamp'[f]
      BY <3>2, <3>3, <2>1, <1>1, <1>2, <1>3
    <3>4. ASSUME NEW g \in Entries, Unsettled(g)', t \in Covers(g)', t \in Covers(f)',
                 stamp'[g] < stamp'[f]
          PROVE  prev'[f][t] # None /\ stamp'[g] <= stamp'[prev'[f][t]]
      <4>1. g # e /\ Unsettled(g) /\ t \in Covers(g) /\ t \in Covers(e)
        BY <3>4, <2>1, <1>1, <1>2
      <4>2. taskTails[t] # None /\ stamp[g] <= stamp[taskTails[t]]
        BY <4>1 DEF TailInv
      <4>3. prev'[f][t] = taskTails[t]
        BY <3>1, <4>1
      <4> QED BY <4>1, <4>2, <4>3, <3>2, <1>1
    <3> QED BY <3>3, <3>4
  <2>2. CASE f # e
    <3>1. pc[f] \in {"queued", "barrier"} /\ prev'[f][t] = prev[f][t] /\ stamp'[f] = stamp[f]
      BY <2>2, <1>1, <1>6
    <3>2. ASSUME prev[f][t] # None
          PROVE  /\ t \in Covers(f) /\ t \in Covers(prev[f][t])
                 /\ Unsettled(prev[f][t]) \/ Resolved(prev[f][t])
                 /\ stamp[prev[f][t]] < stamp[f]
                 /\ prev[f][t] \in Entries /\ prev[f][t] # e
      BY <3>1, <3>2, <1>6 DEF PrevInv
    <3>3. ASSUME prev'[f][t] # None
          PROVE  /\ t \in Covers(f)' /\ t \in Covers(prev[f][t])'
                 /\ Unsettled(prev[f][t])' \/ Resolved(prev[f][t])'
                 /\ stamp'[prev'[f][t]] < stamp'[f]
      BY <3>1, <3>2, <3>3, <1>1, <1>2
    <3>4. ASSUME NEW g \in Entries, Unsettled(g)', t \in Covers(g)', t \in Covers(f)',
                 stamp'[g] < stamp'[f]
          PROVE  /\ prev'[f][t] # None /\ Unsettled(prev[f][t])'
                 /\ stamp'[g] <= stamp'[prev'[f][t]]
      <4>1. g # e
        BY <3>1, <3>4, <1>1, <1>3
      <4>2. Unsettled(g) /\ t \in Covers(g) /\ t \in Covers(f) /\ stamp[g] < stamp[f]
        BY <4>1, <3>1, <3>4, <1>1, <1>2
      <4>3. /\ prev[f][t] # None /\ Unsettled(prev[f][t])
            /\ stamp[g] <= stamp[prev[f][t]]
        BY <4>2, <3>1 DEF PrevInv
      <4> QED BY <4>1, <4>3, <3>1, <3>2, <1>1, <1>2
    <3> QED BY <3>3, <3>4
  <2> QED BY <2>1, <2>2
<1>10. OrderInv'
  <2> SUFFICES ASSUME NEW f \in Entries, NEW g \in Entries, Working(f)', Unsettled(g)', g # f,
                      Covers(g)' \cap Covers(f)' # {}
               PROVE  stamp'[f] < stamp'[g]
    BY DEF OrderInv, InCallOrder
  <2>1. f # e /\ Working(f)
    BY <1>2
  <2>2. CASE g = e
    BY <2>1, <2>2, <1>1, <1>3
  <2>3. CASE g # e
    BY <2>1, <2>3, <1>1, <1>2 DEF OrderInv, InCallOrder
  <2> QED BY <2>2, <2>3
<1> QED BY <1>4, <1>5, <1>8, <1>9, <1>10

\* A call whose predecessors have settled begins: none before it is unsettled.
LEMMA BeginChain ==
  ASSUME ConstantsAssumption, TypeOK, ChainInv, NEW e \in Entries, NEW l,
         pc[e] \in {"queued", "barrier"}, l \in {"running", "ran", "threw"},
         Ready(e), Goto(e, l), UNCHANGED chainVars, ids' = ids
  PROVE  ChainInv'
<1> USE DEF ChainInv
<1>1. /\ \A f \in Entries : pc'[f] = IF f = e THEN l ELSE pc[f]
      /\ \A f \in Entries : Covers(f)' = Covers(f)
      /\ stamp' = stamp /\ clock' = clock /\ prev' = prev /\ taskTails' = taskTails
      /\ \A f \in Entries : stamp[f] \in Nat
      /\ \A t \in Tasks : taskTails[t] \in Entries \cup {None}
      /\ \A f \in Entries, t \in Tasks : prev[f][t] \in Entries \cup {None}
  BY DEF TypeOK, Goto, chainVars, Covers
<1>2. /\ \A f \in Entries : Unsettled(f)' <=> Unsettled(f)
      /\ \A f \in Entries : Resolved(f)' <=> Resolved(f)
      /\ \A f \in Entries : f # e => (Working(f)' <=> Working(f))
      /\ \A f \in Entries : Placed(f)' => Placed(f)
      /\ Unsettled(e)
  BY <1>1 DEF Unsettled, Working, Resolved, Placed, Held
<1>3. StampInv' /\ DistinctInv'
  BY <1>1, <1>2 DEF StampInv, DistinctInv
<1>4. TailInv'
  <2> SUFFICES ASSUME NEW t \in Tasks
               PROVE  /\ taskTails'[t] # None
                          => Unsettled(taskTails[t])' /\ t \in Covers(taskTails[t])'
                      /\ \A f \in Entries : Unsettled(f)' /\ t \in Covers(f)'
                           => taskTails'[t] # None /\ stamp'[f] <= stamp'[taskTails'[t]]
    BY DEF TailInv
  <2> QED BY <1>1, <1>2 DEF TailInv
<1>5. PrevInv'
  <2> SUFFICES ASSUME NEW f \in Entries, NEW t \in Tasks, pc'[f] \in {"queued", "barrier"}
               PROVE  /\ prev'[f][t] # None =>
                           /\ t \in Covers(f)' /\ t \in Covers(prev[f][t])'
                           /\ Unsettled(prev[f][t])' \/ Resolved(prev[f][t])'
                           /\ stamp'[prev'[f][t]] < stamp'[f]
                      /\ \A g \in Entries :
                           Unsettled(g)' /\ t \in Covers(g)' /\ t \in Covers(f)'
                             /\ stamp'[g] < stamp'[f]
                             => /\ prev'[f][t] # None /\ Unsettled(prev[f][t])'
                                /\ stamp'[g] <= stamp'[prev'[f][t]]
    BY DEF PrevInv
  <2>1. pc[f] \in {"queued", "barrier"}
    BY <1>1
  <2>2. prev[f][t] # None => prev[f][t] \in Entries
    BY <1>1
  <2> QED BY <2>1, <2>2, <1>1, <1>2 DEF PrevInv
<1>6. OrderInv'
  <2> SUFFICES ASSUME NEW f \in Entries, NEW g \in Entries, Working(f)', Unsettled(g)', g # f,
                      Covers(g)' \cap Covers(f)' # {}
               PROVE  stamp'[f] < stamp'[g]
    BY DEF OrderInv, InCallOrder
  <2>1. CASE f # e
    BY <2>1, <1>1, <1>2 DEF OrderInv, InCallOrder
  <2>2. CASE f = e
    <3>1. PICK t \in Tasks : t \in Covers(g) /\ t \in Covers(e)
      <4>1. Covers(e) \subseteq Tasks
        BY DEF Covers, TypeOK, ConstantsAssumption, Entries
      <4> QED BY <4>1, <2>2, <1>1
    <3>2. Unsettled(g) /\ stamp[g] # stamp[e]
      BY <2>2, <1>2 DEF DistinctInv, Placed
    <3>3. ~(stamp[g] < stamp[e])
      <4> SUFFICES ASSUME stamp[g] < stamp[e] PROVE FALSE
        OBVIOUS
      <4>1. prev[e][t] # None /\ Unsettled(prev[e][t])
        BY <3>1, <3>2 DEF PrevInv
      <4>2. ~Resolved(prev[e][t])
        BY <4>1 DEF Unsettled, Resolved, Working
      <4> QED BY <4>1, <4>2 DEF Ready
    <3>4. stamp[e] \in Nat /\ stamp[g] \in Nat
      BY <1>1
    <3>5. stamp[e] < stamp[g]
      BY <3>2, <3>3, <3>4
    <3> QED BY <3>5, <2>2, <1>1
  <2> QED BY <2>1, <2>2
<1> QED BY <1>3, <1>4, <1>5, <1>6

\* A call that was under way settles: what was before it has settled earlier.
LEMMA LeaveChain ==
  ASSUME ConstantsAssumption, TypeOK, ChainInv, NEW e \in Entries, NEW l, Working(e),
         l \in {"settled", "cleared", "rejected"}, Goto(e, l), Leave(e), ids' = ids
  PROVE  ChainInv'
<1> USE DEF ChainInv
<1>1. /\ \A f \in Entries : pc'[f] = IF f = e THEN l ELSE pc[f]
      /\ \A f \in Entries : Covers(f)' = Covers(f)
      /\ stamp' = stamp /\ clock' = clock
      /\ \A f \in Entries : stamp[f] \in Nat
      /\ \A t \in Tasks : taskTails[t] \in Entries \cup {None}
      /\ \A f \in Entries, t \in Tasks : prev[f][t] \in Entries \cup {None}
      /\ \A t \in Tasks : taskTails'[t] = IF taskTails[t] = e THEN None ELSE taskTails[t]
      /\ \A f \in Entries, t \in Tasks : prev'[f][t] = IF f = e THEN None ELSE prev[f][t]
  BY DEF TypeOK, Goto, Leave, Covers
<1>2. /\ \A f \in Entries : Unsettled(f)' <=> f # e /\ Unsettled(f)
      /\ \A f \in Entries : Resolved(f)' <=> f = e \/ Resolved(f)
      /\ \A f \in Entries : Working(f)' <=> f # e /\ Working(f)
      /\ \A f \in Entries : Placed(f)' => Placed(f)
      /\ Unsettled(e)
  BY <1>1 DEF Unsettled, Working, Resolved, Placed, Held
<1>3. StampInv' /\ DistinctInv'
  BY <1>1, <1>2 DEF StampInv, DistinctInv
<1>4. \A f \in Entries, t \in Tasks :
        Unsettled(f) /\ f # e /\ t \in Covers(e) /\ t \in Covers(f) => stamp[e] < stamp[f]
  BY DEF OrderInv, InCallOrder
<1>5. TailInv'
  <2> SUFFICES ASSUME NEW t \in Tasks
               PROVE  /\ taskTails'[t] # None
                          => Unsettled(taskTails[t])' /\ t \in Covers(taskTails[t])'
                      /\ \A f \in Entries : Unsettled(f)' /\ t \in Covers(f)'
                           => taskTails'[t] # None /\ stamp'[f] <= stamp'[taskTails'[t]]
    BY DEF TailInv
  <2>1. ASSUME taskTails'[t] # None PROVE Unsettled(taskTails[t])' /\ t \in Covers(taskTails[t])'
    BY <2>1, <1>1, <1>2 DEF TailInv
  <2>2. ASSUME NEW f \in Entries, Unsettled(f)', t \in Covers(f)'
        PROVE  taskTails'[t] # None /\ stamp'[f] <= stamp'[taskTails'[t]]
    <3>1. f # e /\ Unsettled(f) /\ t \in Covers(f)
      BY <2>2, <1>1, <1>2
    <3>2. taskTails[t] # None /\ stamp[f] <= stamp[taskTails[t]] /\ t \in Covers(taskTails[t])
      BY <3>1 DEF TailInv
    <3>3. taskTails[t] # e
      <4> SUFFICES ASSUME taskTails[t] = e PROVE FALSE
        OBVIOUS
      <4>1. stamp[e] < stamp[f]
        BY <3>1, <3>2, <1>4
      <4> QED BY <4>1, <3>2, <1>1
    <3> QED BY <3>2, <3>3, <1>1
  <2> QED BY <2>1, <2>2
<1>6. PrevInv'
  <2> SUFFICES ASSUME NEW f \in Entries, NEW t \in Tasks, pc'[f] \in {"queued", "barrier"}
               PROVE  /\ prev'[f][t] # None =>
                           /\ t \in Covers(f)' /\ t \in Covers(prev[f][t])'
                           /\ Unsettled(prev[f][t])' \/ Resolved(prev[f][t])'
                           /\ stamp'[prev'[f][t]] < stamp'[f]
                      /\ \A g \in Entries :
                           Unsettled(g)' /\ t \in Covers(g)' /\ t \in Covers(f)'
                             /\ stamp'[g] < stamp'[f]
                             => /\ prev'[f][t] # None /\ Unsettled(prev[f][t])'
                                /\ stamp'[g] <= stamp'[prev'[f][t]]
    BY DEF PrevInv
  <2>1. f # e /\ pc[f] \in {"queued", "barrier"} /\ prev'[f][t] = prev[f][t]
    BY <1>1
  <2>2. ASSUME prev[f][t] # None
        PROVE  /\ t \in Covers(f)' /\ t \in Covers(prev[f][t])'
               /\ Unsettled(prev[f][t])' \/ Resolved(prev[f][t])'
               /\ stamp'[prev'[f][t]] < stamp'[f]
    BY <2>1, <2>2, <1>1, <1>2 DEF PrevInv
  <2>3. ASSUME NEW g \in Entries, Unsettled(g)', t \in Covers(g)', t \in Covers(f)',
               stamp'[g] < stamp'[f]
        PROVE  /\ prev'[f][t] # None /\ Unsettled(prev[f][t])'
               /\ stamp'[g] <= stamp'[prev'[f][t]]
    <3>1. g # e /\ Unsettled(g) /\ t \in Covers(g) /\ t \in Covers(f) /\ stamp[g] < stamp[f]
      BY <2>3, <1>1, <1>2
    <3>2. prev[f][t] # None /\ Unsettled(prev[f][t]) /\ stamp[g] <= stamp[prev[f][t]]
      BY <3>1, <2>1 DEF PrevInv
    <3>3. t \in Covers(prev[f][t]) /\ prev[f][t] \in Entries
      BY <3>2, <2>1, <1>1 DEF PrevInv
    <3>4. prev[f][t] # e
      <4> SUFFICES ASSUME prev[f][t] = e PROVE FALSE
        OBVIOUS
      <4>1. stamp[e] < stamp[g]
        BY <3>1, <3>3, <1>4
      <4> QED BY <4>1, <3>2, <1>1
    <3> QED BY <3>2, <3>3, <3>4, <2>1, <1>1, <1>2
  <2> QED BY <2>1, <2>2, <2>3
<1>7. OrderInv'
  BY <1>1, <1>2 DEF OrderInv, InCallOrder
<1> QED BY <1>3, <1>5, <1>6, <1>7

\* A step of a call that is in no chain, or that stays in its chain, changes
\* no chain.  The tasks a deletion lists are fixed before it joins a chain.
LEMMA SameChain ==
  ASSUME ConstantsAssumption, TypeOK, ChainInv, NEW e \in Entries, UNCHANGED chainVars,
         \A f \in Entries \ {e} : pc'[f] = pc[f] /\ Covers(f)' = Covers(f),
         \/ Working(e) /\ Working(e)' /\ Covers(e)' = Covers(e)
         \/ ~Unsettled(e) /\ ~Unsettled(e)' /\ (Resolved(e) => Resolved(e)' /\ Covers(e)' = Covers(e)),
         Placed(e)' => Placed(e)
  PROVE  ChainInv'
<1> USE DEF ChainInv
<1>1. /\ stamp' = stamp /\ clock' = clock /\ prev' = prev /\ taskTails' = taskTails
      /\ \A f \in Entries : stamp[f] \in Nat
      /\ \A t \in Tasks : taskTails[t] \in Entries \cup {None}
      /\ \A f \in Entries, t \in Tasks : prev[f][t] \in Entries \cup {None}
  BY DEF TypeOK, chainVars
<1>2. /\ \A f \in Entries : Unsettled(f)' <=> Unsettled(f)
      /\ \A f \in Entries : Resolved(f) => Resolved(f)'
      /\ \A f \in Entries : Working(f)' <=> Working(f)
      /\ \A f \in Entries : Placed(f)' => Placed(f)
      /\ \A f \in Entries : Unsettled(f) \/ Resolved(f) => Covers(f)' = Covers(f)
      /\ \A f \in Entries : pc'[f] \in {"queued", "barrier"} => pc[f] \in {"queued", "barrier"}
  BY DEF Unsettled, Working, Resolved, Placed, Held
<1>3. StampInv' /\ DistinctInv'
  BY <1>1, <1>2 DEF StampInv, DistinctInv
<1>4. TailInv'
  <2> SUFFICES ASSUME NEW t \in Tasks
               PROVE  /\ taskTails'[t] # None
                          => Unsettled(taskTails[t])' /\ t \in Covers(taskTails[t])'
                      /\ \A f \in Entries : Unsettled(f)' /\ t \in Covers(f)'
                           => taskTails'[t] # None /\ stamp'[f] <= stamp'[taskTails'[t]]
    BY DEF TailInv
  <2> QED BY <1>1, <1>2 DEF TailInv
<1>5. PrevInv'
  <2> SUFFICES ASSUME NEW f \in Entries, NEW t \in Tasks, pc'[f] \in {"queued", "barrier"}
               PROVE  /\ prev'[f][t] # None =>
                           /\ t \in Covers(f)' /\ t \in Covers(prev[f][t])'
                           /\ Unsettled(prev[f][t])' \/ Resolved(prev[f][t])'
                           /\ stamp'[prev'[f][t]] < stamp'[f]
                      /\ \A g \in Entries :
                           Unsettled(g)' /\ t \in Covers(g)' /\ t \in Covers(f)'
                             /\ stamp'[g] < stamp'[f]
                             => /\ prev'[f][t] # None /\ Unsettled(prev[f][t])'
                                /\ stamp'[g] <= stamp'[prev'[f][t]]
    BY DEF PrevInv
  <2>1. pc[f] \in {"queued", "barrier"} /\ Unsettled(f)
    BY <1>2 DEF Unsettled
  <2>2. prev[f][t] # None => prev[f][t] \in Entries
    BY <1>1
  <2> QED BY <2>1, <2>2, <1>1, <1>2 DEF PrevInv
<1>6. OrderInv'
  <2>1. \A f \in Entries : Working(f) => Unsettled(f)
    BY DEF Unsettled
  <2> QED BY <2>1, <1>1, <1>2 DEF OrderInv, InCallOrder
<1> QED BY <1>3, <1>4, <1>5, <1>6

\* A start that joins the chain of its project leaves the chains of tasks alone.
LEMMA RequestChain ==
  ASSUME ConstantsAssumption, TypeOK, ChainInv, NEW s \in Starts, requestStart(s)
  PROVE  ChainInv'
<1>0. s \in Entries /\ s \notin Deletes
  BY DEF Entries, Calls, ConstantsAssumption
<1>1. CASE Goto(s, "refused") /\ UNCHANGED chainVars
  <2>1. /\ \A f \in Entries \ {s} : pc'[f] = pc[f] /\ Covers(f)' = Covers(f)
        /\ pc[s] = "idle" /\ pc'[s] = "refused"
    BY <1>0, <1>1 DEF requestStart, TypeOK, Goto, delVars, Covers
  <2>2. ~Unsettled(s) /\ ~Unsettled(s)' /\ ~Resolved(s) /\ ~Placed(s)'
    BY <2>1 DEF Unsettled, Working, Resolved, Placed, Held
  <2> QED BY <2>1, <2>2, <1>0, <1>1, SameChain
<1>2. CASE Goto(s, "waiting") /\ JoinStarts(s, ProjectOf[TaskOf[s]])
  <2> USE DEF ChainInv
  <2>1. /\ pc[s] = "idle" /\ ids' = ids /\ taskTails' = taskTails /\ prev' = prev
        /\ \A f \in Entries : pc'[f] = IF f = s THEN "waiting" ELSE pc[f]
        /\ \A f \in Entries : stamp'[f] = IF f = s THEN clock + 1 ELSE stamp[f]
        /\ clock' = clock + 1 /\ clock \in Nat
        /\ \A f \in Entries : stamp[f] \in Nat /\ Covers(f)' = Covers(f)
        /\ \A t \in Tasks : taskTails[t] \in Entries \cup {None}
        /\ \A f \in Entries, t \in Tasks : prev[f][t] \in Entries \cup {None}
    BY <1>0, <1>2 DEF requestStart, TypeOK, Goto, JoinStarts, delVars, Covers
  <2>2. /\ \A f \in Entries : Unsettled(f)' <=> Unsettled(f)
        /\ \A f \in Entries : Resolved(f)' <=> Resolved(f)
        /\ \A f \in Entries : Working(f)' <=> Working(f)
        /\ \A f \in Entries : Placed(f)' => f = s \/ Placed(f)
        /\ ~Unsettled(s) /\ ~Resolved(s)
    BY <2>1, <1>0 DEF Unsettled, Working, Resolved, Placed, Held
  <2>3. \A f \in Entries : stamp[f] < stamp'[s]
    BY <2>1, <1>0 DEF StampInv
  <2>4. StampInv' /\ DistinctInv'
    BY <2>1, <2>2, <2>3 DEF StampInv, DistinctInv
  <2>5. TailInv'
    <3> SUFFICES ASSUME NEW t \in Tasks
                 PROVE  /\ taskTails'[t] # None
                            => Unsettled(taskTails[t])' /\ t \in Covers(taskTails[t])'
                        /\ \A f \in Entries : Unsettled(f)' /\ t \in Covers(f)'
                             => taskTails'[t] # None /\ stamp'[f] <= stamp'[taskTails'[t]]
      BY DEF TailInv
    <3>1. taskTails[t] # None => taskTails[t] \in Entries /\ taskTails[t] # s
      BY <2>1, <2>2 DEF TailInv
    <3> QED BY <3>1, <2>1, <2>2 DEF TailInv
  <2>6. PrevInv'
    <3> SUFFICES ASSUME NEW f \in Entries, NEW t \in Tasks, pc'[f] \in {"queued", "barrier"}
                 PROVE  /\ prev'[f][t] # None =>
                             /\ t \in Covers(f)' /\ t \in Covers(prev[f][t])'
                             /\ Unsettled(prev[f][t])' \/ Resolved(prev[f][t])'
                             /\ stamp'[prev'[f][t]] < stamp'[f]
                        /\ \A g \in Entries :
                             Unsettled(g)' /\ t \in Covers(g)' /\ t \in Covers(f)'
                               /\ stamp'[g] < stamp'[f]
                               => /\ prev'[f][t] # None /\ Unsettled(prev[f][t])'
                                  /\ stamp'[g] <= stamp'[prev'[f][t]]
      BY DEF PrevInv
    <3>1. pc[f] \in {"queued", "barrier"} /\ f # s
      BY <2>1, <1>0
    <3>2. prev[f][t] # None => prev[f][t] \in Entries /\ prev[f][t] # s
      BY <3>1, <2>1, <2>2 DEF PrevInv
    <3> QED BY <3>1, <3>2, <2>1, <2>2 DEF PrevInv
  <2>7. OrderInv'
    <3>1. \A f \in Entries : Working(f) => Unsettled(f)
      BY DEF Unsettled
    <3> QED BY <3>1, <2>1, <2>2 DEF OrderInv, InCallOrder
  <2> QED BY <2>4, <2>5, <2>6, <2>7
<1> QED BY <1>1, <1>2 DEF requestStart

-----------------------------------------------------------------------------
(* The chain of starts of each project.                                    *)

StartChainInv == StartTailInv /\ StartPrevInv /\ LeaseInv

LEMMA StartsSame ==
  ASSUME ConstantsAssumption, TypeOK, StartChainInv, UNCHANGED startTails,
         \A s \in Starts :
           /\ startPrev'[s] = startPrev[s]
           /\ Held(s)' <=> Held(s)
           /\ pc'[s] = "waiting" => pc[s] = "waiting"
           /\ pc'[s] \in {"leased", "created"} => pc[s] \in {"leased", "created"}
           /\ pc[s] # "idle" => pc'[s] # "idle"
           /\ Held(s) => stamp'[s] = stamp[s]
  PROVE  StartChainInv'
<1> USE DEF StartChainInv
<1>1. /\ \A p \in Projects : startTails[p] \in Starts \cup {None}
      /\ \A s \in Starts : startPrev[s] \in Starts \cup {None}
      /\ None \notin Starts
  BY DEF TypeOK, ConstantsAssumption, Entries, Calls
<1>2. \A s \in Starts : StartProject(s)' = StartProject(s)
  BY DEF StartProject
<1>3. StartTailInv'
  BY <1>1, <1>2 DEF StartTailInv
<1>4. StartPrevInv'
  <2> SUFFICES ASSUME NEW s \in Starts, pc'[s] = "waiting"
               PROVE  /\ startPrev'[s] # None =>
                           /\ StartProject(startPrev[s])' = StartProject(s)'
                           /\ pc'[startPrev'[s]] # "idle"
                           /\ stamp'[startPrev'[s]] < stamp'[s] \/ ~Held(startPrev[s])'
                      /\ \A r \in Starts :
                           Held(r)' /\ StartProject(r)' = StartProject(s)' /\ stamp'[r] < stamp'[s]
                             => /\ startPrev'[s] # None /\ Held(startPrev[s])'
                                /\ stamp'[r] <= stamp'[startPrev'[s]]
    BY DEF StartPrevInv
  <2>1. pc[s] = "waiting" /\ Held(s)
    BY DEF Held
  <2> QED BY <2>1, <1>1, <1>2 DEF StartPrevInv
<1>5. LeaseInv'
  <2>1. \A s \in Starts : pc[s] \in {"leased", "created"} => Held(s)
    BY DEF Held
  <2> QED BY <2>1, <1>2 DEF LeaseInv
<1> QED BY <1>3, <1>4, <1>5

LEMMA StartsJoin ==
  ASSUME ConstantsAssumption, TypeOK, ChainInv, StartChainInv, NEW s \in Starts,
         pc[s] = "idle", Goto(s, "waiting"), JoinStarts(s, StartProject(s))
  PROVE  StartChainInv'
<1> USE DEF StartChainInv
<1> DEFINE q == StartProject(s)
<1>1. /\ s \in Entries /\ q \in Projects
      /\ \A r \in Starts : r \in Entries /\ r # None
  BY DEF Entries, Calls, ConstantsAssumption, StartProject
<1>2. /\ \A r \in Starts : pc'[r] = IF r = s THEN "waiting" ELSE pc[r]
      /\ \A r \in Starts : stamp'[r] = IF r = s THEN clock + 1 ELSE stamp[r]
      /\ \A r \in Starts : stamp[r] \in Nat /\ stamp[r] <= clock
      /\ clock \in Nat
      /\ \A p \in Projects : startTails[p] \in Starts \cup {None}
      /\ \A r \in Starts : startPrev[r] \in Starts \cup {None}
      /\ \A p \in Projects : startTails'[p] = IF p = q THEN s ELSE startTails[p]
      /\ \A r \in Starts : startPrev'[r] = IF r = s THEN startTails[q] ELSE startPrev[r]
  BY <1>1 DEF TypeOK, Goto, JoinStarts, ChainInv, StampInv
<1>3. /\ \A r \in Starts : StartProject(r)' = StartProject(r)
      /\ \A r \in Starts : Held(r)' <=> (r = s \/ Held(r))
      /\ ~Held(s)
  BY <1>2 DEF StartProject, Held
<1>4. StartTailInv'
  <2> SUFFICES ASSUME NEW p \in Projects
               PROVE  /\ startTails'[p] # None
                          => Held(startTails[p])' /\ StartProject(startTails[p])' = p
                      /\ \A r \in Starts : Held(r)' /\ StartProject(r)' = p
                           => startTails'[p] # None /\ stamp'[r] <= stamp'[startTails'[p]]
    BY DEF StartTailInv
  <2>1. CASE p = q
    <3>1. startTails'[p] = s /\ s # None
      BY <2>1, <1>1, <1>2
    <3>2. Held(s)' /\ StartProject(s)' = p
      BY <2>1, <1>3
    <3>3. \A r \in Starts : stamp'[r] <= stamp'[s]
      BY <1>2
    <3> QED BY <3>1, <3>2, <3>3
  <2>2. CASE p # q
    <3>1. startTails'[p] = startTails[p]
      BY <2>2, <1>2
    <3>2. startTails[p] # None
            => /\ startTails[p] \in Starts /\ startTails[p] # s
               /\ Held(startTails[p]) /\ StartProject(startTails[p]) = p
      BY <1>2, <1>3 DEF StartTailInv
    <3>3. \A r \in Starts : StartProject(r) = p => r # s
      BY <2>2
    <3> QED BY <3>1, <3>2, <3>3, <1>2, <1>3 DEF StartTailInv
  <2> QED BY <2>1, <2>2
<1>5. StartPrevInv'
  <2> SUFFICES ASSUME NEW u \in Starts, pc'[u] = "waiting"
               PROVE  /\ startPrev'[u] # None =>
                           /\ StartProject(startPrev[u])' = StartProject(u)'
                           /\ pc'[startPrev'[u]] # "idle"
                           /\ stamp'[startPrev'[u]] < stamp'[u] \/ ~Held(startPrev[u])'
                      /\ \A r \in Starts :
                           Held(r)' /\ StartProject(r)' = StartProject(u)' /\ stamp'[r] < stamp'[u]
                             => /\ startPrev'[u] # None /\ Held(startPrev[u])'
                                /\ stamp'[r] <= stamp'[startPrev'[u]]
    BY DEF StartPrevInv
  <2>1. CASE u = s
    <3>1. startPrev'[u] = startTails[q]
      BY <2>1, <1>2
    <3>2. startTails[q] # None
            => /\ startTails[q] \in Starts /\ startTails[q] # s
               /\ Held(startTails[q]) /\ StartProject(startTails[q]) = q
      BY <1>1, <1>2, <1>3 DEF StartTailInv
    <3>3. startTails[q] # None => pc[startTails[q]] # "idle"
      BY <3>2 DEF Held
    <3>4. ASSUME NEW r \in Starts, Held(r)', StartProject(r)' = StartProject(u)', stamp'[r] < stamp'[u]
          PROVE  startTails[q] # None /\ stamp[r] <= stamp[startTails[q]] /\ r # s
      <4>1. r # s /\ Held(r) /\ StartProject(r) = q
        BY <3>4, <2>1, <1>2, <1>3
      <4> QED BY <4>1, <1>1 DEF StartTailInv
    <3>5. ASSUME startPrev'[u] # None
          PROVE  /\ StartProject(startPrev[u])' = StartProject(u)'
                 /\ pc'[startPrev'[u]] # "idle"
                 /\ stamp'[startPrev'[u]] < stamp'[u]
      BY <3>1, <3>2, <3>3, <3>5, <2>1, <1>2, <1>3
    <3>6. ASSUME NEW r \in Starts, Held(r)', StartProject(r)' = StartProject(u)', stamp'[r] < stamp'[u]
          PROVE  /\ startPrev'[u] # None /\ Held(startPrev[u])'
                 /\ stamp'[r] <= stamp'[startPrev'[u]]
      BY <3>1, <3>2, <3>4, <3>6, <1>2, <1>3
    <3> QED BY <3>5, <3>6
  <2>2. CASE u # s
    <3>1. pc[u] = "waiting" /\ startPrev'[u] = startPrev[u] /\ stamp'[u] = stamp[u]
      BY <2>2, <1>2
    <3>2. startPrev[u] # None =>
               /\ StartProject(startPrev[u]) = StartProject(u)
               /\ pc[startPrev[u]] # "idle" /\ startPrev[u] # s /\ startPrev[u] \in Starts
               /\ stamp[startPrev[u]] < stamp[u] \/ ~Held(startPrev[u])
      BY <3>1, <1>2 DEF StartPrevInv
    <3>3. \A r \in Starts : stamp'[r] < stamp'[u] => r # s
      BY <3>1, <1>2
    <3>4. \A r \in Starts :
            Held(r) /\ StartProject(r) = StartProject(u) /\ stamp[r] < stamp[u]
              => /\ startPrev[u] # None /\ Held(startPrev[u])
                 /\ stamp[r] <= stamp[startPrev[u]]
      BY <3>1 DEF StartPrevInv
    <3> QED BY <3>1, <3>2, <3>3, <3>4, <1>2, <1>3
  <2> QED BY <2>1, <2>2
<1>6. LeaseInv'
  <2> SUFFICES ASSUME NEW r \in Starts, NEW u \in Starts, pc'[r] \in {"leased", "created"}, Held(u)',
                      StartProject(r)' = StartProject(u)', r # u
               PROVE  stamp'[r] < stamp'[u]
    BY DEF LeaseInv
  <2>1. r # s /\ pc[r] \in {"leased", "created"}
    BY <1>2
  <2>2. CASE u = s
    BY <2>1, <2>2, <1>2
  <2>3. CASE u # s
    BY <2>1, <2>3, <1>2, <1>3 DEF LeaseInv
  <2> QED BY <2>2, <2>3
<1> QED BY <1>4, <1>5, <1>6

\* A start that gets the lease is the earliest one of its project.
LEMMA FirstStart ==
  ASSUME ConstantsAssumption, TypeOK, ChainInv, StartChainInv, NEW s \in Starts, NEW r \in Starts,
         \/ pc[s] = "waiting" /\ StartReady(s)
         \/ pc[s] \in {"leased", "created"},
         Held(r), r # s, StartProject(r) = StartProject(s)
  PROVE  stamp[s] < stamp[r]
<1> USE DEF StartChainInv
<1>1. CASE pc[s] \in {"leased", "created"}
  BY <1>1 DEF LeaseInv
<1>2. CASE pc[s] = "waiting" /\ StartReady(s)
  <2>1. s \in Entries /\ r \in Entries /\ stamp[s] \in Nat /\ stamp[r] \in Nat
    BY DEF Entries, Calls, TypeOK
  <2>2. Placed(s) /\ Placed(r)
    BY <1>2 DEF Placed, Held
  <2>3. stamp[s] # stamp[r]
    BY <2>1, <2>2 DEF ChainInv, DistinctInv
  <2>4. ~(stamp[r] < stamp[s])
    <3> SUFFICES ASSUME stamp[r] < stamp[s] PROVE FALSE
      OBVIOUS
    <3>1. startPrev[s] # None /\ Held(startPrev[s])
      BY <1>2 DEF StartPrevInv
    <3> QED BY <3>1, <1>2 DEF StartReady, Released, Held
  <2> QED BY <2>1, <2>3, <2>4
<1> QED BY <1>1, <1>2

LEMMA StartsLease ==
  ASSUME ConstantsAssumption, TypeOK, ChainInv, StartChainInv, NEW s \in Starts,
         pc[s] = "waiting", StartReady(s), Goto(s, "leased"), UNCHANGED <<startVars, stamp>>
  PROVE  StartChainInv'
<1>1. s \in Entries /\ \A r \in Starts : r \in Entries
  BY DEF Entries, Calls
<1>2. \A r \in Starts : pc'[r] = IF r = s THEN "leased" ELSE pc[r]
  BY <1>1 DEF TypeOK, Goto
<1>3. /\ \A r \in Starts : StartProject(r)' = StartProject(r)
      /\ \A r \in Starts : Held(r)' <=> Held(r)
      /\ startPrev' = startPrev /\ startTails' = startTails /\ stamp' = stamp
  BY <1>2 DEF StartProject, Held, startVars
<1>4. /\ \A p \in Projects : startTails[p] \in Starts \cup {None}
      /\ \A r \in Starts : startPrev[r] \in Starts \cup {None}
      /\ None \notin Starts
  BY DEF TypeOK, ConstantsAssumption, Entries, Calls
<1>5. StartTailInv'
  BY <1>3, <1>4 DEF StartChainInv, StartTailInv
<1>6. StartPrevInv'
  <2> SUFFICES ASSUME NEW u \in Starts, pc'[u] = "waiting"
               PROVE  /\ startPrev'[u] # None =>
                           /\ StartProject(startPrev[u])' = StartProject(u)'
                           /\ pc'[startPrev'[u]] # "idle"
                           /\ stamp'[startPrev'[u]] < stamp'[u] \/ ~Held(startPrev[u])'
                      /\ \A r \in Starts :
                           Held(r)' /\ StartProject(r)' = StartProject(u)' /\ stamp'[r] < stamp'[u]
                             => /\ startPrev'[u] # None /\ Held(startPrev[u])'
                                /\ stamp'[r] <= stamp'[startPrev'[u]]
    BY DEF StartPrevInv
  <2>1. pc[u] = "waiting"
    BY <1>2
  <2> QED BY <2>1, <1>2, <1>3, <1>4 DEF StartChainInv, StartPrevInv
<1>7. LeaseInv'
  <2> SUFFICES ASSUME NEW r \in Starts, NEW u \in Starts, pc'[r] \in {"leased", "created"}, Held(u)',
                      StartProject(r)' = StartProject(u)', r # u
               PROVE  stamp'[r] < stamp'[u]
    BY DEF LeaseInv
  <2>1. CASE r = s
    <3>1. Held(u) /\ StartProject(u) = StartProject(s)
      BY <2>1, <1>3
    <3> QED BY <2>1, <3>1, <1>3, FirstStart
  <2>2. CASE r # s
    BY <2>2, <1>2, <1>3 DEF StartChainInv, LeaseInv
  <2> QED BY <2>1, <2>2
<1> QED BY <1>5, <1>6, <1>7 DEF StartChainInv

\* The earliest start of a project leaves the chain.
LEMMA StartsLeave ==
  ASSUME ConstantsAssumption, TypeOK, ChainInv, StartChainInv, NEW s \in Starts, NEW l,
         Held(s), l \in {"refused", "returned", "queued"}, Goto(s, l), LeaveStarts(s, StartProject(s)),
         \A r \in Starts : Held(r) /\ r # s /\ StartProject(r) = StartProject(s) => stamp[s] < stamp[r],
         \A r \in Starts : r # s => stamp'[r] = stamp[r]
  PROVE  StartChainInv'
<1> DEFINE q == StartProject(s)
<1>1. s \in Entries /\ q \in Projects /\ \A r \in Starts : r \in Entries
  BY DEF Entries, Calls, StartProject, ConstantsAssumption
<1>2. /\ \A r \in Starts : pc'[r] = IF r = s THEN l ELSE pc[r]
      /\ \A p \in Projects : startTails'[p] = IF p = q /\ startTails[q] = s THEN None ELSE startTails[p]
      /\ startPrev' = startPrev
      /\ \A p \in Projects : startTails[p] \in Starts \cup {None}
      /\ \A r \in Starts : startPrev[r] \in Starts \cup {None}
      /\ None \notin Starts
      /\ \A r \in Starts : stamp[r] \in Nat
  BY <1>1 DEF TypeOK, Goto, LeaveStarts, ConstantsAssumption, Entries, Calls
<1>3. /\ \A r \in Starts : StartProject(r)' = StartProject(r)
      /\ \A r \in Starts : Held(r)' <=> r # s /\ Held(r)
  BY <1>2 DEF StartProject, Held
<1>4. StartTailInv'
  <2> SUFFICES ASSUME NEW p \in Projects
               PROVE  /\ startTails'[p] # None
                          => Held(startTails[p])' /\ StartProject(startTails[p])' = p
                      /\ \A r \in Starts : Held(r)' /\ StartProject(r)' = p
                           => startTails'[p] # None /\ stamp'[r] <= stamp'[startTails'[p]]
    BY DEF StartTailInv
  <2>1. ASSUME startTails'[p] # None
        PROVE  Held(startTails[p])' /\ StartProject(startTails[p])' = p
    <3>1. startTails'[p] = startTails[p] /\ Held(startTails[p]) /\ StartProject(startTails[p]) = p
          /\ startTails[p] \in Starts
      BY <2>1, <1>2 DEF StartChainInv, StartTailInv
    <3>2. startTails[p] # s
      BY <2>1, <3>1, <1>2
    <3> QED BY <3>1, <3>2, <1>3
  <2>2. ASSUME NEW r \in Starts, Held(r)', StartProject(r)' = p
        PROVE  startTails'[p] # None /\ stamp'[r] <= stamp'[startTails'[p]]
    <3>1. r # s /\ Held(r) /\ StartProject(r) = p
      BY <2>2, <1>3
    <3>2. /\ startTails[p] # None /\ stamp[r] <= stamp[startTails[p]] /\ startTails[p] \in Starts
          /\ StartProject(startTails[p]) = p
      BY <3>1, <1>2 DEF StartChainInv, StartTailInv
    <3>3. startTails[p] # s
      <4> SUFFICES ASSUME startTails[p] = s PROVE FALSE
        OBVIOUS
      <4>1. stamp[s] < stamp[r]
        BY <3>1, <3>2
      <4> QED BY <4>1, <3>2, <1>2
    <3> QED BY <3>1, <3>2, <3>3, <1>2
  <2> QED BY <2>1, <2>2
<1>5. StartPrevInv'
  <2> SUFFICES ASSUME NEW u \in Starts, pc'[u] = "waiting"
               PROVE  /\ startPrev'[u] # None =>
                           /\ StartProject(startPrev[u])' = StartProject(u)'
                           /\ pc'[startPrev'[u]] # "idle"
                           /\ stamp'[startPrev'[u]] < stamp'[u] \/ ~Held(startPrev[u])'
                      /\ \A r \in Starts :
                           Held(r)' /\ StartProject(r)' = StartProject(u)' /\ stamp'[r] < stamp'[u]
                             => /\ startPrev'[u] # None /\ Held(startPrev[u])'
                                /\ stamp'[r] <= stamp'[startPrev'[u]]
    BY DEF StartPrevInv
  <2>1. pc[u] = "waiting" /\ u # s /\ stamp'[u] = stamp[u] /\ startPrev'[u] = startPrev[u]
    BY <1>2
  <2>2. ASSUME startPrev[u] # None
        PROVE  /\ StartProject(startPrev[u])' = StartProject(u)'
               /\ pc'[startPrev[u]] # "idle"
               /\ stamp'[startPrev[u]] < stamp'[u] \/ ~Held(startPrev[u])'
    BY <2>1, <2>2, <1>2, <1>3 DEF StartChainInv, StartPrevInv
  <2>3. ASSUME NEW r \in Starts, Held(r)', StartProject(r)' = StartProject(u)', stamp'[r] < stamp'[u]
        PROVE  /\ startPrev[u] # None /\ Held(startPrev[u])'
               /\ stamp'[r] <= stamp'[startPrev[u]]
    <3>1. r # s /\ Held(r) /\ StartProject(r) = StartProject(u) /\ stamp[r] < stamp[u]
          /\ stamp'[r] = stamp[r]
      BY <2>1, <2>3, <1>3
    <3>2. /\ startPrev[u] # None /\ Held(startPrev[u]) /\ stamp[r] <= stamp[startPrev[u]]
          /\ startPrev[u] \in Starts /\ StartProject(startPrev[u]) = StartProject(u)
      BY <3>1, <2>1, <1>2 DEF StartChainInv, StartPrevInv
    <3>3. startPrev[u] # s
      <4> SUFFICES ASSUME startPrev[u] = s PROVE FALSE
        OBVIOUS
      <4>1. stamp[s] < stamp[r]
        BY <3>1, <3>2
      <4> QED BY <4>1, <3>2, <1>2
    <3> QED BY <3>1, <3>2, <3>3, <1>2, <1>3
  <2> QED BY <2>1, <2>2, <2>3
<1>6. LeaseInv'
  <2> SUFFICES ASSUME NEW r \in Starts, NEW u \in Starts, pc'[r] \in {"leased", "created"}, Held(u)',
                      StartProject(r)' = StartProject(u)', r # u
               PROVE  stamp'[r] < stamp'[u]
    BY DEF LeaseInv
  <2>1. r # s /\ u # s /\ pc[r] \in {"leased", "created"}
    BY <1>2, <1>3
  <2> QED BY <2>1, <1>3 DEF StartChainInv, LeaseInv
<1> QED BY <1>4, <1>5, <1>6 DEF StartChainInv

-----------------------------------------------------------------------------
(* Deletions of projects.                                                  *)

DelInv == MarkInv /\ WaitInv /\ ClosedInv

\* A step of a call or a start.  A start that joins belongs to a project that
\* is not being deleted; one that leaves is the earliest of its project; a
\* task is only created by the holder of a lease.
LEMMA DelCallStep ==
  ASSUME ConstantsAssumption, TypeOK, DelInv, UNCHANGED <<deleting, gone, ids>>,
         \A d \in Deletes : pc'[d] = pc[d] /\ startPrev'[d] = startPrev[d],
         \A s \in Starts : Held(s)' => Held(s) \/ StartProject(s) \notin deleting,
         \A s \in Starts : Held(s) /\ Held(s)' => stamp'[s] = stamp[s],
         \A r, s \in Starts : Held(r) /\ ~Held(r)' /\ Held(s) /\ r # s
           /\ StartProject(r) = StartProject(s) => stamp[r] < stamp[s],
         \A t \in Tasks : row'[t] # "none" =>
           row[t] # "none" \/ \E s \in Starts : Held(s) /\ TaskOf[s] = t
  PROVE  DelInv'
<1> USE DEF DelInv
<1>1. /\ \A d \in Deletes : Deleting(d)' <=> Deleting(d)
      /\ \A s \in Starts : StartProject(s)' = StartProject(s)
      /\ \A d \in Deletes : startPrev[d] \in Starts \cup {None}
      /\ \A s \in Starts : stamp[s] \in Nat
      /\ None \notin Starts
  BY DEF Deleting, StartProject, TypeOK, ConstantsAssumption, Entries, Calls
<1>2. MarkInv'
  BY <1>1 DEF MarkInv
<1>3. WaitInv'
  <2> SUFFICES ASSUME NEW d \in Deletes, NEW s \in Starts, pc'[d] = "awaitStarts", Held(s)',
                      StartProject(s)' = Deleted[d]
               PROVE  /\ startPrev'[d] # None /\ Held(startPrev[d])'
                      /\ StartProject(startPrev[d])' = Deleted[d]
                      /\ stamp'[s] <= stamp'[startPrev'[d]]
    BY DEF WaitInv
  <2>1. pc[d] = "awaitStarts" /\ Deleted[d] \in deleting
    BY DEF MarkInv, Deleting
  <2>2. Held(s) /\ StartProject(s) = Deleted[d] /\ stamp'[s] = stamp[s]
    BY <2>1, <1>1
  <2>3. /\ startPrev[d] # None /\ Held(startPrev[d]) /\ startPrev[d] \in Starts
        /\ StartProject(startPrev[d]) = Deleted[d]
        /\ stamp[s] <= stamp[startPrev[d]]
    BY <2>1, <2>2, <1>1 DEF WaitInv
  <2>4. Held(startPrev[d])'
    <3> SUFFICES ASSUME ~Held(startPrev[d])' PROVE FALSE
      OBVIOUS
    <3>1. s # startPrev[d]
      <4>1. startPrev'[d] = startPrev[d]
        OBVIOUS
      <4> QED BY <4>1
    <3>2. ~Held(startPrev[d])'
      OBVIOUS
    <3>3. stamp[startPrev[d]] < stamp[s]
      BY <2>2, <2>3, <3>1, <3>2
    <3> QED BY <3>3, <2>3, <1>1
  <2> QED BY <2>2, <2>3, <2>4, <1>1
<1>4. ClosedInv'
  <2> SUFFICES ASSUME NEW d \in Deletes
               PROVE  /\ Deleting(d)' /\ pc'[d] # "awaitStarts" =>
                           \A s \in Starts : Held(s)' => StartProject(s)' # Deleted[d]
                      /\ pc'[d] \in {"listing", "barrier", "ran", "threw"} =>
                           \A t \in Tasks : ProjectOf[t] = Deleted[d] /\ row'[t] # "none" => t \in ids'[d]
                      /\ pc'[d] \in {"idle", "awaitStarts"} => ids'[d] = {}
    BY DEF ClosedInv
  <2>1. ASSUME Deleting(d)', pc'[d] # "awaitStarts", NEW s \in Starts, Held(s)'
        PROVE  StartProject(s)' # Deleted[d]
    <3>1. Deleting(d) /\ pc[d] # "awaitStarts" /\ Deleted[d] \in deleting
      BY <2>1, <1>1 DEF MarkInv
    <3> QED BY <2>1, <3>1, <1>1 DEF ClosedInv
  <2>2. ASSUME pc'[d] \in {"listing", "barrier", "ran", "threw"}, NEW t \in Tasks,
               ProjectOf[t] = Deleted[d], row'[t] # "none"
        PROVE  t \in ids'[d]
    <3>1. pc[d] \in {"listing", "barrier", "ran", "threw"} /\ Deleting(d) /\ pc[d] # "awaitStarts"
      BY <2>2 DEF Deleting
    <3>2. \A s \in Starts : Held(s) => TaskOf[s] # t
      BY <2>2, <3>1 DEF ClosedInv, StartProject
    <3>3. row[t] # "none"
      BY <2>2, <3>2
    <3> QED BY <2>2, <3>1, <3>3 DEF ClosedInv
  <2>3. pc'[d] \in {"idle", "awaitStarts"} => ids'[d] = {}
    BY DEF ClosedInv
  <2> QED BY <2>1, <2>2, <2>3
<1> QED BY <1>2, <1>3, <1>4

\* A step of a deletion after its first one.
LEMMA DelDeleteStep ==
  ASSUME ConstantsAssumption, TypeOK, DelInv, NEW d \in Deletes,
         DeleteList(d) \/ DeleteBarrier(d) \/ DeleteOperation(d) \/ DeleteClear(d) \/ DeleteReturns(d)
  PROVE  DelInv'
<1> USE DEF DelInv
<1> DEFINE p == Deleted[d]
<1>1. /\ \A s \in Starts : s \in Entries /\ s # d
      /\ d \in Entries /\ \A c \in Deletes : c \in Entries
      /\ None \notin Starts
  BY DEF Entries, Calls, ConstantsAssumption
<1>2. PICK l : Goto(d, l)
  BY DEF DeleteList, DeleteBarrier, DeleteOperation, DeleteClear, DeleteReturns
<1>3. /\ \A e \in Entries : pc'[e] = IF e = d THEN l ELSE pc[e]
      /\ \A c \in Deletes : startPrev[c] \in Starts \cup {None}
  BY <1>2 DEF TypeOK, Goto
<1>4. UNCHANGED startVars /\ \A s \in Starts : stamp'[s] = stamp[s]
  BY <1>1 DEF DeleteList, DeleteBarrier, DeleteOperation, DeleteClear, DeleteReturns, chainVars,
              Enqueue, Leave, TypeOK
<1>5. /\ \A s \in Starts : (Held(s)' <=> Held(s)) /\ StartProject(s)' = StartProject(s)
      /\ \A c \in Deletes : c # d => (Deleting(c)' <=> Deleting(c))
  BY <1>1, <1>3 DEF Held, StartProject, Deleting
<1>6. \A t \in Tasks : row'[t] # "none" => row[t] # "none"
  BY DEF DeleteList, DeleteBarrier, DeleteOperation, DeleteClear, DeleteReturns, DeleteRows, dbVars
<1>7. WaitInv'
  <2> SUFFICES ASSUME NEW c \in Deletes, NEW s \in Starts, pc'[c] = "awaitStarts", Held(s)',
                      StartProject(s)' = Deleted[c]
               PROVE  /\ startPrev'[c] # None /\ Held(startPrev[c])'
                      /\ StartProject(startPrev[c])' = Deleted[c]
                      /\ stamp'[s] <= stamp'[startPrev'[c]]
    BY DEF WaitInv
  <2>1. l # "awaitStarts"
    BY <1>2, <1>1 DEF Goto, TypeOK, DeleteList, DeleteBarrier, DeleteOperation, DeleteClear, DeleteReturns
  <2>2. c # d /\ pc[c] = "awaitStarts"
    BY <2>1, <1>1, <1>3
  <2>3. startPrev'[c] = startPrev[c]
    BY <1>4 DEF startVars
  <2> QED BY <2>2, <2>3, <1>3, <1>4, <1>5 DEF WaitInv
<1>8. ASSUME pc[d] \in {"awaitStarts", "listing", "barrier", "ran", "threw", "cleared", "rejected"}
      PROVE  \A c \in Deletes : Deleting(c) /\ Deleted[c] = p => c = d
  BY <1>8 DEF MarkInv, Deleting
<1>9. CASE DeleteList(d)
  <2>1. /\ pc[d] = "awaitStarts" /\ l = "listing" /\ StartReady(d)
        /\ ids'[d] = TasksOf(p) /\ \A c \in Deletes : c # d => ids'[c] = ids[c]
        /\ UNCHANGED <<row, gone, deleting>>
    BY <1>1, <1>2, <1>3, <1>9 DEF DeleteList, Goto, TypeOK, dbVars
  <2>2. \A s \in Starts : Held(s) => StartProject(s) # p
    <3> SUFFICES ASSUME NEW s \in Starts, Held(s), StartProject(s) = p PROVE FALSE
      OBVIOUS
    <3>1. startPrev[d] # None /\ Held(startPrev[d])
      BY <2>1 DEF WaitInv
    <3> QED BY <3>1, <2>1 DEF StartReady, Released, Held
  <2>3. Deleting(d) /\ Deleting(d)'
    BY <2>1, <1>1, <1>3 DEF Deleting
  <2>4. MarkInv'
    <3>1. \A q \in gone : \E c \in Deletes : Deleted[c] = q /\ pc'[c] \in {"ran", "cleared", "done"}
      BY <2>1, <1>1, <1>3 DEF MarkInv
    <3> QED BY <3>1, <2>1, <2>3, <1>5 DEF MarkInv
  <2>5. ClosedInv'
    <3> SUFFICES ASSUME NEW c \in Deletes
                 PROVE  /\ Deleting(c)' /\ pc'[c] # "awaitStarts" =>
                             \A s \in Starts : Held(s)' => StartProject(s)' # Deleted[c]
                        /\ pc'[c] \in {"listing", "barrier", "ran", "threw"} =>
                             \A t \in Tasks : ProjectOf[t] = Deleted[c] /\ row'[t] # "none" => t \in ids'[c]
                        /\ pc'[c] \in {"idle", "awaitStarts"} => ids'[c] = {}
      BY DEF ClosedInv
    <3>1. CASE c = d
      <4>1. \A s \in Starts : Held(s)' => StartProject(s)' # p
        BY <2>2, <1>5
      <4>2. \A t \in Tasks : ProjectOf[t] = p /\ row'[t] # "none" => t \in ids'[d]
        BY <2>1 DEF TasksOf
      <4>3. pc'[d] = "listing"
        BY <2>1, <1>1, <1>3
      <4> QED BY <3>1, <4>1, <4>2, <4>3
    <3>2. CASE c # d
      BY <3>2, <2>1, <1>1, <1>3, <1>5 DEF ClosedInv
    <3> QED BY <3>1, <3>2
  <2> QED BY <2>4, <2>5, <1>7
<1>10. CASE DeleteBarrier(d) \/ DeleteOperation(d)
  <2>1. /\ pc[d] \in {"listing", "barrier"} /\ l \in {"barrier", "cleared", "rejected", "ran", "threw"}
        /\ UNCHANGED <<ids, deleting>>
        /\ gone' = gone \/ (gone' = gone \cup {p} /\ l \in {"ran", "cleared"})
    BY <1>1, <1>2, <1>3, <1>10 DEF DeleteBarrier, DeleteOperation, Goto, TypeOK, dbVars, delVars, DeleteRows
  <2>2. Deleting(d) /\ Deleting(d)' /\ pc'[d] = l
    BY <2>1, <1>1, <1>3 DEF Deleting
  <2>3. MarkInv'
    <3>1. ASSUME NEW q \in gone'
          PROVE  \E c \in Deletes : Deleted[c] = q /\ pc'[c] \in {"ran", "cleared", "done"}
      <4>1. CASE q \in gone
        <5>1. PICK c \in Deletes : Deleted[c] = q /\ pc[c] \in {"ran", "cleared", "done"}
          BY <4>1 DEF MarkInv
        <5>2. c # d
          BY <5>1, <2>1
        <5> QED BY <5>1, <5>2, <1>1, <1>3
      <4>2. CASE q \notin gone
        BY <4>2, <3>1, <2>1, <2>2
      <4> QED BY <4>1, <4>2
    <3>2. \A c \in Deletes : Deleting(c)' => Deleted[c] \in deleting'
      BY <2>1, <2>2, <1>5 DEF MarkInv
    <3>3. \A b, c \in Deletes : Deleting(b)' /\ Deleting(c)' /\ Deleted[b] = Deleted[c] => b = c
      BY <2>2, <1>5 DEF MarkInv
    <3> QED BY <3>1, <3>2, <3>3 DEF MarkInv
  <2>4. ClosedInv'
    <3> SUFFICES ASSUME NEW c \in Deletes
                 PROVE  /\ Deleting(c)' /\ pc'[c] # "awaitStarts" =>
                             \A s \in Starts : Held(s)' => StartProject(s)' # Deleted[c]
                        /\ pc'[c] \in {"listing", "barrier", "ran", "threw"} =>
                             \A t \in Tasks : ProjectOf[t] = Deleted[c] /\ row'[t] # "none" => t \in ids'[c]
                        /\ pc'[c] \in {"idle", "awaitStarts"} => ids'[c] = {}
      BY DEF ClosedInv
    <3>1. CASE c = d
      BY <3>1, <2>1, <2>2, <1>5, <1>6 DEF ClosedInv
    <3>2. CASE c # d
      BY <3>2, <2>1, <1>1, <1>3, <1>5, <1>6 DEF ClosedInv
    <3> QED BY <3>1, <3>2
  <2> QED BY <2>3, <2>4, <1>7
<1>11. CASE DeleteClear(d)
  <2>1. /\ pc[d] \in {"ran", "threw"} /\ l = (IF pc[d] = "ran" THEN "cleared" ELSE "rejected")
        /\ UNCHANGED <<ids, deleting, gone>>
    BY <1>1, <1>2, <1>3, <1>11 DEF DeleteClear, Goto, TypeOK, dbVars, delVars
  <2>2. Deleting(d) /\ Deleting(d)' /\ pc'[d] = l
    BY <2>1, <1>1, <1>3 DEF Deleting
  <2>3. MarkInv'
    <3>1. \A q \in gone : \E c \in Deletes : Deleted[c] = q /\ pc'[c] \in {"ran", "cleared", "done"}
      BY <2>1, <1>1, <1>3 DEF MarkInv
    <3> QED BY <3>1, <2>1, <2>2, <1>5 DEF MarkInv
  <2>4. ClosedInv'
    <3> SUFFICES ASSUME NEW c \in Deletes
                 PROVE  /\ Deleting(c)' /\ pc'[c] # "awaitStarts" =>
                             \A s \in Starts : Held(s)' => StartProject(s)' # Deleted[c]
                        /\ pc'[c] \in {"listing", "barrier", "ran", "threw"} =>
                             \A t \in Tasks : ProjectOf[t] = Deleted[c] /\ row'[t] # "none" => t \in ids'[c]
                        /\ pc'[c] \in {"idle", "awaitStarts"} => ids'[c] = {}
      BY DEF ClosedInv
    <3>1. CASE c = d
      BY <3>1, <2>1, <2>2, <1>5, <1>6 DEF ClosedInv
    <3>2. CASE c # d
      BY <3>2, <2>1, <1>1, <1>3, <1>5, <1>6 DEF ClosedInv
    <3> QED BY <3>1, <3>2
  <2> QED BY <2>3, <2>4, <1>7
<1>12. CASE DeleteReturns(d)
  <2>1. /\ UNCHANGED <<ids, gone, row>>
        /\ \/ pc[d] = "cleared" /\ l = "done" /\ deleting' = deleting
           \/ pc[d] \in {"listing", "rejected"} /\ l = "failed" /\ deleting' = deleting \ {p}
    BY <1>1, <1>2, <1>3, <1>12 DEF DeleteReturns, Goto, TypeOK, dbVars
  <2>2. /\ Deleting(d) /\ pc'[d] = l /\ pc[d] # "awaitStarts"
        /\ Deleting(d)' <=> l = "done"
    BY <2>1, <1>1, <1>3 DEF Deleting
  <2>3. \A c \in Deletes : c # d /\ Deleting(c) => Deleted[c] # p
    BY <2>2 DEF MarkInv
  <2>4. MarkInv'
    <3>1. \A q \in gone : \E c \in Deletes : Deleted[c] = q /\ pc'[c] \in {"ran", "cleared", "done"}
      BY <2>1, <1>1, <1>3 DEF MarkInv
    <3>2. \A c \in Deletes : Deleting(c)' => Deleted[c] \in deleting'
      BY <2>1, <2>2, <2>3, <1>5 DEF MarkInv
    <3>3. \A b, c \in Deletes : Deleting(b)' /\ Deleting(c)' /\ Deleted[b] = Deleted[c] => b = c
      BY <2>2, <1>5 DEF MarkInv
    <3> QED BY <3>1, <3>2, <3>3, <2>1 DEF MarkInv
  <2>5. ClosedInv'
    <3> SUFFICES ASSUME NEW c \in Deletes
                 PROVE  /\ Deleting(c)' /\ pc'[c] # "awaitStarts" =>
                             \A s \in Starts : Held(s)' => StartProject(s)' # Deleted[c]
                        /\ pc'[c] \in {"listing", "barrier", "ran", "threw"} =>
                             \A t \in Tasks : ProjectOf[t] = Deleted[c] /\ row'[t] # "none" => t \in ids'[c]
                        /\ pc'[c] \in {"idle", "awaitStarts"} => ids'[c] = {}
      BY DEF ClosedInv
    <3>1. CASE c = d
      BY <3>1, <2>1, <2>2, <1>5, <1>6 DEF ClosedInv
    <3>2. CASE c # d
      BY <3>2, <2>1, <1>1, <1>3, <1>5, <1>6 DEF ClosedInv
    <3> QED BY <3>1, <3>2
  <2> QED BY <2>4, <2>5, <1>7
<1> QED BY <1>9, <1>10, <1>11, <1>12

\* The first step of a deletion closes the project and awaits the last start.
LEMMA DelBegins ==
  ASSUME ConstantsAssumption, TypeOK, StartChainInv, DelInv, NEW d \in Deletes, deleteProject(d)
  PROVE  DelInv'
<1> USE DEF DelInv
<1> DEFINE p == Deleted[d]
<1>1. /\ \A s \in Starts : s \in Entries /\ s # d
      /\ d \in Entries /\ \A c \in Deletes : c \in Entries
      /\ None \notin Starts /\ p \in Projects
  BY DEF Entries, Calls, ConstantsAssumption
<1>2. PICK l \in {"refused", "awaitStarts"} : Goto(d, l) /\ (l = "refused" <=> p \in deleting)
  BY DEF deleteProject
<1>3. /\ \A e \in Entries : pc'[e] = IF e = d THEN l ELSE pc[e]
      /\ pc[d] = "idle"
      /\ \A c \in Deletes : c # d => startPrev'[c] = startPrev[c]
      /\ l = "awaitStarts" => startPrev'[d] = startTails[p] /\ deleting' = deleting \cup {p}
      /\ l = "refused" => deleting' = deleting
      /\ UNCHANGED <<row, gone, ids, stamp>>
      /\ startTails[p] \in Starts \cup {None}
      /\ \A c \in Deletes : startPrev[c] \in Starts \cup {None}
  BY <1>1, <1>2 DEF TypeOK, Goto, deleteProject, dbVars, chainVars
<1>4. /\ \A s \in Starts : (Held(s)' <=> Held(s)) /\ StartProject(s)' = StartProject(s)
      /\ \A c \in Deletes : c # d => (Deleting(c)' <=> Deleting(c))
      /\ Deleting(d)' <=> l = "awaitStarts"
  BY <1>1, <1>2, <1>3 DEF Held, StartProject, Deleting
<1>5. MarkInv'
  <2>1. \A q \in gone : \E c \in Deletes : Deleted[c] = q /\ pc'[c] \in {"ran", "cleared", "done"}
    BY <1>1, <1>3 DEF MarkInv
  <2>2. \A c \in Deletes : Deleting(c)' => Deleted[c] \in deleting'
    BY <1>2, <1>3, <1>4 DEF MarkInv
  <2>3. \A b, c \in Deletes : Deleting(b)' /\ Deleting(c)' /\ Deleted[b] = Deleted[c] => b = c
    BY <1>2, <1>4 DEF MarkInv
  <2> QED BY <2>1, <2>2, <2>3, <1>3 DEF MarkInv
<1>6. WaitInv'
  <2> SUFFICES ASSUME NEW c \in Deletes, NEW s \in Starts, pc'[c] = "awaitStarts", Held(s)',
                      StartProject(s)' = Deleted[c]
               PROVE  /\ startPrev'[c] # None /\ Held(startPrev[c])'
                      /\ StartProject(startPrev[c])' = Deleted[c]
                      /\ stamp'[s] <= stamp'[startPrev'[c]]
    BY DEF WaitInv
  <2>1. CASE c = d
    <3>1. startPrev'[d] = startTails[p]
      BY <2>1, <1>1, <1>3
    <3>2. /\ startTails[p] # None /\ stamp[s] <= stamp[startTails[p]] /\ startTails[p] \in Starts
          /\ Held(startTails[p]) /\ StartProject(startTails[p]) = p
      BY <2>1, <1>1, <1>3, <1>4 DEF StartChainInv, StartTailInv
    <3> QED BY <2>1, <3>1, <3>2, <1>3, <1>4
  <2>2. CASE c # d
    BY <2>2, <1>1, <1>3, <1>4 DEF WaitInv
  <2> QED BY <2>1, <2>2
<1>7. ClosedInv'
  <2> SUFFICES ASSUME NEW c \in Deletes
               PROVE  /\ Deleting(c)' /\ pc'[c] # "awaitStarts" =>
                           \A s \in Starts : Held(s)' => StartProject(s)' # Deleted[c]
                      /\ pc'[c] \in {"listing", "barrier", "ran", "threw"} =>
                           \A t \in Tasks : ProjectOf[t] = Deleted[c] /\ row'[t] # "none" => t \in ids'[c]
                      /\ pc'[c] \in {"idle", "awaitStarts"} => ids'[c] = {}
    BY DEF ClosedInv
  <2>1. CASE c = d
    BY <2>1, <1>1, <1>2, <1>3, <1>4 DEF ClosedInv
  <2>2. CASE c # d
    BY <2>2, <1>1, <1>3, <1>4 DEF ClosedInv
  <2> QED BY <2>1, <2>2
<1> QED BY <1>5, <1>6, <1>7

-----------------------------------------------------------------------------
(* The inductive invariant.                                                *)

LEMMA InitIInv == Init => IInv
<1> SUFFICES ASSUME Init PROVE IInv
  OBVIOUS
<1> USE ConstantsAssumption
<1>1. TypeOK
  BY DEF Init, TypeOK, StartLabels, DeleteLabels, CallLabels, Entries, Calls
<1>2. /\ \A e \in Entries : pc[e] = "idle" /\ stamp[e] = 0
      /\ \A x \in Calls : x \in Entries /\ \A d \in Deletes : d \in Entries
      /\ \A s \in Starts : s \in Entries
      /\ clock = 0 /\ gone = {} /\ pending = {} /\ aborted = {}
      /\ \A t \in Tasks : taskTails[t] = None /\ controllers[t] = None
      /\ \A p \in Projects : startTails[p] = None
      /\ \A d \in Deletes : ids[d] = {}
  BY DEF Init, Entries, Calls
<1>3. /\ \A e \in Entries : ~Unsettled(e) /\ ~Working(e) /\ ~Placed(e)
      /\ \A s \in Starts : ~Held(s)
      /\ \A d \in Deletes : ~Deleting(d) /\ d \in Entries
  BY <1>2 DEF Unsettled, Working, Placed, Held, Deleting, Entries
<1>4. StampInv /\ DistinctInv /\ TailInv /\ PrevInv /\ OrderInv
  BY <1>2, <1>3 DEF StampInv, DistinctInv, TailInv, PrevInv, OrderInv, InCallOrder
<1>5. StartTailInv /\ StartPrevInv /\ LeaseInv
  BY <1>2, <1>3 DEF StartTailInv, StartPrevInv, LeaseInv
<1>6. MarkInv /\ WaitInv /\ ClosedInv
  BY <1>2, <1>3 DEF MarkInv, WaitInv, ClosedInv
<1>7. RowInv /\ CancellationHasOwner /\ AbortedByLaterCall /\ NoOrphanTask
  BY <1>2 DEF RowInv, CancellationHasOwner, AbortedByLaterCall, NoOrphanTask
<1> QED BY <1>1, <1>4, <1>5, <1>6, <1>7 DEF IInv

LEMMA ChainStep ==
  ASSUME ConstantsAssumption, IInv, Next PROVE ChainInv'
<1>0. TypeOK /\ ChainInv
  BY DEF IInv, ChainInv
<1>1. /\ \A x \in Calls : x \in Entries /\ x \notin Deletes /\ TaskOf[x] \in Tasks
      /\ \A d \in Deletes : d \in Entries
      /\ \A x \in Runs \cup Cancels \cup Starts : x \in Calls
  BY DEF Entries, Calls, ConstantsAssumption
<1>2. \A x \in Calls : Covers(x) = {TaskOf[x]} /\ Covers(x) \subseteq Tasks /\ Covers(x)' = Covers(x)
  BY <1>1 DEF Covers
<1>3. ASSUME NEW x \in Calls, runTask(x) \/ cancelTaskAndRun(x) \/ releaseAndRun(x) PROVE ChainInv'
  <2>1. /\ Enqueue(x, Covers(x)) /\ Goto(x, "queued") /\ ids' = ids /\ pc[x] \in {"idle", "created"}
    BY <1>2, <1>3 DEF runTask, cancelTaskAndRun, releaseAndRun, delVars
  <2>2. ~Unsettled(x) /\ ~Resolved(x)
    BY <2>1 DEF Unsettled, Working, Resolved
  <2> QED BY <2>1, <2>2, <1>0, <1>1, <1>2, JoinChain
<1>4. ASSUME NEW x \in Calls, Begin(x) PROVE ChainInv'
  BY <1>4, <1>0, <1>1, BeginChain DEF Begin, delVars
<1>5. ASSUME NEW e \in Entries, NEW l, UNCHANGED chainVars, Goto(e, l),
             \A d \in Deletes : ids'[d] = ids[d] \/ (d = e /\ pc[e] = "awaitStarts"),
             \/ pc[e] = "running" /\ l = "finished"
             \/ pc[e] = "cleared" /\ l = "done"
             \/ pc[e] \in {"rejected", "listing"} /\ l \in {"failed", "cleared", "rejected"}
             \/ pc[e] = "idle" /\ l \in {"refused", "awaitStarts"}
             \/ pc[e] = "awaitStarts" /\ l = "listing"
             \/ e \in Starts /\ pc[e] = "waiting" /\ l \in {"refused", "leased"}
             \/ e \in Starts /\ pc[e] = "leased" /\ l = "created"
             \/ e \in Starts /\ pc[e] \in {"leased", "created"} /\ l = "returned"
      PROVE  ChainInv'
  <2>1. \A f \in Entries \ {e} : pc'[f] = pc[f] /\ Covers(f)' = Covers(f)
    BY <1>5, <1>0 DEF TypeOK, Goto, Covers
  <2>2. pc'[e] = l /\ (pc[e] # "awaitStarts" => Covers(e)' = Covers(e))
    BY <1>5, <1>0 DEF TypeOK, Goto, Covers
  <2>3. \/ Working(e) /\ Working(e)'
        \/ ~Unsettled(e) /\ ~Unsettled(e)'
    BY <1>5, <2>2 DEF Working, Unsettled
  <2>4. pc[e] = "awaitStarts" => ~Resolved(e) /\ ~Working(e)
    BY DEF Resolved, Working
  <2>5. Resolved(e) => Resolved(e)'
    BY <1>5, <2>2 DEF Resolved
  <2>6. Placed(e)' => Placed(e)
    BY <1>5, <2>2, <2>3 DEF Placed, Held, Working, Unsettled
  <2> QED BY <1>0, <1>5, <2>1, <2>2, <2>3, <2>4, <2>5, <2>6, SameChain
<1>6. ASSUME NEW x \in Calls, End(x) PROVE ChainInv'
  <2>1. UNCHANGED chainVars /\ Goto(x, "finished") /\ pc[x] = "running" /\ ids' = ids
    BY <1>6 DEF End, delVars
  <2> QED BY <2>1, <1>1, <1>5
<1>7. ASSUME NEW x \in Calls, Settle(x) PROVE ChainInv'
  <2>1. Working(x) /\ Goto(x, "settled") /\ Leave(x) /\ ids' = ids
    BY <1>7 DEF Settle, Working, delVars
  <2> QED BY <2>1, <1>0, <1>1, LeaveChain
<1>8. ASSUME NEW s \in Starts, requestStart(s) PROVE ChainInv'
  BY <1>8, <1>0, RequestChain
<1>9. ASSUME NEW s \in Starts, acquireProjectStart(s) \/ createTask(s) \/ releaseStart(s) PROVE ChainInv'
  <2>1. PICK l \in {"refused", "leased", "created", "returned"} :
          /\ UNCHANGED chainVars /\ Goto(s, l) /\ ids' = ids
          /\ \/ pc[s] = "waiting" /\ l \in {"refused", "leased"}
             \/ pc[s] = "leased" /\ l = "created"
             \/ pc[s] \in {"leased", "created"} /\ l = "returned"
    BY <1>9 DEF acquireProjectStart, createTask, releaseStart, delVars
  <2>2. s \in Entries
    BY <1>1
  <2> QED BY <2>1, <2>2, <1>5
<1>10. ASSUME NEW d \in Deletes, deleteProject(d) \/ DeleteReturns(d) \/ DeleteList(d) PROVE ChainInv'
  <2>1. PICK l \in {"refused", "awaitStarts", "done", "failed", "listing"} :
          /\ UNCHANGED chainVars /\ Goto(d, l)
          /\ \/ pc[d] = "cleared" /\ l = "done"
             \/ pc[d] \in {"rejected", "listing"} /\ l = "failed"
             \/ pc[d] = "idle" /\ l \in {"refused", "awaitStarts"}
             \/ pc[d] = "awaitStarts" /\ l = "listing"
    BY <1>10 DEF deleteProject, DeleteReturns, DeleteList
  <2>2. \A c \in Deletes : ids'[c] = ids[c] \/ (c = d /\ pc[d] = "awaitStarts")
    BY <1>0, <1>10 DEF deleteProject, DeleteReturns, DeleteList, TypeOK
  <2> QED BY <2>1, <2>2, <1>1, <1>5
<1>11. ASSUME NEW d \in Deletes, DeleteBarrier(d) PROVE ChainInv'
  <2>1. pc[d] = "listing" /\ ids' = ids
    BY <1>11 DEF DeleteBarrier, delVars
  <2>2. CASE Enqueue(d, ids[d]) /\ Goto(d, "barrier")
    <3>1. Covers(d) = ids[d] /\ Covers(d) \subseteq Tasks /\ ~Unsettled(d) /\ ~Resolved(d)
      BY <2>1, <1>0 DEF Covers, TypeOK, Unsettled, Working, Resolved
    <3> QED BY <2>1, <2>2, <3>1, <1>0, <1>1, JoinChain
  <2>3. CASE UNCHANGED chainVars /\ \E l \in {"cleared", "rejected"} : Goto(d, l)
    BY <2>1, <2>3, <1>1, <1>5
  <2> QED BY <1>11, <2>2, <2>3 DEF DeleteBarrier
<1>12. ASSUME NEW d \in Deletes, DeleteOperation(d) PROVE ChainInv'
  <2>1. PICK l \in {"ran", "threw"} : Goto(d, l)
    BY <1>12 DEF DeleteOperation
  <2>2. pc[d] = "barrier" /\ Ready(d) /\ UNCHANGED chainVars /\ ids' = ids
    BY <1>12 DEF DeleteOperation, delVars
  <2> QED BY <2>1, <2>2, <1>0, <1>1, BeginChain
<1>13. ASSUME NEW d \in Deletes, DeleteClear(d) PROVE ChainInv'
  <2>1. PICK l \in {"cleared", "rejected"} : Goto(d, l)
    BY <1>13 DEF DeleteClear
  <2>2. Working(d) /\ Leave(d) /\ ids' = ids
    BY <1>13 DEF DeleteClear, Working, delVars
  <2> QED BY <2>1, <2>2, <1>0, <1>1, LeaveChain
<1> QED
  BY <1>1, <1>3, <1>4, <1>6, <1>7, <1>8, <1>9, <1>10, <1>11, <1>12, <1>13, NextCases

LEMMA StartChainStep ==
  ASSUME ConstantsAssumption, IInv, Next PROVE StartChainInv'
<1>0. TypeOK /\ ChainInv /\ StartChainInv
  BY DEF IInv, ChainInv, StartChainInv
<1>1. /\ \A x \in Calls : x \in Entries /\ x \notin Deletes
      /\ \A s \in Starts : s \in Calls /\ s \in Entries
      /\ \A d \in Deletes : d \in Entries /\ d \notin Starts
      /\ \A x \in Runs \cup Cancels : x \in Calls /\ x \notin Starts
  BY DEF Entries, Calls, ConstantsAssumption
\* A step that moves no start into or out of the chain.
<1>2. ASSUME NEW e \in Entries, NEW l, Goto(e, l), UNCHANGED startTails,
             \A s \in Starts : startPrev'[s] = startPrev[s],
             \A f \in Entries : f # e => stamp'[f] = stamp[f],
             \/ e \notin Starts
             \/ ~Held(e) /\ l \in {"running", "finished", "settled"}
             \/ pc[e] = "leased" /\ l = "created" /\ stamp' = stamp
      PROVE  StartChainInv'
  <2>1. \A f \in Entries : pc'[f] = IF f = e THEN l ELSE pc[f]
    BY <1>2, <1>0 DEF TypeOK, Goto
  <2>2. \A s \in Starts :
           /\ Held(s)' <=> Held(s)
           /\ pc'[s] = "waiting" => pc[s] = "waiting"
           /\ pc'[s] \in {"leased", "created"} => pc[s] \in {"leased", "created"}
           /\ pc[s] # "idle" => pc'[s] # "idle"
           /\ Held(s) => stamp'[s] = stamp[s]
    <3> SUFFICES ASSUME NEW s \in Starts
                 PROVE  /\ Held(s)' <=> Held(s)
                        /\ pc'[s] = "waiting" => pc[s] = "waiting"
                        /\ pc'[s] \in {"leased", "created"} => pc[s] \in {"leased", "created"}
                        /\ pc[s] # "idle" => pc'[s] # "idle"
                        /\ Held(s) => stamp'[s] = stamp[s]
      OBVIOUS
    <3>1. CASE s # e
      BY <3>1, <2>1, <1>1, <1>2 DEF Held
    <3>2. CASE s = e
      BY <3>2, <2>1, <1>1, <1>2 DEF Held
    <3> QED BY <3>1, <3>2
  <2> QED BY <2>2, <1>0, <1>2, StartsSame
<1>3. ASSUME NEW x \in Runs \cup Cancels, runTask(x) \/ cancelTaskAndRun(x) PROVE StartChainInv'
  <2>1. Goto(x, "queued") /\ Enqueue(x, {TaskOf[x]}) /\ UNCHANGED startVars
    BY <1>3 DEF runTask, cancelTaskAndRun
  <2>2. \A f \in Entries : f # x => stamp'[f] = stamp[f]
    BY <2>1, <1>0 DEF Enqueue, TypeOK
  <2>3. UNCHANGED startTails /\ \A s \in Starts : startPrev'[s] = startPrev[s]
    BY <2>1 DEF startVars
  <2>4. x \in Entries /\ x \notin Starts
    BY <1>1
  <2> QED BY <2>1, <2>2, <2>3, <2>4, <1>2
<1>4. ASSUME NEW x \in Calls, Begin(x) \/ End(x) \/ Settle(x) PROVE StartChainInv'
  <2>1. PICK l \in {"running", "finished", "settled"} : Goto(x, l)
    BY <1>4 DEF Begin, End, Settle
  <2>2. UNCHANGED startVars /\ UNCHANGED stamp /\ ~Held(x)
    BY <1>4 DEF Begin, End, Settle, chainVars, Leave, Held
  <2>3. /\ UNCHANGED startTails /\ \A s \in Starts : startPrev'[s] = startPrev[s]
        /\ \A f \in Entries : stamp'[f] = stamp[f]
    BY <2>2 DEF startVars
  <2>4. x \in Entries
    BY <1>1
  <2> QED BY <2>1, <2>2, <2>3, <2>4, <1>2
<1>5. ASSUME NEW s \in Starts, createTask(s) PROVE StartChainInv'
  <2>1. /\ Goto(s, "created") /\ UNCHANGED startVars /\ UNCHANGED stamp
        /\ pc[s] = "leased"
    BY <1>5 DEF createTask, chainVars
  <2> QED BY <2>1, <1>1, <1>2 DEF startVars
<1>6. ASSUME NEW d \in Deletes, DeleteList(d) \/ DeleteBarrier(d) \/ DeleteOperation(d)
                                  \/ DeleteClear(d) \/ DeleteReturns(d) \/ deleteProject(d)
      PROVE  StartChainInv'
  <2>1. PICK l : Goto(d, l)
    BY <1>6 DEF deleteProject, DeleteList, DeleteBarrier, DeleteOperation, DeleteClear, DeleteReturns
  <2>2. UNCHANGED startTails /\ \A s \in Starts : startPrev'[s] = startPrev[s]
    BY <1>0, <1>1, <1>6 DEF deleteProject, DeleteList, DeleteBarrier, DeleteOperation, DeleteClear,
                       DeleteReturns, startVars, TypeOK
  <2>3. \A f \in Entries : f # d => stamp'[f] = stamp[f]
    BY <1>0, <1>6 DEF deleteProject, DeleteList, DeleteBarrier, DeleteOperation, DeleteClear,
                      DeleteReturns, chainVars, Enqueue, Leave, TypeOK
  <2>4. d \in Entries /\ d \notin Starts
    BY <1>1
  <2> QED BY <2>1, <2>2, <2>3, <2>4, <1>2
<1>7. ASSUME NEW s \in Starts, requestStart(s) PROVE StartChainInv'
  <2>1. CASE Goto(s, "refused") /\ UNCHANGED <<startVars, chainVars>>
    <3>1. \A r \in Starts : pc'[r] = IF r = s THEN "refused" ELSE pc[r]
      BY <1>0, <1>1, <2>1 DEF TypeOK, Goto
    <3>2. pc[s] = "idle" /\ UNCHANGED <<startTails, startPrev, stamp>>
      BY <1>7, <2>1 DEF requestStart, startVars, chainVars
    <3> QED BY <3>1, <3>2, <1>0, StartsSame DEF Held
  <2>2. CASE Goto(s, "waiting") /\ JoinStarts(s, ProjectOf[TaskOf[s]])
    BY <1>7, <2>2, <1>0, StartsJoin DEF requestStart, StartProject
  <2> QED BY <1>7, <2>1, <2>2 DEF requestStart
<1>8. ASSUME NEW s \in Starts, acquireProjectStart(s) PROVE StartChainInv'
  <2>1. pc[s] = "waiting" /\ StartReady(s) /\ UNCHANGED stamp
    BY <1>8 DEF acquireProjectStart, chainVars
  <2>2. CASE Goto(s, "leased") /\ UNCHANGED startVars
    BY <2>1, <2>2, <1>0, StartsLease
  <2>3. CASE Goto(s, "refused") /\ LeaveStarts(s, ProjectOf[TaskOf[s]])
    <3>1. \A r \in Starts : Held(r) /\ r # s /\ StartProject(r) = StartProject(s) => stamp[s] < stamp[r]
      BY <2>1, <1>0, FirstStart
    <3>2. Held(s) /\ LeaveStarts(s, StartProject(s)) /\ \A r \in Starts : r # s => stamp'[r] = stamp[r]
      BY <2>1, <2>3 DEF Held, StartProject
    <3> QED BY <2>3, <3>1, <3>2, <1>0, StartsLeave
  <2> QED BY <1>8, <2>2, <2>3 DEF acquireProjectStart
<1>9. ASSUME NEW s \in Starts, releaseStart(s) \/ releaseAndRun(s) PROVE StartChainInv'
  <2>1. PICK l \in {"returned", "queued"} : Goto(s, l)
    BY <1>9 DEF releaseStart, releaseAndRun
  <2>2. pc[s] \in {"leased", "created"} /\ LeaveStarts(s, StartProject(s)) /\ Held(s)
    BY <1>9 DEF releaseStart, releaseAndRun, Held, StartProject
  <2>3. \A r \in Starts : r # s => stamp'[r] = stamp[r]
    BY <1>9, <1>0, <1>1 DEF releaseStart, releaseAndRun, Enqueue, chainVars, TypeOK
  <2>4. \A r \in Starts : Held(r) /\ r # s /\ StartProject(r) = StartProject(s) => stamp[s] < stamp[r]
    BY <2>2, <1>0, FirstStart
  <2> QED BY <2>1, <2>2, <2>3, <2>4, <1>0, StartsLeave
<1> QED BY <1>3, <1>4, <1>5, <1>6, <1>7, <1>8, <1>9, NextCases

LEMMA DelStep ==
  ASSUME ConstantsAssumption, IInv, Next PROVE DelInv'
<1>0. TypeOK /\ ChainInv /\ StartChainInv /\ DelInv
  BY DEF IInv, ChainInv, StartChainInv, DelInv
<1>1. /\ \A x \in Calls : x \in Entries /\ x \notin Deletes
      /\ \A s \in Starts : s \in Calls /\ s \in Entries
      /\ \A d \in Deletes : d \in Entries
      /\ \A x \in Runs \cup Cancels : x \in Calls /\ x \notin Starts
  BY DEF Entries, Calls, ConstantsAssumption
\* A step of a call or a start.
<1>2. ASSUME NEW x \in Calls, NEW l, Goto(x, l), UNCHANGED <<deleting, gone, ids>>,
             \A d \in Deletes : startPrev'[d] = startPrev[d],
             \A f \in Entries : f # x => stamp'[f] = stamp[f],
             x \in Starts => \/ ~Held(x) /\ l \notin {"waiting", "leased", "created"}
                             \/ pc[x] = "idle" /\ StartProject(x) \notin deleting
                             \/ Held(x) /\ l \in {"leased", "created"} /\ stamp' = stamp
                             \/ /\ Held(x)
                                /\ \A r \in Starts : Held(r) /\ r # x
                                     /\ StartProject(r) = StartProject(x) => stamp[x] < stamp[r]
                                /\ l \notin {"waiting", "leased", "created"},
             \A t \in Tasks : row'[t] # "none" =>
               row[t] # "none" \/ (x \in Starts /\ Held(x) /\ TaskOf[x] = t)
      PROVE  DelInv'
  <2>1. \A f \in Entries : pc'[f] = IF f = x THEN l ELSE pc[f]
    BY <1>2, <1>0, <1>1 DEF TypeOK, Goto
  <2>2. \A d \in Deletes : pc'[d] = pc[d]
    BY <2>1, <1>1
  <2>3. \A s \in Starts : s # x => (Held(s)' <=> Held(s)) /\ stamp'[s] = stamp[s]
    BY <2>1, <1>1, <1>2 DEF Held
  <2>4. x \in Starts => pc'[x] = l
    BY <2>1, <1>1
  <2>5. \A s \in Starts : Held(s)' => Held(s) \/ StartProject(s) \notin deleting
    BY <2>3, <2>4, <1>2 DEF Held
  <2>6. \A s \in Starts : Held(s) /\ Held(s)' => stamp'[s] = stamp[s]
    BY <2>3, <2>4, <1>2 DEF Held
  <2>7. \A r, s \in Starts : Held(r) /\ ~Held(r)' /\ Held(s) /\ r # s
           /\ StartProject(r) = StartProject(s) => stamp[r] < stamp[s]
    BY <2>3, <2>4, <1>2 DEF Held
  <2>8. \A t \in Tasks : row'[t] # "none" =>
           row[t] # "none" \/ \E s \in Starts : Held(s) /\ TaskOf[s] = t
    BY <1>2
  <2> QED BY <2>2, <2>5, <2>6, <2>7, <2>8, <1>0, <1>2, DelCallStep
<1>3. ASSUME NEW x \in Runs \cup Cancels, runTask(x) \/ cancelTaskAndRun(x) PROVE DelInv'
  <2>1. /\ Goto(x, "queued") /\ Enqueue(x, {TaskOf[x]})
        /\ UNCHANGED <<deleting, gone, ids, startPrev, row>>
    BY <1>3 DEF runTask, cancelTaskAndRun, dbVars, delVars, startVars
  <2>2. \A f \in Entries : f # x => stamp'[f] = stamp[f]
    BY <2>1, <1>0 DEF Enqueue, TypeOK
  <2> QED BY <2>1, <2>2, <1>1, <1>2
<1>4. ASSUME NEW x \in Calls, Begin(x) \/ End(x) \/ Settle(x) PROVE DelInv'
  <2>1. /\ UNCHANGED <<deleting, gone, ids, startPrev, stamp>> /\ ~Held(x)
        /\ \E l \in {"running", "finished", "settled"} : Goto(x, l)
    BY <1>4 DEF Begin, End, Settle, chainVars, Leave, Held, dbVars, delVars, startVars
  <2>2. \A t \in Tasks : row'[t] # "none" => row[t] # "none"
    <3>1. CASE row' = row
      BY <3>1
    <3>2. CASE End(x)
      <4>1. \A r \in Outcome(x) : row[TaskOf[x]] = "none" => r = "none"
        BY DEF Outcome
      <4> QED BY <3>2, <4>1, <1>0 DEF End, TypeOK
    <3> QED BY <1>4, <3>1, <3>2 DEF Begin, Settle, dbVars
  <2> QED BY <2>1, <2>2, <1>2
<1>5. ASSUME NEW s \in Starts, requestStart(s) PROVE DelInv'
  <2>1. PICK l \in {"refused", "waiting"} : Goto(s, l) /\ (l = "waiting" => StartProject(s) \notin deleting)
    BY <1>5 DEF requestStart, StartProject
  <2>2. UNCHANGED <<deleting, gone, ids, row>> /\ pc[s] = "idle" /\ ~Held(s)
    BY <1>5 DEF requestStart, dbVars, delVars, Held
  <2>3. /\ \A f \in Entries : f # s => stamp'[f] = stamp[f]
        /\ \A d \in Deletes : startPrev'[d] = startPrev[d]
    BY <1>0, <1>1, <1>5 DEF requestStart, JoinStarts, startVars, chainVars, TypeOK
  <2>4. s \in Calls
    BY <1>1
  <2>5. CASE l = "refused"
    BY <2>1, <2>2, <2>3, <2>4, <2>5, <1>2
  <2>6. CASE l = "waiting"
    BY <2>1, <2>2, <2>3, <2>4, <2>6, <1>2
  <2> QED BY <2>5, <2>6
<1>6. ASSUME NEW s \in Starts, acquireProjectStart(s) \/ releaseStart(s) \/ releaseAndRun(s) PROVE DelInv'
  <2>1. PICK l \in {"refused", "leased", "returned", "queued"} :
          Goto(s, l) /\ (l = "leased" => UNCHANGED stamp)
    BY <1>6 DEF acquireProjectStart, releaseStart, releaseAndRun, chainVars
  <2>2. /\ UNCHANGED <<deleting, gone, ids, row, startPrev>> /\ Held(s)
        /\ \/ pc[s] = "waiting" /\ StartReady(s)
           \/ pc[s] \in {"leased", "created"}
    BY <1>6 DEF acquireProjectStart, releaseStart, releaseAndRun, dbVars, delVars, Held, startVars, LeaveStarts
  <2>3. \A f \in Entries : f # s => stamp'[f] = stamp[f]
    BY <1>0, <1>6 DEF acquireProjectStart, releaseStart, releaseAndRun, Enqueue, chainVars, TypeOK
  <2>4. \A r \in Starts : Held(r) /\ r # s /\ StartProject(r) = StartProject(s) => stamp[s] < stamp[r]
    BY <2>2, <1>0, FirstStart
  <2>5. \/ Held(s) /\ l \in {"leased", "created"} /\ stamp' = stamp
        \/ /\ Held(s)
           /\ \A r \in Starts : Held(r) /\ r # s
                /\ StartProject(r) = StartProject(s) => stamp[s] < stamp[r]
           /\ l \notin {"waiting", "leased", "created"}
    BY <2>1, <2>2, <2>4
  <2> QED BY <2>1, <2>2, <2>3, <2>5, <1>1, <1>2
<1>7. ASSUME NEW s \in Starts, createTask(s) PROVE DelInv'
  <2>1. /\ Goto(s, "created") /\ UNCHANGED <<deleting, gone, ids, startPrev, stamp>>
        /\ Held(s) /\ row' = [row EXCEPT ![TaskOf[s]] = "live"]
    BY <1>7 DEF createTask, delVars, startVars, chainVars, Held
  <2>2. \A t \in Tasks : row'[t] # "none" => row[t] # "none" \/ TaskOf[s] = t
    BY <2>1, <1>0 DEF TypeOK
  <2> QED BY <2>1, <2>2, <1>1, <1>2
<1>8. ASSUME NEW d \in Deletes, deleteProject(d) PROVE DelInv'
  BY <1>8, <1>0, DelBegins
<1>9. ASSUME NEW d \in Deletes, DeleteList(d) \/ DeleteBarrier(d) \/ DeleteOperation(d)
                                  \/ DeleteClear(d) \/ DeleteReturns(d)
      PROVE  DelInv'
  BY <1>9, <1>0, DelDeleteStep
<1> QED BY <1>3, <1>4, <1>5, <1>6, <1>7, <1>8, <1>9, NextCases
\* Facts on the constants that every case needs.
LEMMA Kinds ==
  ASSUME ConstantsAssumption
  PROVE  /\ \A x \in Calls : x \in Entries /\ x \notin Deletes /\ TaskOf[x] \in Tasks /\ x # None
         /\ \A d \in Deletes : d \in Entries
         /\ \A x \in Runs \cup Cancels \cup Starts : x \in Calls
         /\ \A x \in Cancels : x \notin Starts /\ x \notin Runs
BY DEF Entries, Calls, ConstantsAssumption

\* A task row never disappears, and only a start that holds its lease makes
\* one live.
LEMMA RowStep ==
  ASSUME ConstantsAssumption, TypeOK, Next
  PROVE  \A t \in Tasks :
           /\ row[t] # "none" => row'[t] # "none"
           /\ row'[t] = "live" => row[t] = "live" \/ \E s \in Starts : createTask(s) /\ TaskOf[s] = t
<1> DEFINE P == \A t \in Tasks :
           /\ row[t] # "none" => row'[t] # "none"
           /\ row'[t] = "live" => row[t] = "live" \/ \E s \in Starts : createTask(s) /\ TaskOf[s] = t
<1>1. row' = row => P
  OBVIOUS
<1>2. ASSUME NEW x \in Calls, End(x) PROVE P
  <2>1. \A r \in Outcome(x) : /\ row[TaskOf[x]] # "none" => r # "none"
                              /\ r = "live" => row[TaskOf[x]] = "live"
    BY DEF Outcome
  <2> QED BY <2>1, <1>2 DEF End, TypeOK
<1>3. ASSUME NEW s \in Starts, createTask(s) PROVE P
  <2>1. row' = [row EXCEPT ![TaskOf[s]] = "live"]
    BY <1>3 DEF createTask
  <2> QED BY <2>1, <1>3 DEF TypeOK
<1>4. ASSUME NEW d \in Deletes, DeleteBarrier(d) \/ DeleteOperation(d) PROVE P
  <2>1. row' = row \/ \E b \in BOOLEAN : DeleteRows(d, b)
    BY <1>4 DEF DeleteBarrier, DeleteOperation, dbVars
  <2>2. ASSUME NEW b \in BOOLEAN, DeleteRows(d, b) PROVE P
    <3>1. row' = row \/ \A t \in Tasks : row'[t] = IF ProjectOf[t] = Deleted[d] /\ row[t] = "live"
                                                   THEN "abandoned" ELSE row[t]
      BY <2>2 DEF DeleteRows, dbVars
    <3> QED BY <3>1
  <2> QED BY <2>1, <2>2, <1>1
<1>5. ASSUME NEW x \in Runs, runTask(x) PROVE P
  BY <1>1, <1>5 DEF runTask, dbVars
<1>6. ASSUME NEW x \in Cancels, cancelTaskAndRun(x) PROVE P
  BY <1>1, <1>6 DEF cancelTaskAndRun, dbVars
<1>7. ASSUME NEW x \in Calls, Begin(x) \/ Settle(x) PROVE P
  BY <1>1, <1>7 DEF Begin, Settle, dbVars
<1>8. ASSUME NEW s \in Starts, requestStart(s) \/ acquireProjectStart(s) \/ releaseStart(s) \/ releaseAndRun(s)
      PROVE P
  BY <1>1, <1>8 DEF requestStart, acquireProjectStart, releaseStart, releaseAndRun, dbVars
<1>9. ASSUME NEW d \in Deletes, deleteProject(d) \/ DeleteList(d) \/ DeleteClear(d) \/ DeleteReturns(d)
      PROVE P
  BY <1>1, <1>9 DEF deleteProject, DeleteList, DeleteClear, DeleteReturns, dbVars
<1> HIDE DEF P
<1>10. P
  BY <1>2, <1>3, <1>4, <1>5, <1>6, <1>7, <1>8, <1>9, NextCases
<1> QED BY <1>10 DEF P

\* Steps after which the same calls run.
LEMMA RestSame ==
  ASSUME ConstantsAssumption, TypeOK, ClosedInv, RowInv, CancellationHasOwner, AbortedByLaterCall,
         \A t \in Tasks : row[t] # "none" => row'[t] # "none",
         NEW e \in Entries, NEW l, Goto(e, l),
         pc[e] \notin {"queued", "running"}, l \notin {"idle", "running"},
         pc[e] \in {"finished", "settled"} => l \in {"finished", "settled"},
         e \in Calls /\ l \in {"created", "queued"} => row'[TaskOf[e]] # "none",
         UNCHANGED <<controllers, pending, aborted>>,
         \A f \in Entries : stamp'[f] = stamp[f] \/ (f = e /\ pc[e] \in {"idle", "leased", "created", "listing"}),
         \A d \in Deletes : ids'[d] = ids[d] \/ (d = e /\ pc[d] = "awaitStarts")
  PROVE  RowInv' /\ CancellationHasOwner' /\ AbortedByLaterCall'
<1>0. \A f \in Entries : pc'[f] = IF f = e THEN l ELSE pc[f]
  BY DEF TypeOK, Goto
<1>1. RowInv'
  <2>1. ASSUME NEW x \in Calls, pc'[x] \in {"created", "queued", "running"} PROVE row'[TaskOf[x]] # "none"
    BY <1>0, <2>1, Kinds DEF RowInv
  <2>2. ASSUME NEW t \in Tasks, controllers'[t] # None
        PROVE  TaskOf[controllers'[t]] = t /\ pc'[controllers'[t]] = "running"
    <3>1. controllers[t] \in Entries /\ TaskOf[controllers[t]] = t /\ pc[controllers[t]] = "running"
      BY <2>2, Kinds DEF RowInv, TypeOK
    <3> QED BY <3>1, <1>0
  <2>3. ASSUME NEW x \in aborted' PROVE pc'[x] \in {"running", "finished", "settled"}
    <3>1. x \in aborted /\ x \in Entries
      BY <2>3, Kinds DEF TypeOK
    <3> QED BY <3>1, <1>0 DEF RowInv
  <2> QED BY <2>1, <2>2, <2>3 DEF RowInv
<1>2. CancellationHasOwner'
  <2> SUFFICES ASSUME NEW t \in pending PROVE \E c \in Cancels : TaskOf[c] = t /\ pc'[c] = "queued"
    BY DEF CancellationHasOwner
  <2>1. PICK c \in Cancels : TaskOf[c] = t /\ pc[c] = "queued"
    BY DEF CancellationHasOwner
  <2> QED BY <2>1, <1>0, Kinds
<1>3. AbortedByLaterCall'
  <2> SUFFICES ASSUME NEW x \in aborted
               PROVE  \/ \E c \in Cancels : TaskOf[c] = TaskOf[x] /\ pc'[c] # "idle" /\ stamp'[x] <= stamp'[c]
                      \/ \E d \in Deletes : TaskOf[x] \in ids'[d]
    BY DEF AbortedByLaterCall
  <2>1. /\ x \in Entries /\ pc[x] \in {"running", "finished", "settled"}
        /\ stamp'[x] = stamp[x]
    BY Kinds DEF TypeOK, RowInv
  <2>2. ASSUME NEW d \in Deletes, TaskOf[x] \in ids[d] PROVE TaskOf[x] \in ids'[d]
    BY <2>2 DEF ClosedInv
  <2>3. ASSUME NEW c \in Cancels, TaskOf[c] = TaskOf[x], pc[c] # "idle", stamp[x] <= stamp[c]
        PROVE  TaskOf[c] = TaskOf[x] /\ pc'[c] # "idle" /\ stamp'[x] <= stamp'[c]
    <3>1. c \in Entries /\ pc[c] \in CallLabels
      BY Kinds DEF TypeOK
    <3>2. pc[c] \notin {"idle", "leased", "created", "listing"}
      BY <2>3, <3>1 DEF CallLabels
    <3> QED BY <2>1, <2>3, <3>1, <3>2, <1>0
  <2> QED BY <2>2, <2>3 DEF AbortedByLaterCall
<1> QED BY <1>1, <1>2, <1>3

\* Cancellations and the abortion of calls.
RestInv == RowInv /\ CancellationHasOwner /\ AbortedByLaterCall /\ NoOrphanTask

LEMMA NoOrphanStep ==
  ASSUME ConstantsAssumption, IInv, Next PROVE NoOrphanTask'
<1>0. TypeOK /\ MarkInv /\ ClosedInv /\ NoOrphanTask
  BY DEF IInv
<1> SUFFICES ASSUME NEW t \in Tasks, row'[t] = "live" PROVE ProjectOf[t] \notin gone'
  BY DEF NoOrphanTask
<1>1. row[t] = "live" \/ \E s \in Starts : createTask(s) /\ TaskOf[s] = t
  BY <1>0, RowStep
<1>2. CASE gone' = gone
  <2>1. CASE row[t] = "live"
    BY <1>0, <1>2, <2>1 DEF NoOrphanTask
  <2>2. CASE \E s \in Starts : createTask(s) /\ TaskOf[s] = t
    <3>1. PICK s \in Starts : createTask(s) /\ TaskOf[s] = t
      BY <2>2
    <3>2. Held(s) /\ StartProject(s) = ProjectOf[t]
      BY <3>1 DEF Held, StartProject, createTask
    <3>3. \A d \in Deletes : pc[d] \in {"ran", "cleared", "done"} => Deleted[d] # ProjectOf[t]
      BY <3>2, <1>0 DEF ClosedInv, Deleting
    <3> QED BY <3>3, <1>2, <1>0 DEF MarkInv
  <2> QED BY <1>1, <2>1, <2>2
<1>3. ASSUME NEW d \in Deletes, NEW b \in BOOLEAN, DeleteRows(d, b) PROVE ProjectOf[t] \notin gone'
  <2>1. CASE b
    <3>1. row[t] = "live" /\ ProjectOf[t] # Deleted[d] /\ gone' = gone \cup {Deleted[d]}
      BY <1>3, <2>1 DEF DeleteRows
    <3> QED BY <3>1, <1>0 DEF NoOrphanTask
  <2>2. CASE ~b
    BY <1>3, <2>2, <1>0 DEF DeleteRows, dbVars, NoOrphanTask
  <2> QED BY <2>1, <2>2
<1>4. gone' = gone \/ \E d \in Deletes, b \in BOOLEAN : DeleteRows(d, b)
  <2> DEFINE P == gone' = gone \/ \E d \in Deletes, b \in BOOLEAN : DeleteRows(d, b)
  <2>1. \A x \in Runs : runTask(x) => P
    BY DEF runTask, dbVars
  <2>2. \A x \in Cancels : cancelTaskAndRun(x) => P
    BY DEF cancelTaskAndRun, dbVars
  <2>3. \A x \in Calls : Begin(x) \/ End(x) \/ Settle(x) => P
    BY DEF Begin, End, Settle, dbVars
  <2>4. \A s \in Starts : requestStart(s) \/ acquireProjectStart(s) \/ createTask(s)
                          \/ releaseStart(s) \/ releaseAndRun(s) => P
    BY DEF requestStart, acquireProjectStart, createTask, releaseStart, releaseAndRun, dbVars
  <2>5. \A d \in Deletes : deleteProject(d) \/ DeleteList(d) \/ DeleteBarrier(d)
                          \/ DeleteOperation(d) \/ DeleteClear(d) \/ DeleteReturns(d) => P
    BY DEF deleteProject, DeleteList, DeleteBarrier, DeleteOperation, DeleteClear, DeleteReturns, dbVars
  <2> HIDE DEF P
  <2>6. P
    BY <2>1, <2>2, <2>3, <2>4, <2>5, NextCases
  <2> QED BY <2>6 DEF P
<1> QED BY <1>2, <1>3, <1>4

LEMMA CancelRest ==
  ASSUME ConstantsAssumption, IInv, NEW x \in Cancels, cancelTaskAndRun(x)
  PROVE  RowInv' /\ CancellationHasOwner' /\ AbortedByLaterCall'
<1> DEFINE t == TaskOf[x]
<1>0. TypeOK /\ StampInv /\ RowInv /\ ClosedInv /\ CancellationHasOwner /\ AbortedByLaterCall
  BY DEF IInv
<1>1. /\ x \in Calls /\ x \in Entries /\ t \in Tasks /\ pc[x] = "idle" /\ row[t] # "none"
      /\ UNCHANGED <<row, controllers, ids>>
  BY Kinds DEF cancelTaskAndRun, dbVars, delVars
<1>2. /\ \A f \in Entries : pc'[f] = IF f = x THEN "queued" ELSE pc[f]
      /\ \A f \in Entries : stamp'[f] = IF f = x THEN clock + 1 ELSE stamp[f]
  BY <1>0, <1>1 DEF TypeOK, Goto, Enqueue, cancelTaskAndRun
<1>3. \A y \in aborted' : y \in aborted \/ (y \in Calls /\ TaskOf[y] = t /\ pc[y] = "running")
  BY <1>0, <1>1, Kinds DEF cancelTaskAndRun, RowInv, TypeOK
<1>4. \A u \in pending' : u \in pending \/ u = t
  BY DEF cancelTaskAndRun
<1>5. RowInv'
  <2>1. \A y \in Calls : pc'[y] \in {"created", "queued", "running"} => row'[TaskOf[y]] # "none"
    BY <1>0, <1>1, <1>2, Kinds DEF RowInv
  <2>2. ASSUME NEW u \in Tasks, controllers'[u] # None
        PROVE  TaskOf[controllers'[u]] = u /\ pc'[controllers'[u]] = "running"
    <3>1. controllers[u] \in Entries /\ TaskOf[controllers[u]] = u /\ pc[controllers[u]] = "running"
      BY <2>2, <1>0, <1>1, Kinds DEF RowInv, TypeOK
    <3> QED BY <3>1, <1>1, <1>2
  <2>3. ASSUME NEW y \in aborted' PROVE pc'[y] \in {"running", "finished", "settled"}
    <3>1. y \in Entries /\ pc[y] \in {"running", "finished", "settled"}
      BY <2>3, <1>0, <1>3, Kinds DEF RowInv, TypeOK
    <3> QED BY <3>1, <1>1, <1>2
  <2> QED BY <2>1, <2>2, <2>3 DEF RowInv
<1>6. CancellationHasOwner'
  <2> SUFFICES ASSUME NEW u \in pending' PROVE \E c \in Cancels : TaskOf[c] = u /\ pc'[c] = "queued"
    BY DEF CancellationHasOwner
  <2>1. CASE u \in pending
    <3>1. PICK c \in Cancels : TaskOf[c] = u /\ pc[c] = "queued"
      BY <2>1, <1>0 DEF CancellationHasOwner
    <3> QED BY <3>1, <1>2, Kinds
  <2>2. CASE u = t
    BY <2>2, <1>1, <1>2
  <2> QED BY <2>1, <2>2, <1>4
<1>7. AbortedByLaterCall'
  <2> SUFFICES ASSUME NEW y \in aborted'
               PROVE  \/ \E c \in Cancels : TaskOf[c] = TaskOf[y] /\ pc'[c] # "idle" /\ stamp'[y] <= stamp'[c]
                      \/ \E d \in Deletes : TaskOf[y] \in ids'[d]
    BY DEF AbortedByLaterCall
  <2>1. y \in Entries /\ y # x /\ stamp'[y] = stamp[y] /\ stamp[y] \in Nat /\ stamp[y] <= clock /\ clock \in Nat
    BY <1>0, <1>1, <1>2, <1>3, Kinds DEF RowInv, TypeOK, StampInv
  <2>2. CASE y \in aborted
    <3>1. CASE \E d \in Deletes : TaskOf[y] \in ids[d]
      BY <3>1, <1>1
    <3>2. CASE \E c \in Cancels : TaskOf[c] = TaskOf[y] /\ pc[c] # "idle" /\ stamp[y] <= stamp[c]
      <4>1. PICK c \in Cancels : TaskOf[c] = TaskOf[y] /\ pc[c] # "idle" /\ stamp[y] <= stamp[c]
        BY <3>2
      <4>2. c \in Entries /\ c # x
        BY <4>1, <1>1, Kinds
      <4>3. pc'[c] = pc[c] /\ stamp'[c] = stamp[c]
        BY <4>2, <1>2
      <4> QED BY <4>1, <4>3, <2>1
    <3> QED BY <2>2, <3>1, <3>2, <1>0 DEF AbortedByLaterCall
  <2>3. CASE TaskOf[y] = t
    <3>1. pc'[x] # "idle" /\ stamp'[x] = clock + 1
      BY <1>1, <1>2
    <3> QED BY <3>1, <2>1, <2>3
  <2> QED BY <2>2, <2>3, <1>3
<1> QED BY <1>5, <1>6, <1>7

LEMMA BeginRest ==
  ASSUME ConstantsAssumption, IInv, OrderInv', NEW x \in Calls, Begin(x)
  PROVE  RowInv' /\ CancellationHasOwner' /\ AbortedByLaterCall'
<1> DEFINE t == TaskOf[x]
<1>0. TypeOK /\ RowInv /\ CancellationHasOwner /\ AbortedByLaterCall
  BY DEF IInv
<1>1. /\ x \in Entries /\ t \in Tasks /\ pc[x] = "queued"
      /\ UNCHANGED <<row, ids, stamp>> /\ pending' = pending \ {t}
  BY Kinds DEF Begin, dbVars, delVars, chainVars
<1>2. /\ \A f \in Entries : pc'[f] = IF f = x THEN "running" ELSE pc[f]
      /\ \A u \in Tasks : controllers'[u] = IF u = t THEN x ELSE controllers[u]
  BY <1>0, <1>1 DEF TypeOK, Goto, Begin
<1>3. \A y \in aborted' : y \in aborted \/ (y = x /\ t \in pending)
  BY DEF Begin
<1>4. \A y \in Calls : Covers(y)' = {TaskOf[y]}
  BY Kinds DEF Covers
<1>5. RowInv'
  <2>1. \A y \in Calls : pc'[y] \in {"created", "queued", "running"} => row'[TaskOf[y]] # "none"
    BY <1>0, <1>1, <1>2, Kinds DEF RowInv
  <2>2. ASSUME NEW u \in Tasks, controllers'[u] # None
        PROVE  TaskOf[controllers'[u]] = u /\ pc'[controllers'[u]] = "running"
    <3>1. CASE u = t
      BY <3>1, <1>1, <1>2
    <3>2. CASE u # t
      <4>1. controllers[u] \in Entries /\ TaskOf[controllers[u]] = u /\ pc[controllers[u]] = "running"
        BY <2>2, <3>2, <1>0, <1>2, Kinds DEF RowInv, TypeOK
      <4> QED BY <3>2, <4>1, <1>2
    <3> QED BY <3>1, <3>2
  <2>3. ASSUME NEW y \in aborted' PROVE pc'[y] \in {"running", "finished", "settled"}
    <3>1. y \in Entries /\ (y = x \/ pc[y] \in {"running", "finished", "settled"})
      BY <2>3, <1>0, <1>1, <1>3, Kinds DEF RowInv, TypeOK
    <3> QED BY <3>1, <1>2
  <2> QED BY <2>1, <2>2, <2>3 DEF RowInv
<1>6. CancellationHasOwner'
  <2> SUFFICES ASSUME NEW u \in pending, u # t PROVE \E c \in Cancels : TaskOf[c] = u /\ pc'[c] = "queued"
    BY <1>1 DEF CancellationHasOwner
  <2>1. PICK c \in Cancels : TaskOf[c] = u /\ pc[c] = "queued"
    BY <1>0 DEF CancellationHasOwner
  <2> QED BY <2>1, <1>2, Kinds
<1>7. AbortedByLaterCall'
  <2> SUFFICES ASSUME NEW y \in aborted'
               PROVE  \/ \E c \in Cancels : TaskOf[c] = TaskOf[y] /\ pc'[c] # "idle" /\ stamp'[y] <= stamp'[c]
                      \/ \E d \in Deletes : TaskOf[y] \in ids'[d]
    BY DEF AbortedByLaterCall
  <2>1. \A c \in Cancels : pc[c] # "idle" => pc'[c] # "idle"
    BY <1>2, Kinds
  <2>2. CASE y \in aborted
    BY <2>1, <2>2, <1>0, <1>1 DEF AbortedByLaterCall
  <2>3. CASE y = x /\ t \in pending
    <3>1. PICK c \in Cancels : TaskOf[c] = t /\ pc[c] = "queued"
      BY <2>3, <1>0 DEF CancellationHasOwner
    <3>2. c \in Calls /\ c \in Entries /\ stamp'[c] \in Nat /\ stamp'[x] \in Nat
      BY <1>0, <1>1, Kinds DEF TypeOK
    <3>3. CASE c = x
      BY <2>1, <2>3, <3>1, <3>2, <3>3
    <3>4. CASE c # x
      <4>1. Working(x)' /\ Unsettled(c)'
        BY <1>1, <1>2, <3>1, <3>2, <3>4 DEF Working, Unsettled
      <4>2. t \in Covers(x)' \cap Covers(c)'
        BY <1>4, <3>1, <3>2
      <4>3. stamp'[x] < stamp'[c]
        BY <4>1, <4>2, <1>1, <3>2, <3>4 DEF OrderInv, InCallOrder
      <4> QED BY <2>1, <2>3, <3>1, <3>2, <4>3
    <3> QED BY <3>3, <3>4
  <2> QED BY <2>2, <2>3, <1>3
<1> QED BY <1>5, <1>6, <1>7
LEMMA EndRest ==
  ASSUME ConstantsAssumption, IInv, NEW x \in Calls, End(x),
         \A t \in Tasks : row[t] # "none" => row'[t] # "none"
  PROVE  RowInv' /\ CancellationHasOwner' /\ AbortedByLaterCall'
<1> DEFINE t == TaskOf[x]
<1>0. TypeOK /\ RowInv /\ CancellationHasOwner /\ AbortedByLaterCall
  BY DEF IInv
<1>1. /\ x \in Entries /\ t \in Tasks /\ pc[x] = "running"
      /\ UNCHANGED <<ids, stamp, pending, aborted>>
  BY Kinds DEF End, delVars, chainVars
<1>2. /\ \A f \in Entries : pc'[f] = IF f = x THEN "finished" ELSE pc[f]
      /\ \A u \in Tasks : controllers'[u] = IF u = t /\ controllers[t] = x THEN None ELSE controllers[u]
  BY <1>0, <1>1 DEF TypeOK, Goto, End
<1>3. RowInv'
  <2>1. \A y \in Calls : pc'[y] \in {"created", "queued", "running"} => row'[TaskOf[y]] # "none"
    BY <1>0, <1>2, Kinds DEF RowInv
  <2>2. ASSUME NEW u \in Tasks, controllers'[u] # None
        PROVE  TaskOf[controllers'[u]] = u /\ pc'[controllers'[u]] = "running"
    <3>1. controllers'[u] = controllers[u]
      BY <2>2, <1>2
    <3>2. controllers[u] \in Entries /\ TaskOf[controllers[u]] = u /\ pc[controllers[u]] = "running"
      BY <2>2, <3>1, <1>0, Kinds DEF RowInv, TypeOK
    <3>3. controllers[u] # x
      BY <2>2, <3>2, <1>2
    <3> QED BY <3>1, <3>2, <3>3, <1>2
  <2>3. ASSUME NEW y \in aborted' PROVE pc'[y] \in {"running", "finished", "settled"}
    <3>1. y \in Entries /\ pc[y] \in {"running", "finished", "settled"}
      BY <2>3, <1>0, <1>1, Kinds DEF RowInv, TypeOK
    <3> QED BY <3>1, <1>2
  <2> QED BY <2>1, <2>2, <2>3 DEF RowInv
<1>4. CancellationHasOwner'
  <2> SUFFICES ASSUME NEW u \in pending PROVE \E c \in Cancels : TaskOf[c] = u /\ pc'[c] = "queued"
    BY <1>1 DEF CancellationHasOwner
  <2>1. PICK c \in Cancels : TaskOf[c] = u /\ pc[c] = "queued"
    BY <1>0 DEF CancellationHasOwner
  <2> QED BY <2>1, <1>1, <1>2, Kinds
<1>5. AbortedByLaterCall'
  <2>1. \A c \in Cancels : pc[c] # "idle" => pc'[c] # "idle"
    BY <1>2, Kinds
  <2> QED BY <2>1, <1>0, <1>1 DEF AbortedByLaterCall
<1> QED BY <1>3, <1>4, <1>5

LEMMA BarrierRest ==
  ASSUME ConstantsAssumption, IInv, NEW d \in Deletes, DeleteBarrier(d),
         \A t \in Tasks : row[t] # "none" => row'[t] # "none"
  PROVE  RowInv' /\ CancellationHasOwner' /\ AbortedByLaterCall'
<1>0. TypeOK /\ RowInv /\ CancellationHasOwner /\ AbortedByLaterCall
  BY DEF IInv
<1>1. PICK l \in {"barrier", "cleared", "rejected"} : Goto(d, l)
  BY DEF DeleteBarrier
<1>2. /\ d \in Entries /\ pc[d] = "listing" /\ UNCHANGED <<ids, controllers, pending>>
      /\ \A x \in Calls : x # d
  BY Kinds DEF DeleteBarrier, delVars
<1>3. /\ \A x \in Calls : pc'[x] = pc[x]
      /\ \A x \in Calls : stamp'[x] = stamp[x]
  BY <1>0, <1>1, <1>2, Kinds DEF TypeOK, Goto, DeleteBarrier, Enqueue, chainVars
<1>4. \A x \in aborted' : x \in aborted \/ \E t \in ids[d] : x = controllers[t] /\ x # None
  BY DEF DeleteBarrier, RunningFor
<1>5. \A x \in aborted' : /\ x \in Calls /\ pc[x] \in {"running", "finished", "settled"}
                          /\ x \in aborted \/ TaskOf[x] \in ids[d]
  BY <1>0, <1>2, <1>4 DEF TypeOK, RowInv
<1>6. RowInv'
  <2>1. \A y \in Calls : pc'[y] \in {"created", "queued", "running"} => row'[TaskOf[y]] # "none"
    BY <1>0, <1>3, Kinds DEF RowInv
  <2>2. \A t \in Tasks : controllers'[t] # None
          => TaskOf[controllers'[t]] = t /\ pc'[controllers'[t]] = "running"
    BY <1>0, <1>2, <1>3 DEF RowInv, TypeOK
  <2>3. \A x \in aborted' : pc'[x] \in {"running", "finished", "settled"}
    BY <1>3, <1>5
  <2> QED BY <2>1, <2>2, <2>3 DEF RowInv
<1>7. CancellationHasOwner'
  BY <1>0, <1>2, <1>3, Kinds DEF CancellationHasOwner
<1>8. AbortedByLaterCall'
  <2>1. \A c \in Cancels : pc'[c] = pc[c] /\ stamp'[c] = stamp[c]
    BY <1>3, Kinds
  <2> QED BY <2>1, <1>0, <1>2, <1>3, <1>5 DEF AbortedByLaterCall
<1> QED BY <1>6, <1>7, <1>8

LEMMA RestStep ==
  ASSUME ConstantsAssumption, IInv, Next PROVE RestInv'
<1> DEFINE P == RowInv' /\ CancellationHasOwner' /\ AbortedByLaterCall'
<1>0. TypeOK /\ ClosedInv /\ RowInv /\ CancellationHasOwner /\ AbortedByLaterCall
  BY DEF IInv
<1>1. \A t \in Tasks : row[t] # "none" => row'[t] # "none"
  BY <1>0, RowStep
<1>2. ASSUME NEW x \in Runs, runTask(x) PROVE P
  <2>1. /\ x \in Entries /\ x \in Calls /\ Goto(x, "queued") /\ pc[x] = "idle"
        /\ row[TaskOf[x]] # "none" /\ UNCHANGED <<controllers, pending, aborted, ids>>
        /\ TaskOf[x] \in Tasks
    BY <1>2, Kinds DEF runTask, abortVars, delVars
  <2>2. \A f \in Entries : stamp'[f] = stamp[f] \/ f = x
    BY <1>2, <1>0 DEF runTask, Enqueue, TypeOK
  <2> QED BY <2>1, <2>2, <1>0, <1>1, RestSame
<1>3. ASSUME NEW x \in Cancels, cancelTaskAndRun(x) PROVE P
  BY <1>3, CancelRest
<1>4. ASSUME NEW x \in Calls, Begin(x) PROVE P
  <2>1. OrderInv'
    BY ChainStep DEF ChainInv
  <2> QED BY <1>4, <2>1, BeginRest
<1>5. ASSUME NEW x \in Calls, End(x) PROVE P
  BY <1>1, <1>5, EndRest
<1>6. ASSUME NEW x \in Calls, Settle(x) PROVE P
  <2>1. /\ x \in Entries /\ Goto(x, "settled") /\ pc[x] = "finished"
        /\ UNCHANGED <<controllers, pending, aborted, ids, stamp>>
    BY <1>6, Kinds DEF Settle, abortVars, delVars, Leave
  <2> QED BY <2>1, <1>0, <1>1, RestSame
<1>7. ASSUME NEW s \in Starts, requestStart(s) \/ acquireProjectStart(s) PROVE P
  <2>1. PICK l \in {"refused", "waiting", "leased"} : Goto(s, l)
    BY <1>7 DEF requestStart, acquireProjectStart
  <2>2. /\ s \in Entries /\ pc[s] \in {"idle", "waiting"}
        /\ UNCHANGED <<controllers, pending, aborted, ids>>
    BY <1>7, Kinds DEF requestStart, acquireProjectStart, abortVars, delVars
  <2>3. \A f \in Entries : stamp'[f] = stamp[f] \/ (f = s /\ pc[s] = "idle")
    BY <1>7, <1>0 DEF requestStart, acquireProjectStart, JoinStarts, chainVars, TypeOK
  <2> QED BY <2>1, <2>2, <2>3, <1>0, <1>1, RestSame
<1>8. ASSUME NEW s \in Starts, createTask(s) PROVE P
  <2>1. /\ s \in Entries /\ Goto(s, "created") /\ pc[s] = "leased" /\ TaskOf[s] \in Tasks
        /\ UNCHANGED <<controllers, pending, aborted, ids, stamp>>
        /\ row' = [row EXCEPT ![TaskOf[s]] = "live"]
    BY <1>8, Kinds DEF createTask, abortVars, delVars, chainVars
  <2>2. row'[TaskOf[s]] # "none"
    BY <2>1, <1>0 DEF TypeOK
  <2> QED BY <2>1, <2>2, <1>0, <1>1, RestSame
<1>9. ASSUME NEW s \in Starts, releaseStart(s) \/ releaseAndRun(s) PROVE P
  <2>1. PICK l \in {"returned", "queued"} : Goto(s, l) /\ (l = "queued" => pc[s] = "created")
    BY <1>9 DEF releaseStart, releaseAndRun
  <2>2. /\ s \in Entries /\ s \in Calls /\ TaskOf[s] \in Tasks /\ pc[s] \in {"leased", "created"}
        /\ UNCHANGED <<controllers, pending, aborted, ids>>
    BY <1>9, Kinds DEF releaseStart, releaseAndRun, abortVars, delVars
  <2>3. \A f \in Entries : stamp'[f] = stamp[f] \/ f = s
    BY <1>9, <1>0 DEF releaseStart, releaseAndRun, Enqueue, chainVars, TypeOK
  <2>4. l = "queued" => row'[TaskOf[s]] # "none"
    BY <2>1, <2>2, <1>0, <1>1 DEF RowInv
  <2> QED BY <2>1, <2>2, <2>3, <2>4, <1>0, <1>1, RestSame
<1>10. ASSUME NEW d \in Deletes, DeleteBarrier(d) PROVE P
  BY <1>1, <1>10, BarrierRest
<1>11. ASSUME NEW d \in Deletes, deleteProject(d) \/ DeleteList(d) \/ DeleteOperation(d)
                                   \/ DeleteClear(d) \/ DeleteReturns(d)
       PROVE P
  <2>1. PICK l \in {"refused", "awaitStarts", "listing", "ran", "threw", "cleared", "rejected", "done", "failed"} :
          Goto(d, l)
    BY <1>11 DEF deleteProject, DeleteList, DeleteOperation, DeleteClear, DeleteReturns
  <2>2. /\ d \in Entries /\ d \notin Calls /\ UNCHANGED <<controllers, pending, aborted, stamp>>
        /\ pc[d] \notin {"queued", "running", "finished", "settled"}
    BY <1>11, Kinds DEF deleteProject, DeleteList, DeleteOperation, DeleteClear, DeleteReturns,
                        abortVars, chainVars, Leave
  <2>3. \A c \in Deletes : ids'[c] = ids[c] \/ (c = d /\ pc[d] = "awaitStarts")
    BY <1>11, <1>0 DEF deleteProject, DeleteList, DeleteOperation, DeleteClear, DeleteReturns,
                       delVars, TypeOK
  <2> QED BY <2>1, <2>2, <2>3, <1>0, <1>1, RestSame
<1> HIDE DEF P
<1>12. P
  BY <1>2, <1>3, <1>4, <1>5, <1>6, <1>7, <1>8, <1>9, <1>10, <1>11, NextCases
<1> QED BY <1>12, NoOrphanStep DEF RestInv, P

LEMMA StepIInv == ConstantsAssumption /\ IInv /\ [Next]_vars => IInv'
<1> SUFFICES ASSUME ConstantsAssumption, IInv, [Next]_vars PROVE IInv'
  OBVIOUS
<1>1. CASE UNCHANGED vars
  <2>1. UNCHANGED <<row, gone, pc, taskTails, prev, controllers, pending, aborted, deletedTaskIds,
                    startTails, startPrev, deleting, ids, clock, stamp>>
    BY <1>1 DEF vars, dbVars, chainVars, abortVars, startVars, delVars
  <2> QED BY <2>1 DEF IInv, TypeOK, StampInv, DistinctInv, TailInv, PrevInv, OrderInv, InCallOrder,
                 StartTailInv, StartPrevInv, LeaseInv, MarkInv, WaitInv, ClosedInv, RowInv,
                 CancellationHasOwner, AbortedByLaterCall, NoOrphanTask, Placed, Held, Unsettled,
                 Working, Resolved, Covers, StartProject, Deleting
<1>2. CASE Next
  <2>1. TypeOK'
    BY Typing DEF IInv
  <2>2. ChainInv' /\ StartChainInv' /\ DelInv' /\ RestInv'
    BY <1>2, ChainStep, StartChainStep, DelStep, RestStep
  <2> QED BY <2>1, <2>2 DEF IInv, ChainInv, StartChainInv, DelInv, RestInv
<1> QED BY <1>1, <1>2

LEMMA Invariance == Spec => []IInv
<1>1. Init => IInv
  BY InitIInv
<1>2. IInv /\ [Next]_vars => IInv'
  BY StepIInv, ConstantsAssumption
<1> QED BY <1>1, <1>2, PTL DEF Spec

-----------------------------------------------------------------------------
(* The theorems.                                                           *)

\* Every variable keeps its type, and every call stays within the labels of
\* its kind (class TaskLifecycleCoordinator).
THEOREM TypeCorrect == Spec => []TypeOK
<1>1. IInv => TypeOK
  BY DEF IInv
<1> QED BY <1>1, Invariance, PTL

\* Operations on a task never overlap and run in the order of the calls of
\* runTask, cancelTaskAndRun and deleteProject.
THEOREM CallOrder == Spec => []InCallOrder
<1>1. IInv => InCallOrder
  BY DEF IInv, OrderInv
<1> QED BY <1>1, Invariance, PTL

\* No operation runs for a task of a project while deleteProject removes its
\* rows.
THEOREM DeletionAlone == Spec => []DeletionRunsAlone
<1>1. ASSUME IInv PROVE DeletionRunsAlone
  <2> SUFFICES ASSUME NEW d \in Deletes, NEW x \in Calls, pc[d] \in {"ran", "threw"},
                      ProjectOf[TaskOf[x]] = Deleted[d], pc[x] = "running"
               PROVE  FALSE
    BY DEF DeletionRunsAlone
  <2>1. TypeOK /\ ClosedInv /\ RowInv /\ InCallOrder
    BY <1>1 DEF IInv, OrderInv
  <2>2. x \in Entries /\ d \in Entries /\ x # d /\ TaskOf[x] \in Tasks
    BY ConstantsAssumption, Kinds
  <2>3. TaskOf[x] \in ids[d]
    BY <2>1, <2>2 DEF RowInv, ClosedInv
  <2>4. TaskOf[x] \in Covers(x) \cap Covers(d)
    BY <2>3, ConstantsAssumption, Kinds DEF Covers
  <2>5. Working(x) /\ Working(d) /\ Unsettled(x) /\ Unsettled(d)
    BY DEF Working, Unsettled
  <2>6. stamp[x] < stamp[d] /\ stamp[d] < stamp[x]
    BY <2>1, <2>2, <2>4, <2>5 DEF InCallOrder
  <2> QED BY <2>1, <2>2, <2>6 DEF TypeOK
<1> QED BY <1>1, Invariance, PTL

\* One start at a time holds the lease of a project between
\* acquireProjectStart and the call of its release.
THEOREM OneLeaseHolds == Spec => []OneLease
<1>1. ASSUME IInv PROVE OneLease
  <2> SUFFICES ASSUME NEW r \in Starts, NEW s \in Starts, r # s,
                      pc[r] \in {"leased", "created"}, pc[s] \in {"leased", "created"},
                      ProjectOf[TaskOf[r]] = ProjectOf[TaskOf[s]]
               PROVE  FALSE
    BY DEF OneLease
  <2>1. Held(r) /\ Held(s) /\ StartProject(r) = StartProject(s)
    BY DEF Held, StartProject
  <2>2. stamp[r] < stamp[s] /\ stamp[s] < stamp[r]
    BY <1>1, <2>1 DEF IInv, LeaseInv
  <2>3. stamp[r] \in Nat /\ stamp[s] \in Nat
    BY <1>1, ConstantsAssumption, Kinds DEF IInv, TypeOK
  <2> QED BY <2>2, <2>3
<1> QED BY <1>1, Invariance, PTL

\* No task of a deleted project is live: the transaction of deleteProject
\* abandons every one, and no start creates another.
THEOREM NoOrphans == Spec => []NoOrphanTask
<1>1. IInv => NoOrphanTask
  BY DEF IInv
<1> QED BY <1>1, Invariance, PTL

\* pendingTaskCancellations never reaches a call made after the cancelling
\* call has begun.
THEOREM CancellationOwned == Spec => []CancellationHasOwner
<1>1. IInv => CancellationHasOwner
  BY DEF IInv
<1> QED BY <1>1, Invariance, PTL

\* Only a later cancellation of the task, or the deletion of its project,
\* aborts the signal of a call.
THEOREM AbortedLater == Spec => []AbortedByLaterCall
<1>1. IInv => AbortedByLaterCall
  BY DEF IInv
<1> QED BY <1>1, Invariance, PTL

-----------------------------------------------------------------------------
(* The coordinator implements SerializedTasks.                             *)

\* The phase of a call, by its label.
LEMMA PhaseOf ==
  ASSUME NEW e \in Entries
  PROVE  /\ pc[e] \in {"idle", "waiting", "leased", "created", "awaitStarts", "listing"}
              => Phase(e) = "out" /\ ~Unsettled(e)
         /\ pc[e] \in {"queued", "barrier"} => Phase(e) = "waiting" /\ Unsettled(e) /\ ~Working(e)
         /\ Working(e) => Phase(e) = "inside" /\ Unsettled(e)
         /\ pc[e] \in {"settled", "refused", "returned", "cleared", "rejected", "done", "failed"}
              => Phase(e) = "over" /\ ~Unsettled(e)
         /\ Unsettled(e) <=> Phase(e) \in {"waiting", "inside"}
BY DEF Phase, Unsettled, Working

\* A call that joins the chains of its tasks is behind every call that has
\* joined one of them, and nobody is behind it.
LEMMA SerialJoin ==
  ASSUME ConstantsAssumption, TypeOK, StampInv, NEW e \in Entries, NEW l \in {"queued", "barrier"},
         Enqueue(e, Covers(e)), Covers(e) \subseteq Tasks, Phase(e) = "out", Goto(e, l), ids' = ids
  PROVE  Serial!Join(e, Covers(e))
<1>1. /\ \A f \in Entries : pc'[f] = IF f = e THEN l ELSE pc[f]
      /\ \A f \in Entries : Covers(f)' = Covers(f)
      /\ \A f \in Entries : stamp'[f] = IF f = e THEN clock + 1 ELSE stamp[f]
      /\ clock \in Nat /\ \A f \in Entries : stamp[f] \in Nat
  BY DEF TypeOK, Goto, Enqueue, Covers
<1>2. /\ \A f \in Entries : Phase(f)' = IF f = e THEN "waiting" ELSE Phase(f)
      /\ \A f \in Entries : Unsettled(f)' <=> (f = e \/ Unsettled(f))
      /\ ~Unsettled(e)
  BY <1>1 DEF Phase, Unsettled, Working
<1>3. /\ \A f \in Entries : Joined(f)' = IF f = e THEN Covers(e) ELSE Joined(f)
      /\ Joined(e) = {}
  BY <1>1, <1>2 DEF Joined
<1>4. \A f \in Entries : stamp[f] < stamp'[e]
  BY <1>1 DEF StampInv
<1>5. \A f \in Entries \ {e} : Ahead(f)' = Ahead(f)
  <2> SUFFICES ASSUME NEW f \in Entries \ {e}, NEW g \in Entries
               PROVE  /\ Joined(f)' \cap Joined(g)' # {} /\ stamp'[g] < stamp'[f]
                      <=> Joined(f) \cap Joined(g) # {} /\ stamp[g] < stamp[f]
    BY DEF Ahead
  <2>1. CASE g = e
    <3>1. stamp'[f] < stamp'[e] /\ stamp'[f] \in Nat /\ stamp'[e] \in Nat
      BY <1>1, <1>4
    <3> QED BY <2>1, <3>1, <1>3
  <2>2. CASE g # e
    BY <2>2, <1>1, <1>3
  <2> QED BY <2>1, <2>2
<1>6. Ahead(e)' = {f \in Entries : Unsettled(f) /\ Joined(f) \cap Covers(e) # {}}
  <2> SUFFICES ASSUME NEW g \in Entries
               PROVE  Joined(e)' \cap Joined(g)' # {} /\ stamp'[g] < stamp'[e]
                      <=> Unsettled(g) /\ Joined(g) \cap Covers(e) # {}
    BY DEF Ahead
  <2>1. CASE g = e
    BY <2>1, <1>1, <1>2
  <2>2. CASE g # e
    <3>1. Joined(e)' = Covers(e) /\ Joined(g)' = Joined(g) /\ stamp'[g] < stamp'[e]
      BY <2>2, <1>1, <1>3, <1>4
    <3>2. ~Unsettled(g) => Joined(g) = {}
      BY DEF Joined
    <3> QED BY <3>1, <3>2
  <2> QED BY <2>1, <2>2
<1>7. {f \in Entries : Unsettled(f) /\ Joined(f) \cap Covers(e) # {}}
        = {f \in Entries : Serial!Present(f) /\ Joined(f) \cap Covers(e) # {}}
  BY PhaseOf DEF Serial!Present
<1> QED BY <1>2, <1>3, <1>5, <1>6, <1>7 DEF Serial!Join

\* The promises a call found have settled, so nobody is ahead of it.
LEMMA SerialEnter ==
  ASSUME ConstantsAssumption, TypeOK, PrevInv, NEW e \in Entries, NEW l,
         pc[e] \in {"queued", "barrier"}, l \in {"running", "ran", "threw"},
         Ready(e), Goto(e, l), stamp' = stamp, ids' = ids
  PROVE  Serial!Enter(e)
<1>1. /\ \A f \in Entries : pc'[f] = IF f = e THEN l ELSE pc[f]
      /\ \A f \in Entries : Covers(f)' = Covers(f)
  BY DEF TypeOK, Goto, Covers
<1>2. /\ \A f \in Entries : Phase(f)' = IF f = e THEN "inside" ELSE Phase(f)
      /\ \A f \in Entries : Unsettled(f)' <=> Unsettled(f)
      /\ Phase(e) = "waiting" /\ Unsettled(e)
  BY <1>1 DEF Phase, Unsettled, Working
<1>3. \A f \in Entries : Joined(f)' = Joined(f)
  BY <1>1, <1>2 DEF Joined
<1>4. \A f \in Entries : Ahead(f)' = Ahead(f)
  BY <1>3 DEF Ahead
<1>5. Ahead(e) = {}
  <2> SUFFICES ASSUME NEW g \in Entries, Joined(e) \cap Joined(g) # {}, stamp[g] < stamp[e]
               PROVE  FALSE
    BY DEF Ahead
  <2>1. PICK t : t \in Covers(e) /\ t \in Covers(g) /\ Unsettled(g)
    BY DEF Joined
  <2>2. t \in Tasks
    BY <2>1, Kinds DEF Covers, TypeOK, Entries
  <2>3. prev[e][t] # None /\ Unsettled(prev[e][t])
    BY <2>1, <2>2 DEF PrevInv
  <2>4. Resolved(prev[e][t])
    BY <2>2, <2>3 DEF Ready
  <2> QED BY <2>3, <2>4 DEF Unsettled, Working, Resolved
<1> QED BY <1>2, <1>3, <1>4, <1>5 DEF Serial!Enter

\* A call that settles is ahead of nobody.
LEMMA SerialLeave ==
  ASSUME ConstantsAssumption, TypeOK, OrderInv, NEW e \in Entries, NEW l, Working(e),
         l \in {"settled", "cleared", "rejected"}, Goto(e, l), stamp' = stamp, ids' = ids
  PROVE  Serial!Leave(e)
<1>1. /\ \A f \in Entries : pc'[f] = IF f = e THEN l ELSE pc[f]
      /\ \A f \in Entries : Covers(f)' = Covers(f)
      /\ \A f \in Entries : stamp[f] \in Nat
  BY DEF TypeOK, Goto, Covers
<1>2. /\ \A f \in Entries : Phase(f)' = IF f = e THEN "over" ELSE Phase(f)
      /\ \A f \in Entries : Unsettled(f)' <=> f # e /\ Unsettled(f)
      /\ Phase(e) = "inside" /\ Unsettled(e)
  BY <1>1 DEF Phase, Unsettled, Working
<1>3. \A f \in Entries : Joined(f)' = IF f = e THEN {} ELSE Joined(f)
  BY <1>1, <1>2 DEF Joined
<1>4. \A f \in Entries : Ahead(f)' = Ahead(f) \ {e}
  <2> TAKE f \in Entries
  <2>1. CASE f = e
    <3>1. Ahead(e)' = {}
      BY <1>3 DEF Ahead
    <3>2. \A g \in Entries : ~(Joined(e) \cap Joined(g) # {} /\ stamp[g] < stamp[e])
      <4> SUFFICES ASSUME NEW g \in Entries, Joined(e) \cap Joined(g) # {}, stamp[g] < stamp[e]
                   PROVE  FALSE
        OBVIOUS
      <4>1. Unsettled(g) /\ Covers(e) \cap Covers(g) # {} /\ g # e
        BY <1>1 DEF Joined
      <4>2. stamp[e] < stamp[g]
        BY <4>1 DEF OrderInv, InCallOrder
      <4> QED BY <4>2, <1>1
    <3>3. Ahead(e) = {}
      BY <3>2 DEF Ahead
    <3> QED BY <2>1, <3>1, <3>3
  <2>2. CASE f # e
    BY <2>2, <1>3 DEF Ahead
  <2> QED BY <2>1, <2>2
<1> QED BY <1>2, <1>3, <1>4 DEF Serial!Leave

\* Every other step leaves the call where it is, or ends it before it joined.
LEMMA SerialStays ==
  ASSUME ConstantsAssumption, TypeOK, NEW e \in Entries,
         \A f \in Entries \ {e} : pc'[f] = pc[f] /\ Covers(f)' = Covers(f) /\ stamp'[f] = stamp[f],
         \/ Working(e) /\ Working(e)' /\ Covers(e)' = Covers(e) /\ stamp'[e] = stamp[e]
         \/ Phase(e) = "out" /\ Phase(e)' \in {"out", "over"}
         \/ Phase(e) = "over" /\ Phase(e)' = "over"
  PROVE  Serial!Withdraw(e) \/ UNCHANGED Serial!vars
<1>1. /\ \A f \in Entries \ {e} : Phase(f)' = Phase(f)
      /\ Phase(e)' = Phase(e) \/ (Phase(e) = "out" /\ Phase(e)' = "over")
      /\ \A f \in Entries : Unsettled(f)' <=> Unsettled(f)
      /\ Unsettled(e) => Working(e) /\ Working(e)'
  BY DEF Phase, Unsettled, Working
<1>2. /\ \A f \in Entries : Joined(f)' = Joined(f)
      /\ \A f \in Entries : Joined(f) # {} => stamp'[f] = stamp[f]
  BY <1>1 DEF Joined, Phase, Unsettled, Working
<1>3. \A f \in Entries : Ahead(f)' = Ahead(f)
  <2> SUFFICES ASSUME NEW f \in Entries, NEW g \in Entries
               PROVE  /\ Joined(f)' \cap Joined(g)' # {} /\ stamp'[g] < stamp'[f]
                      <=> Joined(f) \cap Joined(g) # {} /\ stamp[g] < stamp[f]
    BY DEF Ahead
  <2>1. CASE Joined(f) # {} /\ Joined(g) # {}
    BY <2>1, <1>2
  <2>2. CASE Joined(f) = {} \/ Joined(g) = {}
    BY <2>2, <1>2
  <2> QED BY <2>1, <2>2
<1> QED BY <1>1, <1>2, <1>3 DEF Serial!Withdraw, Serial!vars

\* A step of the coordinator is a step of SerializedTasks or none.
LEMMA SerialStep ==
  ASSUME ConstantsAssumption, IInv, Next PROVE [Serial!Next]_(Serial!vars)
<1> DEFINE Mapped == [Serial!Next]_(Serial!vars)
<1>0. TypeOK /\ StampInv /\ PrevInv /\ OrderInv
  BY DEF IInv
<1>k. /\ \A x \in Calls : x \in Entries /\ x \notin Deletes /\ TaskOf[x] \in Tasks
      /\ \A d \in Deletes : d \in Entries
      /\ \A x \in Runs \cup Cancels \cup Starts : x \in Calls
  BY Kinds
<1>c. \A x \in Calls : Covers(x) = {TaskOf[x]} /\ Covers(x) \subseteq Tasks
  BY <1>k DEF Covers
<1>j. ASSUME NEW e \in Entries, Serial!Join(e, Covers(e)), Covers(e) \subseteq Tasks PROVE Mapped
  BY <1>j DEF Serial!Next
<1>e. ASSUME NEW e \in Entries, Serial!Enter(e) \/ Serial!Leave(e) \/ Serial!Withdraw(e) PROVE Mapped
  BY <1>e DEF Serial!Next
<1>s. ASSUME NEW e \in Entries, NEW l, Goto(e, l),
             \A f \in Entries \ {e} : stamp'[f] = stamp[f],
             \A d \in Deletes : ids'[d] = ids[d] \/ (d = e /\ pc[e] = "awaitStarts"),
             \/ pc[e] = "running" /\ l = "finished" /\ stamp' = stamp
             \/ pc[e] = "cleared" /\ l = "done"
             \/ pc[e] \in {"rejected", "listing"} /\ l \in {"failed", "cleared", "rejected"}
             \/ pc[e] = "idle" /\ l \in {"refused", "waiting", "awaitStarts"}
             \/ pc[e] = "awaitStarts" /\ l = "listing"
             \/ pc[e] = "waiting" /\ l \in {"refused", "leased"}
             \/ pc[e] = "leased" /\ l = "created"
             \/ pc[e] \in {"leased", "created"} /\ l = "returned"
      PROVE  Mapped
  <2>1. /\ \A f \in Entries \ {e} : pc'[f] = pc[f] /\ Covers(f)' = Covers(f)
        /\ pc'[e] = l /\ (pc[e] # "awaitStarts" => Covers(e)' = Covers(e))
    BY <1>s, <1>0 DEF TypeOK, Goto, Covers
  <2>2. CASE pc[e] = "running"
    <3>1. Working(e) /\ Working(e)' /\ Covers(e)' = Covers(e) /\ stamp'[e] = stamp[e]
      BY <1>s, <2>1, <2>2 DEF Working
    <3>2. Serial!Withdraw(e) \/ UNCHANGED Serial!vars
      BY <1>0, <1>s, <2>1, <3>1, SerialStays
    <3> QED BY <3>2, <1>e
  <2>3. CASE pc[e] # "running"
    <3>1. \/ Phase(e) = "out" /\ Phase(e)' \in {"out", "over"}
          \/ Phase(e) = "over" /\ Phase(e)' = "over"
      BY <1>s, <2>1, <2>3 DEF Phase, Working
    <3>2. Serial!Withdraw(e) \/ UNCHANGED Serial!vars
      BY <1>0, <1>s, <2>1, <3>1, SerialStays
    <3> QED BY <3>2, <1>e
  <2> QED BY <2>2, <2>3
<1> HIDE DEF Mapped
<1>1. ASSUME NEW x \in Calls, runTask(x) \/ cancelTaskAndRun(x) \/ releaseAndRun(x) PROVE Mapped
  <2>1. /\ Enqueue(x, Covers(x)) /\ Goto(x, "queued") /\ ids' = ids /\ pc[x] \in {"idle", "created"}
    BY <1>c, <1>1 DEF runTask, cancelTaskAndRun, releaseAndRun, delVars
  <2>2. Phase(x) = "out"
    BY <2>1, <1>k, PhaseOf
  <2>3. Serial!Join(x, Covers(x))
    BY <2>1, <2>2, <1>0, <1>k, <1>c, SerialJoin
  <2> QED BY <2>3, <1>k, <1>c, <1>j
<1>2. ASSUME NEW x \in Calls, Begin(x) PROVE Mapped
  <2>1. Serial!Enter(x)
    BY <1>2, <1>0, <1>k, SerialEnter DEF Begin, chainVars, delVars
  <2> QED BY <2>1, <1>k, <1>e
<1>3. ASSUME NEW x \in Calls, End(x) PROVE Mapped
  <2>1. Goto(x, "finished") /\ pc[x] = "running" /\ ids' = ids /\ stamp' = stamp
    BY <1>3 DEF End, chainVars, delVars
  <2> QED BY <2>1, <1>k, <1>s
<1>4. ASSUME NEW x \in Calls, Settle(x) PROVE Mapped
  <2>1. Working(x) /\ Goto(x, "settled") /\ stamp' = stamp /\ ids' = ids
    BY <1>4 DEF Settle, Leave, Working, delVars
  <2>2. Serial!Leave(x)
    BY <2>1, <1>0, <1>k, SerialLeave
  <2> QED BY <2>2, <1>k, <1>e
<1>5. ASSUME NEW s \in Starts, requestStart(s) PROVE Mapped
  <2>1. PICK l \in {"refused", "waiting"} : Goto(s, l) /\ pc[s] = "idle" /\ ids' = ids
    BY <1>5 DEF requestStart, delVars
  <2>2. \A f \in Entries \ {s} : stamp'[f] = stamp[f]
    BY <1>5, <1>0 DEF requestStart, JoinStarts, chainVars, TypeOK
  <2> QED BY <2>1, <2>2, <1>k, <1>s
<1>6. ASSUME NEW s \in Starts, acquireProjectStart(s) \/ createTask(s) \/ releaseStart(s) PROVE Mapped
  <2>1. PICK l \in {"refused", "leased", "created", "returned"} :
          /\ stamp' = stamp /\ Goto(s, l) /\ ids' = ids
          /\ \/ pc[s] = "waiting" /\ l \in {"refused", "leased"}
             \/ pc[s] = "leased" /\ l = "created"
             \/ pc[s] \in {"leased", "created"} /\ l = "returned"
    BY <1>6 DEF acquireProjectStart, createTask, releaseStart, chainVars, delVars
  <2> QED BY <2>1, <1>k, <1>s
<1>7. ASSUME NEW d \in Deletes, deleteProject(d) \/ DeleteReturns(d) \/ DeleteList(d) PROVE Mapped
  <2>1. PICK l \in {"refused", "awaitStarts", "done", "failed", "listing"} :
          /\ stamp' = stamp /\ Goto(d, l)
          /\ \/ pc[d] = "cleared" /\ l = "done"
             \/ pc[d] \in {"rejected", "listing"} /\ l = "failed"
             \/ pc[d] = "idle" /\ l \in {"refused", "awaitStarts"}
             \/ pc[d] = "awaitStarts" /\ l = "listing"
    BY <1>7 DEF deleteProject, DeleteReturns, DeleteList, chainVars
  <2>2. \A c \in Deletes : ids'[c] = ids[c] \/ (c = d /\ pc[d] = "awaitStarts")
    BY <1>0, <1>7 DEF deleteProject, DeleteReturns, DeleteList, TypeOK
  <2> QED BY <2>1, <2>2, <1>k, <1>s
<1>8. ASSUME NEW d \in Deletes, DeleteBarrier(d) PROVE Mapped
  <2>1. pc[d] = "listing" /\ ids' = ids
    BY <1>8 DEF DeleteBarrier, delVars
  <2>2. CASE Enqueue(d, ids[d]) /\ Goto(d, "barrier")
    <3>1. Covers(d) = ids[d] /\ Covers(d) \subseteq Tasks /\ Phase(d) = "out"
      BY <2>1, <1>0, <1>k, PhaseOf DEF Covers, TypeOK
    <3>2. Serial!Join(d, Covers(d))
      BY <2>1, <2>2, <3>1, <1>0, <1>k, SerialJoin
    <3> QED BY <3>1, <3>2, <1>k, <1>j
  <2>3. CASE UNCHANGED chainVars /\ \E l \in {"cleared", "rejected"} : Goto(d, l)
    <3>1. PICK l \in {"cleared", "rejected"} : Goto(d, l) /\ stamp' = stamp
      BY <2>3 DEF chainVars
    <3> QED BY <2>1, <3>1, <1>k, <1>s
  <2> QED BY <1>8, <2>2, <2>3 DEF DeleteBarrier
<1>9. ASSUME NEW d \in Deletes, DeleteOperation(d) PROVE Mapped
  <2>1. PICK l \in {"ran", "threw"} : Goto(d, l)
    BY <1>9 DEF DeleteOperation
  <2>2. pc[d] = "barrier" /\ Ready(d) /\ stamp' = stamp /\ ids' = ids
    BY <1>9 DEF DeleteOperation, chainVars, delVars
  <2>3. Serial!Enter(d)
    BY <2>1, <2>2, <1>0, <1>k, SerialEnter
  <2> QED BY <2>3, <1>k, <1>e
<1>10. ASSUME NEW d \in Deletes, DeleteClear(d) PROVE Mapped
  <2>1. PICK l \in {"cleared", "rejected"} : Goto(d, l)
    BY <1>10 DEF DeleteClear
  <2>2. Working(d) /\ stamp' = stamp /\ ids' = ids
    BY <1>10 DEF DeleteClear, Leave, Working, delVars
  <2>3. Serial!Leave(d)
    BY <2>1, <2>2, <1>0, <1>k, SerialLeave
  <2> QED BY <2>3, <1>k, <1>e
<1>11. Mapped
  BY <1>k, <1>1, <1>2, <1>3, <1>4, <1>5, <1>6, <1>7, <1>8, <1>9, <1>10, NextCases
<1> QED BY <1>11 DEF Mapped

\* The chains of promises of runTask, cancelTaskAndRun, startTaskForProject and
\* deleteProject implement SerializedTasks: calls that share a task are served
\* one at a time, in the order in which they joined its chain, each once.
THEOREM ServesInTurn == Spec => RunsInTurn
<1>1. Init => Serial!Init
  <2> SUFFICES ASSUME Init PROVE Serial!Init
    OBVIOUS
  <2>1. \A e \in Entries : pc[e] = "idle"
    BY DEF Init
  <2>2. \A e \in Entries : Phase(e) = "out" /\ Joined(e) = {}
    BY <2>1, PhaseOf DEF Joined
  <2>3. \A e \in Entries : Ahead(e) = {}
    BY <2>2 DEF Ahead
  <2> QED BY <2>2, <2>3 DEF Serial!Init
<1>2. IInv /\ [Next]_vars => [Serial!Next]_(Serial!vars)
  <2> SUFFICES ASSUME IInv, [Next]_vars PROVE [Serial!Next]_(Serial!vars)
    OBVIOUS
  <2>1. CASE Next
    BY <2>1, ConstantsAssumption, SerialStep
  <2>2. CASE UNCHANGED vars
    <3>1. UNCHANGED <<pc, ids, stamp>>
      BY <2>2 DEF vars, chainVars, delVars
    <3>2. \A e \in Entries : Phase(e)' = Phase(e) /\ Joined(e)' = Joined(e)
      BY <3>1 DEF Phase, Joined, Unsettled, Working, Covers
    <3>3. \A e \in Entries : Ahead(e)' = Ahead(e)
      BY <3>1, <3>2 DEF Ahead
    <3> QED BY <3>2, <3>3 DEF Serial!vars
  <2> QED BY <2>1, <2>2
<1> QED BY <1>1, <1>2, Invariance, PTL DEF Spec, RunsInTurn, Serial!Spec

-----------------------------------------------------------------------------
(* No ring of waits.                                                       *)

\* The start promise that a start or a deletion found belongs to a start that
\* was called before it.
BegunInv ==
  \A e \in Starts \cup Deletes : startPrev[e] # None => pc[startPrev[e]] # "idle"

LEMMA BegunStep ==
  ASSUME ConstantsAssumption, IInv, BegunInv, [Next]_vars PROVE BegunInv'
<1>0. TypeOK /\ StartTailInv
  BY DEF IInv
<1>1. \A e \in Entries : pc[e] # "idle" => pc'[e] # "idle"
  <2>1. ASSUME NEW e \in Entries, NEW l, Goto(e, l), l # "idle"
        PROVE  \A f \in Entries : pc[f] # "idle" => pc'[f] # "idle"
    BY <2>1, <1>0 DEF Goto, TypeOK
  <2>2. CASE UNCHANGED vars
    BY <2>2 DEF vars
  <2>3. CASE Next
    <3>1. \E e \in Entries : \E l \in StartLabels \cup DeleteLabels : l # "idle" /\ Goto(e, l)
      <4> USE Kinds, ConstantsAssumption DEF StartLabels, CallLabels, DeleteLabels
      <4>1. ASSUME NEW x \in Calls, runTask(x) \/ cancelTaskAndRun(x) \/ Begin(x) \/ End(x) \/ Settle(x)
            PROVE  \E l \in StartLabels \cup DeleteLabels : l # "idle" /\ Goto(x, l)
        BY <4>1 DEF runTask, cancelTaskAndRun, Begin, End, Settle
      <4>2. ASSUME NEW s \in Starts, requestStart(s) \/ acquireProjectStart(s) \/ createTask(s)
                                     \/ releaseStart(s) \/ releaseAndRun(s)
            PROVE  \E l \in StartLabels \cup DeleteLabels : l # "idle" /\ Goto(s, l)
        BY <4>2 DEF requestStart, acquireProjectStart, createTask, releaseStart, releaseAndRun
      <4>3. ASSUME NEW d \in Deletes, deleteProject(d) \/ DeleteList(d) \/ DeleteBarrier(d)
                                      \/ DeleteOperation(d) \/ DeleteClear(d) \/ DeleteReturns(d)
            PROVE  \E l \in StartLabels \cup DeleteLabels : l # "idle" /\ Goto(d, l)
        BY <4>3 DEF deleteProject, DeleteList, DeleteBarrier, DeleteOperation, DeleteClear, DeleteReturns
      <4> QED BY <2>3, <4>1, <4>2, <4>3, NextCases
    <3> QED BY <2>1, <3>1
  <2> QED BY <2>2, <2>3
<1> DEFINE Found == \A e \in Starts \cup Deletes :
                      \/ startPrev'[e] = startPrev[e]
                      \/ \E p \in Projects : startPrev'[e] = startTails[p]
<1>2. Found
  <2>1. CASE UNCHANGED startPrev
    BY <2>1
  <2>2. ASSUME NEW s \in Starts, requestStart(s) PROVE Found
    <3> DEFINE p == ProjectOf[TaskOf[s]]
    <3>1. p \in Projects
      BY ConstantsAssumption, Kinds
    <3>2. UNCHANGED startPrev \/ startPrev' = [startPrev EXCEPT ![s] = startTails[p]]
      BY <2>2 DEF requestStart, JoinStarts, startVars
    <3> HIDE DEF p
    <3> QED BY <3>1, <3>2, <1>0 DEF TypeOK
  <2>3. ASSUME NEW d \in Deletes, deleteProject(d) PROVE Found
    <3>1. Deleted[d] \in Projects
      BY ConstantsAssumption
    <3>2. UNCHANGED startPrev \/ startPrev' = [startPrev EXCEPT ![d] = startTails[Deleted[d]]]
      BY <2>3 DEF deleteProject
    <3> QED BY <3>1, <3>2, <1>0 DEF TypeOK
  <2>4. CASE UNCHANGED vars
    BY <2>1, <2>4 DEF vars, startVars
  <2>5. CASE Next
    <3> HIDE DEF Found
    <3>1. ASSUME NEW x \in Calls, Begin(x) \/ End(x) \/ Settle(x) PROVE Found
      BY <2>1, <3>1 DEF Begin, End, Settle, startVars
    <3>2. ASSUME NEW x \in Calls, runTask(x) \/ cancelTaskAndRun(x) PROVE Found
      BY <2>1, <3>2 DEF runTask, cancelTaskAndRun, startVars
    <3>3. ASSUME NEW s \in Starts, acquireProjectStart(s) \/ createTask(s) \/ releaseStart(s)
                                   \/ releaseAndRun(s)
          PROVE  Found
      BY <2>1, <3>3 DEF acquireProjectStart, createTask, releaseStart, releaseAndRun, LeaveStarts, startVars
    <3>4. ASSUME NEW d \in Deletes, DeleteList(d) \/ DeleteBarrier(d) \/ DeleteOperation(d)
                                    \/ DeleteClear(d) \/ DeleteReturns(d)
          PROVE  Found
      BY <2>1, <3>4 DEF DeleteList, DeleteBarrier, DeleteOperation, DeleteClear, DeleteReturns, startVars
    <3> QED BY <2>2, <2>3, <2>5, <3>1, <3>2, <3>3, <3>4, Kinds, ConstantsAssumption, NextCases
  <2> QED BY <2>4, <2>5
<1>3. \A p \in Projects : startTails[p] # None => startTails[p] \in Entries /\ pc[startTails[p]] # "idle"
  BY <1>0, Kinds DEF StartTailInv, Held, TypeOK
<1>4. \A e \in Starts \cup Deletes : startPrev[e] # None => startPrev[e] \in Entries
  BY <1>0, Kinds DEF TypeOK
<1> QED BY <1>1, <1>2, <1>3, <1>4 DEF BegunInv

\* Where a call stands in the order in which promises are waited for: a
\* deletion that waits for starts comes after all of them.
Rank(e) == IF pc[e] = "awaitStarts" THEN clock + 1 ELSE stamp[e]

\* A call waits only for calls in progress of a smaller rank.
LEMMA WaitsDown ==
  ASSUME ConstantsAssumption, IInv, BegunInv, NEW e \in Entries, NEW f \in Entries, WaitsFor(e, f)
  PROVE  InProgress(f) /\ Rank(f) < Rank(e)
<1>0. /\ TypeOK /\ StampInv /\ PrevInv /\ StartPrevInv
      /\ \A g \in Entries : stamp[g] \in Nat /\ stamp[g] < clock + 1
      /\ clock \in Nat
  BY DEF IInv, TypeOK, StampInv
<1>1. e # None /\ f # None
  BY DEF ConstantsAssumption
<1>2. CASE pc[e] \in {"queued", "barrier"}
  <2>1. PICK t \in Tasks : prev[e][t] = f /\ ~Resolved(f)
    BY <1>2 DEF WaitsFor
  <2>2. Unsettled(f) /\ stamp[f] < stamp[e]
    BY <1>0, <1>1, <1>2, <2>1 DEF PrevInv
  <2>3. InProgress(f) /\ pc[f] # "awaitStarts"
    BY <2>2 DEF InProgress, Unsettled, Working
  <2> QED BY <1>2, <2>2, <2>3 DEF Rank
<1>3. CASE pc[e] \in {"waiting", "awaitStarts"}
  <2>1. startPrev[e] = f /\ ~Released(f)
    BY <1>3 DEF WaitsFor
  <2>2. e \in Starts \cup Deletes
    <3>1. e \notin Runs \cup Cancels
      BY <1>0, <1>3 DEF TypeOK, CallLabels
    <3> QED BY <3>1 DEF Entries, Calls
  <2>3. pc[f] # "idle" /\ f \in Starts
    BY <1>0, <1>1, <2>1, <2>2 DEF BegunInv, TypeOK
  <2>4. pc[f] \in {"waiting", "leased", "created"}
    BY <2>1, <2>3 DEF Released
  <2>5. InProgress(f) /\ Held(f) /\ Rank(f) = stamp[f]
    BY <2>4 DEF InProgress, Held, Rank
  <2>6. CASE pc[e] = "awaitStarts"
    BY <1>0, <2>5, <2>6 DEF Rank
  <2>7. CASE pc[e] = "waiting"
    <3>1. e \in Starts
      BY <1>0, <2>2, <2>7 DEF TypeOK, DeleteLabels
    <3>2. stamp[f] < stamp[e]
      BY <1>0, <1>1, <2>1, <2>5, <2>7, <3>1 DEF StartPrevInv
    <3> QED BY <2>5, <2>7, <3>2 DEF Rank
  <2> QED BY <1>3, <2>6, <2>7
<1> QED BY <1>2, <1>3 DEF WaitsFor

\* A set of naturals has a least member.
LEMMA LeastNatural ==
  ASSUME NEW S \in SUBSET Nat, S # {}
  PROVE  \E x \in S : \A y \in S : x <= y
<1> DEFINE Less == {ss \in Nat \X Nat : ss[1] < ss[2]}
<1>1. IsWellFoundedOn(Less, Nat)
  BY NatLessThanWellFounded DEF OpToRel
<1>2. PICK x \in S : \A y \in S : ~(<<y, x>> \in Less)
  <2> HIDE DEF Less
  <2> QED BY <1>1, WFMin
<1>3. ASSUME NEW y \in S PROVE x <= y
  <2>1. <<y, x>> \in Nat \X Nat /\ <<y, x>>[1] = y /\ <<y, x>>[2] = x
    OBVIOUS
  <2> QED BY <1>2, <2>1
<1> QED BY <1>3

\* A set of calls has a member of least rank.
LEMMA LeastRank ==
  ASSUME TypeOK, NEW S \in SUBSET Entries, S # {}
  PROVE  \E e \in S : \A f \in S : ~(Rank(f) < Rank(e))
<1> DEFINE Ranks == {Rank(e) : e \in S}
<1>1. \A e \in S : Rank(e) \in Nat
  BY DEF Rank, TypeOK
<1>2. Ranks \in SUBSET Nat /\ Ranks # {}
  BY <1>1
<1>3. PICK x \in Ranks : \A y \in Ranks : x <= y
  <2> HIDE DEF Ranks
  <2> QED BY <1>2, LeastNatural
<1>4. PICK e \in S : x = Rank(e)
  OBVIOUS
<1>5. \A f \in S : Rank(e) <= Rank(f)
  BY <1>3, <1>4
<1> QED BY <1>1, <1>5

\* No calls of the coordinator ever wait for one another in a ring, whatever
\* chains of tasks and starts they join: a deletion waits for starts and then
\* for the operations of all its tasks, and neither waits for it in turn.
THEOREM NoRingForms == Spec => []NoRing
<1>1. Init => BegunInv
  BY DEF Init, BegunInv
<1>2. IInv /\ BegunInv /\ [Next]_vars => BegunInv'
  BY BegunStep, ConstantsAssumption
<1>3. ASSUME IInv, BegunInv PROVE NoRing
  <2>1. \A e, f \in Entries : WaitsFor(e, f) => InProgress(f) /\ Rank(f) < Rank(e)
    BY <1>3, ConstantsAssumption, WaitsDown
  <2>2. ASSUME NEW S \in SUBSET Entries, S # {}
        PROVE  \E e \in S : \A f \in S : ~WaitsFor(e, f)
    <3>1. PICK e \in S : \A f \in S : ~(Rank(f) < Rank(e))
      BY <1>3, <2>2, LeastRank DEF IInv
    <3> QED BY <2>1, <3>1
  <2> QED BY <2>1, <2>2 DEF NoRing
<1> QED BY <1>1, <1>2, <1>3, Invariance, PTL DEF Spec
=============================================================================
