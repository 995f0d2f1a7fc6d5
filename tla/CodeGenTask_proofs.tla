--------------------------- MODULE CodeGenTask_proofs ---------------------------
(***************************************************************************)
(* Proofs of the safety properties of CodeGenTask for any number of        *)
(* repositories, any comments and any limits.                              *)
(***************************************************************************)
EXTENDS CodeGenTask, FiniteSetTheorems, WellFoundedInduction, TLAPS

Converging == {"MERGED", "CLOSING", "DONE"}
Merged(s)  == s \in {"none", "NO_CHANGE", "MERGED"}

IsWorkflow(i) == queue[i].kind = "workflow"

\* One workflow at a time; one that was queued for a new task finds it as it was,
\* unless the task has ended.
Workflows ==
  /\ \A i, j \in DOMAIN queue : IsWorkflow(i) /\ IsWorkflow(j) => i = j
  /\ op.kind = "workflow" => \A i \in DOMAIN queue : ~IsWorkflow(i)
  /\ op.at = "idle" <=> op.kind = "none"
  /\ op.at = "start" => op.kind = "workflow"
  /\ \A i \in DOMAIN queue : IsWorkflow(i) /\ queue[i].seen = "DETECTED"
                             => state \in {"DETECTED", "FAILED", "ABANDONED"}

Bound == MaxAgentCycles + 2 + (MaxRetries - left.retry)

\* A cycle may begin only below the bound.  What a review begins is at most one
\* past the configured limit, so that what it leaves behind may begin once more.
Cycles ==
  /\ cycleCount <= Bound
  /\ state \in {"DETECTED", "CONTEXT_BUILDING", "RETRY_CYCLE"} => cycleCount < Bound
  /\ state = "AGENT_RUNNING" => \/ op.at \in {"idle", "agent", "push", "record"}
                                \/ op.at = "cleanup" /\ op.after = "throw"
  /\ state = "AGENT_RUNNING" /\ op.at = "idle" => cycle # "running"
  /\ op.at \in {"push", "record"} => cycle # "running"
  /\ op.at = "cleanup" /\ op.after = "throw" => cycle # "running"
  /\ state = "AGENT_RUNNING" /\ op.kind # "workflow" => cycleCount < Bound
  /\ op.kind = "handler" => state # "CONTEXT_BUILDING"
  /\ op.kind = "handler" /\ state = "RETRY_CYCLE"
       /\ (op.at \in {"lease", "prompt"} \/ (op.at = "cleanup" /\ op.after = "retry"))
     => cycleCount <= MaxAgentCycles
  /\ deleted => state \in Terminal

\* No operation touches the rows and the ticket of a task that has converged, but
\* the one that closes it; those of a deleted task are gone.
Convergence ==
  /\ state \in Converging =>
       /\ op.at \in {"idle", "lease", "prompt", "check", "close", "closing", "closed"}
       /\ op.at \in {"lease", "prompt", "check"} => deleted
       /\ \A r \in Repos : Merged(rows[r])
       /\ deleted => \A r \in Repos : rows[r] = "none"
  /\ op.at = "closed" \/ state = "DONE" => ticket = "closed"
  /\ op.at = "start" => state \in {"DETECTED", "FAILED", "ABANDONED"}

\* What a check has not found open or abandoned is merged, or is still to be asked
\* about; what was recorded has been pushed.
Polling ==
  /\ op.at = "comments" => ~op.allMerged
  /\ op.at = "poll" /\ op.allMerged /\ ~op.anyAbandoned
     => \A r \in Repos : r \in op.todo \/ Merged(rows[r])
  /\ op.at \in {"poll", "comments"} => \A r \in op.todo : rows[r] \in {"OPEN", "none"}
  /\ \A r \in Repos : rows[r] = "OPEN" => review[r] # "none"
  /\ op.at = "record" => review[Target] # "none"

Reading == {"start", "check", "poll", "comments", "feedback", "lease", "prompt"}

\* What an agent was given is marked, and what the next one is to be given is too;
\* deleting the task deletes the marks.
Marked ==
  /\ ~deleted => prompted \subseteq processed
  /\ ~deleted /\ op.at \in Reading => op.feedback \subseteq processed \ prompted
  /\ op.at \in {"lease", "prompt"} => op.feedback \cap prompted = {}

IInv == TypeOK /\ Workflows /\ Cycles /\ Convergence /\ Polling /\ Marked

\* A step takes an edge of the table, or bypasses it as the store's operations do.
Moved ==
  \/ state' = state
  \/ state \notin Terminal /\ state' = "ABANDONED"
  \/ state' = "DETECTED"
  \/ state' \in Machine!Edges[state]

-----------------------------------------------------------------------------
(* Parts of the steps.                                                     *)

LEMMA LeastOf ==
  ASSUME NEW S \in SUBSET Nat, S # {}
  PROVE  Min(S) \in S
<1> DEFINE Less == OpToRel(LAMBDA x, y : x < y, Nat)
<1>1. IsWellFoundedOn(Less, Nat)
  BY NatLessThanWellFounded
<1>2. PICK x \in S : \A y \in S : ~(<<y, x>> \in Less)
  <2> HIDE DEF Less
  <2> QED
    BY <1>1, WFMin
<1>3. ASSUME NEW y \in S PROVE x <= y
  <2>1. x \in Nat /\ y \in Nat
    OBVIOUS
  <2>2. <<y, x>> \in Nat \X Nat /\ <<y, x>>[1] = y /\ <<y, x>>[2] = x
    BY <2>1
  <2>3. ~(y < x)
    BY <1>2, <2>2 DEF OpToRel
  <2> QED
    BY <2>1, <2>3
<1> QED
  BY <1>3 DEF Min

LEMMA TargetOf == ASSUME TypeOK, op.todo # {} PROVE Target \in op.todo /\ Target \in Repos
<1>1. op.todo \in SUBSET Repos /\ op.todo \in SUBSET Nat
  BY DEF TypeOK, Operations, Repos
<1>2. Min(op.todo) \in op.todo
  BY <1>1, LeastOf
<1> QED
  BY <1>1, <1>2 DEF Target

\* What the table says of the transitions that are asked for.
LEMMA LegalFrom ==
  ASSUME TypeOK, NEW to \in TaskStates, Legal(to)
  PROVE  /\ ~deleted /\ (state' = to => Moved)
         /\ to = "CONTEXT_BUILDING" => state \in {"DETECTED", "CONTEXT_BUILDING"}
         /\ to = "AGENT_RUNNING" => state \in {"CONTEXT_BUILDING", "RETRY_CYCLE", "AGENT_RUNNING"}
         /\ to = "RETRY_CYCLE" => state \in {"AGENT_RUNNING", "FEEDBACK_PROCESSING", "RETRY_CYCLE"}
         /\ to = "IN_REVIEW" => state \in {"AGENT_RUNNING", "FEEDBACK_PROCESSING", "IN_REVIEW"}
         /\ to = "FEEDBACK_PROCESSING" => state \in {"IN_REVIEW", "FEEDBACK_PROCESSING"}
         /\ to = "MERGED" => state \in {"IN_REVIEW", "MERGED"}
         /\ to = "CLOSING" => state \in {"MERGED", "CLOSING"}
         /\ to = "DONE" => state \in {"MERGED", "CLOSING", "DONE"}
<1>1. ~deleted /\ (state = to \/ to \in Machine!Edges[state])
  BY DEF Legal, Machine!Legal
<1>2. state \in TaskStates
  BY DEF TypeOK
<1>3. state' = to => Moved
  BY <1>1 DEF Moved
<1>4. CASE state = to
  BY <1>1, <1>3, <1>4
<1>5. CASE to \in Machine!Edges[state]
  BY <1>1, <1>2, <1>3, <1>5 DEF Machine!Edges, TaskStates
<1> QED
  BY <1>1, <1>4, <1>5

\* A task that has not ended may fail.
LEMMA MayFail == ASSUME TypeOK, state \notin Terminal, state' = "FAILED" PROVE Moved
<1>1. state \in TaskStates
  BY DEF TypeOK
<1>2. "FAILED" \in Machine!Edges[state]
  BY <1>1 DEF TaskStates, Terminal, Machine!Edges
<1> QED
  BY <1>2 DEF Moved

LEMMA MovedKeeps == ASSUME TypeOK, TypeOK', Moved PROVE [Machine!Next]_state
<1>1. state \in TaskStates /\ state' \in TaskStates
  BY DEF TypeOK
<1>2. CASE state \notin Terminal /\ state' = "ABANDONED"
  BY <1>1, <1>2 DEF Machine!Next, Machine!abandonTask, Machine!Terminal, Terminal, TaskStates
<1>3. CASE state' = "DETECTED"
  BY <1>3 DEF Machine!Next, Machine!retryTask, Machine!Initial
<1>4. CASE state' \in Machine!Edges[state]
  <2>1. state' \in Machine!States
    BY <1>1 DEF Machine!States, Machine!Edges, TaskStates
  <2> QED
    BY <1>4, <2>1 DEF Machine!Next, Machine!transition
<1> QED
  BY <1>2, <1>3, <1>4 DEF Moved

LEMMA MarkType == ASSUME TypeOK, Recorded PROVE mark' \in {"none", "pause", "delete"}
  BY DEF TypeOK, Recorded

LEMMA GotoEffect ==
  ASSUME TypeOK, NEW l \in Labels, Goto(l)
  PROVE  /\ op' \in Operations /\ op'.at = l /\ op'.kind = op.kind /\ op'.todo = op.todo
         /\ op'.allMerged = op.allMerged /\ op'.anyAbandoned = op.anyAbandoned
         /\ op'.feedback = op.feedback /\ op'.after = op.after
<1>1. op \in Operations
  BY DEF TypeOK
<1> QED
  BY <1>1 DEF Goto, Operations

LEMMA LeaveEffect ==
  ASSUME TypeOK, NEW f \in {"return", "retry", "throw"}, Leave(f)
  PROVE  /\ op' \in Operations /\ op'.at = "cleanup" /\ op'.kind = op.kind /\ op'.after = f
         /\ op'.todo = op.todo
<1>1. op \in Operations
  BY DEF TypeOK
<1> QED
  BY <1>1 DEF Leave, Operations, Labels

LEMMA IdleType ==
  /\ Idle \in Operations /\ Idle.at = "idle" /\ Idle.kind = "none" /\ Idle.todo = {}
  /\ Idle.feedback = {}
  BY DEF Idle, Operations, Labels

\* An operation begins.
LEMMA NewOperation ==
  ASSUME NEW l \in Labels, NEW k \in {"workflow", "handler"}
  PROVE  LET o == [Idle EXCEPT !.at = l, !.kind = k] IN
         /\ o \in Operations /\ o.at = l /\ o.kind = k /\ o.todo = {} /\ o.feedback = {}
  BY IdleType DEF Operations, Idle

\* The chain of the task.
LEMMA AppendItem ==
  ASSUME TypeOK, NEW x \in Items, queue' = Append(queue, x)
  PROVE  /\ queue' \in Seq(Items) /\ Len(queue) \in Nat
         /\ DOMAIN queue' = DOMAIN queue \cup {Len(queue) + 1} /\ Len(queue) + 1 \notin DOMAIN queue
         /\ \A i \in DOMAIN queue : queue'[i] = queue[i]
         /\ queue'[Len(queue) + 1] = x
<1>1. queue \in Seq(Items)
  BY DEF TypeOK
<1>2. queue' \in Seq(Items) /\ Len(queue') = Len(queue) + 1 /\ Len(queue) \in Nat
  BY <1>1
<1>3. DOMAIN queue = 1..Len(queue) /\ DOMAIN queue' = 1..(Len(queue) + 1)
  BY <1>1, <1>2
<1>4. queue'[Len(queue) + 1] = x /\ \A i \in 1..Len(queue) : queue'[i] = queue[i]
  BY <1>1
<1> QED
  BY <1>2, <1>3, <1>4

LEMMA TailItems ==
  ASSUME TypeOK, queue # <<>>, queue' = Tail(queue)
  PROVE  /\ queue' \in Seq(Items) /\ Head(queue) \in Items /\ Head(queue) = queue[1]
         /\ 1 \in DOMAIN queue
         /\ \A i \in DOMAIN queue' : i + 1 \in DOMAIN queue /\ i + 1 # 1 /\ queue'[i] = queue[i + 1]
         /\ \A i, j \in DOMAIN queue' : i + 1 = j + 1 => i = j
<1>1. queue \in Seq(Items)
  BY DEF TypeOK
<1>2. queue' \in Seq(Items) /\ Len(queue) \in Nat /\ Len(queue) # 0 /\ Len(queue') = Len(queue) - 1
  BY <1>1
<1>3. DOMAIN queue = 1..Len(queue) /\ DOMAIN queue' = 1..(Len(queue) - 1)
  BY <1>1, <1>2
<1>4. \A i \in 1..(Len(queue) - 1) : queue'[i] = queue[i + 1]
  BY <1>1, <1>2
<1>5. Head(queue) = queue[1] /\ 1 \in DOMAIN queue
  BY <1>1, <1>2, <1>3
<1>6. queue[1] \in Items
  BY <1>1, <1>5
<1>7. ASSUME NEW i \in DOMAIN queue' PROVE i + 1 \in DOMAIN queue /\ i + 1 # 1
  BY <1>2, <1>3
<1>8. \A i, j \in DOMAIN queue' : i + 1 = j + 1 => i = j
  BY <1>2, <1>3
<1> QED
  BY <1>2, <1>3, <1>4, <1>5, <1>6, <1>7, <1>8

\* A workflow joins the one that is active, if there is one.
LEMMA JoinEffect ==
  ASSUME TypeOK, Workflows, NEW s \in TaskStates, runWorkflow(s)
  PROVE  /\ queue' \in Seq(Items)
         /\ \A i, j \in DOMAIN queue' : IsWorkflow(i)' /\ IsWorkflow(j)' => i = j
         /\ op.kind = "workflow" => \A i \in DOMAIN queue' : ~IsWorkflow(i)'
         /\ \A i \in DOMAIN queue' : IsWorkflow(i)' =>
              \/ queue'[i].seen = s
              \/ i \in DOMAIN queue /\ IsWorkflow(i) /\ queue'[i] = queue[i]
<1>1. queue \in Seq(Items)
  BY DEF TypeOK
<1>2. CASE WorkflowActive
  <2>1. queue' = queue
    BY <1>2 DEF runWorkflow
  <2> QED
    BY <1>1, <2>1 DEF Workflows, IsWorkflow
<1>3. CASE ~WorkflowActive
  <2> DEFINE x == [kind |-> "workflow", seen |-> s]
  <2>1. x \in Items /\ x.seen = s /\ queue' = Append(queue, x)
    BY <1>3 DEF runWorkflow, Items
  <2> HIDE DEF x
  <2>2. op.kind # "workflow" /\ \A i \in DOMAIN queue : queue[i].kind # "workflow"
    BY <1>3 DEF WorkflowActive
  <2>3. /\ queue' \in Seq(Items) /\ Len(queue) \in Nat
        /\ DOMAIN queue' = DOMAIN queue \cup {Len(queue) + 1}
        /\ \A i \in DOMAIN queue : queue'[i] = queue[i]
        /\ queue'[Len(queue) + 1] = x
    BY <2>1, AppendItem
  <2>4. \A i \in DOMAIN queue' : IsWorkflow(i)' => i = Len(queue) + 1
    BY <2>2, <2>3 DEF IsWorkflow
  <2> QED
    BY <2>1, <2>2, <2>3, <2>4
<1> QED
  BY <1>2, <1>3

-----------------------------------------------------------------------------
(* How operations end.                                                     *)

\* An operation ends, without or with a last change of the task.
LEMMA Stops ==
  ASSUME IInv, op.at # "idle", Stop, resolved' \in SUBSET Comments,
         mark' \in {"none", "pause", "delete"},
         \/ state' = state /\ state # "AGENT_RUNNING"
         \/ state' = "IN_REVIEW" /\ Legal("IN_REVIEW")
         \/ state' = "FAILED" /\ ~deleted /\ state \notin Terminal,
         UNCHANGED <<dbVars, queue, review, posted, ticket, prompted, left>>
  PROVE  IInv' /\ Moved
<1>. USE CodeGenAssumption
<1>0. TypeOK /\ Workflows /\ Cycles /\ Convergence /\ Polling /\ Marked
  BY DEF IInv
<1>a. UNCHANGED <<deleted, cycleCount, cycle, rows, processed, queue, review, posted, ticket, prompted, left>>
  BY DEF dbVars, outVars
<1>p. op' \in Operations /\ op'.at = "idle" /\ op'.kind = "none" /\ op'.todo = {} /\ op'.feedback = {}
  BY IdleType DEF Stop
<1>q. /\ state' # "AGENT_RUNNING"
      /\ \/ state' = state \/ (state' = "FAILED" /\ ~deleted)
         \/ (state' = "IN_REVIEW" /\ ~deleted /\ state \in {"AGENT_RUNNING", "FEEDBACK_PROCESSING", "IN_REVIEW"})
  <2>1. CASE state' = "IN_REVIEW" /\ Legal("IN_REVIEW")
    <3>1. ~deleted /\ state \in {"AGENT_RUNNING", "FEEDBACK_PROCESSING", "IN_REVIEW"}
      BY <1>0, <2>1, LegalFrom DEF TaskStates
    <3> QED
      BY <2>1, <3>1
  <2>2. CASE ~(state' = "IN_REVIEW" /\ Legal("IN_REVIEW"))
    BY <2>2
  <2> QED
    BY <2>1, <2>2
<1>1. TypeOK'
  BY <1>0, <1>a, <1>p, <1>q DEF TypeOK, TaskStates
<1>2. Workflows'
  BY <1>0, <1>a, <1>p, <1>q DEF Workflows, IsWorkflow, TypeOK
<1>3. Cycles'
  BY <1>0, <1>a, <1>p, <1>q DEF Cycles, Bound, Terminal, TypeOK, Workflows
<1>4. Convergence'
  BY <1>0, <1>a, <1>p, <1>q DEF Convergence, Converging, Merged, Terminal, TypeOK, Cycles, Workflows
<1>5. Polling'
  BY <1>0, <1>a, <1>p, <1>q DEF Polling, Merged, Target, TypeOK, Cycles
<1>6. Marked'
  BY <1>0, <1>a, <1>p, <1>q DEF Marked, Reading, TypeOK
<1>7. Moved
  BY <1>0, <1>a, <1>p, <1>q, LegalFrom, MayFail DEF Moved, TaskStates
<1> QED
  BY <1>1, <1>2, <1>3, <1>4, <1>5, <1>6, <1>7 DEF IInv

\* The agent cycle throws.
LEMMA Breaks ==
  ASSUME IInv, op.at \in {"agent", "push", "toReview"}, CycleThrows, mark' \in {"none", "pause", "delete"},
         ticket' \in {"open", "progress", "review", "closed"},
         UNCHANGED <<deleted, cycleCount, rows, processed, queue, review, posted, resolved, prompted, left>>
  PROVE  IInv' /\ Moved
<1>. USE CodeGenAssumption
<1>0. TypeOK /\ Workflows /\ Cycles /\ Convergence /\ Polling /\ Marked
  BY DEF IInv
<1>a. UNCHANGED <<deleted, cycleCount, rows, processed, queue, review, posted, resolved, prompted, left>>
  BY DEF dbVars, outVars
<1>p. op' \in Operations /\ op'.at = "cleanup" /\ op'.kind = op.kind /\ op'.after = "throw" /\ op'.todo = op.todo
  BY <1>0, LeaveEffect DEF CycleThrows
<1>q. state' = state /\ cycle' = "failed"
  BY DEF CycleThrows
<1>1. TypeOK'
  BY <1>0, <1>a, <1>p, <1>q DEF TypeOK, TaskStates
<1>2. Workflows'
  BY <1>0, <1>a, <1>p, <1>q DEF Workflows, IsWorkflow, TypeOK
<1>3. Cycles'
  BY <1>0, <1>a, <1>p, <1>q DEF Cycles, Bound, Terminal, TypeOK, Workflows
<1>4. Convergence'
  BY <1>0, <1>a, <1>p, <1>q DEF Convergence, Converging, Merged, Terminal, TypeOK, Cycles, Workflows
<1>5. Polling'
  BY <1>0, <1>a, <1>p, <1>q DEF Polling, Merged, Target, TypeOK, Cycles
<1>6. Marked'
  BY <1>0, <1>a, <1>p DEF Marked, Reading, TypeOK
<1>7. Moved
  BY <1>0, <1>a, <1>p, <1>q DEF Moved
<1> QED
  BY <1>1, <1>2, <1>3, <1>4, <1>5, <1>6, <1>7 DEF IInv

\* An operation throws.
LEMMA Throws ==
  ASSUME IInv, op.at \notin {"idle", "agent"}, Throw, mark' \in {"none", "pause", "delete"},
         ticket' = ticket \/ (op.at = "start" /\ ticket' = "progress"),
         UNCHANGED <<dbVars, queue, review, posted, resolved, prompted, left>>
  PROVE  IInv' /\ Moved
<1>. USE CodeGenAssumption
<1>0. TypeOK /\ Workflows /\ Cycles /\ Convergence /\ Polling /\ Marked
  BY DEF IInv
<1>a. UNCHANGED <<deleted, cycleCount, cycle, rows, processed, queue, review, posted, resolved, prompted, left>>
  BY DEF dbVars, outVars
<1>1. CASE op.kind = "workflow" /\ ~deleted /\ state \notin Terminal
  <2>p. state' = "FAILED" /\ Goto("notify")
    BY <1>1 DEF Throw
  <2>q. op' \in Operations /\ op'.at = "notify" /\ op'.kind = op.kind /\ op'.todo = op.todo /\ op'.allMerged = op.allMerged /\ op'.anyAbandoned = op.anyAbandoned /\ op'.feedback = op.feedback /\ op'.after = op.after
    BY <1>0, <2>p, GotoEffect DEF Labels
  <2>1. TypeOK'
    BY <1>0, <1>a, <1>1, <2>p, <2>q DEF TypeOK, TaskStates
  <2>2. Workflows'
    BY <1>0, <1>a, <1>1, <2>p, <2>q DEF Workflows, IsWorkflow, TypeOK
  <2>3. Cycles'
    BY <1>0, <1>a, <1>1, <2>p, <2>q DEF Cycles, Bound, Terminal, TypeOK, Workflows
  <2>4. Convergence'
    BY <1>0, <1>a, <1>1, <2>p, <2>q DEF Convergence, Converging, Merged, Terminal, TypeOK, Cycles, Workflows
  <2>5. Polling'
    BY <1>0, <1>a, <1>1, <2>p, <2>q DEF Polling, Merged, Target, TypeOK, Cycles
  <2>6. Marked'
    BY <1>0, <1>a, <1>1, <2>q DEF Marked, Reading, TypeOK
  <2>7. Moved
    BY <1>0, <1>a, <1>1, <2>p, <2>q, MayFail
  <2> QED
    BY <2>1, <2>2, <2>3, <2>4, <2>5, <2>6, <2>7 DEF IInv
<1>2. CASE ~(op.kind = "workflow" /\ ~deleted /\ state \notin Terminal)
  <2>p. state' = state /\ Stop
    BY <1>2 DEF Throw
  <2>q. op' \in Operations /\ op'.at = "idle" /\ op'.kind = "none" /\ op'.todo = {} /\ op'.feedback = {}
    BY <2>p, IdleType DEF Stop
  <2>1. TypeOK'
    BY <1>0, <1>a, <1>2, <2>p, <2>q DEF TypeOK, TaskStates
  <2>2. Workflows'
    BY <1>0, <1>a, <1>2, <2>p, <2>q DEF Workflows, IsWorkflow, TypeOK
  <2>3. Cycles'
    BY <1>0, <1>a, <1>2, <2>p, <2>q DEF Cycles, Bound, Terminal, TypeOK, Workflows
  <2>4. Convergence'
    BY <1>0, <1>a, <1>2, <2>p, <2>q DEF Convergence, Converging, Merged, Terminal, TypeOK, Cycles, Workflows
  <2>5. Polling'
    BY <1>0, <1>a, <1>2, <2>p, <2>q DEF Polling, Merged, Target, TypeOK, Cycles
  <2>6. Marked'
    BY <1>0, <1>a, <1>2, <2>q DEF Marked, Reading, TypeOK
  <2>7. Moved
    BY <1>0, <1>a, <1>2, <2>p, <2>q DEF Moved
  <2> QED
    BY <2>1, <2>2, <2>3, <2>4, <2>5, <2>6, <2>7 DEF IInv
<1> QED
  BY <1>1, <1>2

-----------------------------------------------------------------------------
(* The workflow.                                                           *)

\* What the workflow does first depends on what it reads.
LEMMA EntryOf ==
  ASSUME NEW s \in TaskStates
  PROVE  /\ Entry(s) \in {"idle", "start", "lease", "check", "close"}
         /\ Entry(s) = "start" => s = "DETECTED"
         /\ Entry(s) = "lease" => s \in {"CONTEXT_BUILDING", "AGENT_RUNNING", "RETRY_CYCLE"}
         /\ Entry(s) = "check" => s \in {"IN_REVIEW", "FEEDBACK_PROCESSING"}
         /\ Entry(s) = "close" => s \in {"MERGED", "CLOSING"}
         /\ Entry(s) = "idle" => s \in {"DONE", "FAILED", "ABANDONED"}
  BY DEF Entry, TaskStates

\* A workflow begins.
LEMMA BeginWorkflowIInv ==
  ASSUME IInv, BeginWorkflow
  PROVE  IInv' /\ Moved
<1>. USE CodeGenAssumption
<1>0. TypeOK /\ Workflows /\ Cycles /\ Convergence /\ Polling /\ Marked
  BY DEF IInv
<1>a. UNCHANGED <<deleted, cycleCount, cycle, rows, processed, review, posted, resolved, ticket, prompted, left>>
  BY DEF dbVars, outVars, BeginWorkflow
<1>b. op.at = "idle" /\ queue # <<>> /\ queue' = Tail(queue) /\ Head(queue).kind = "workflow"
  BY DEF BeginWorkflow
<1>c. /\ queue' \in Seq(Items) /\ Head(queue) \in Items /\ Head(queue) = queue[1]
      /\ 1 \in DOMAIN queue
      /\ \A i \in DOMAIN queue' : i + 1 \in DOMAIN queue /\ i + 1 # 1 /\ queue'[i] = queue[i + 1]
      /\ \A i, j \in DOMAIN queue' : i + 1 = j + 1 => i = j
  BY <1>0, <1>b, TailItems
<1>d. (IF deleted THEN Head(queue).seen ELSE state) \in TaskStates
  BY <1>0, <1>c DEF TypeOK, Items
<1>e. state' = IF state = "AGENT_RUNNING" THEN "RETRY_CYCLE" ELSE state
  BY <1>0, <1>b DEF BeginWorkflow, Cycles, Terminal
<1>f. state' = state \/ state' \in Machine!Edges[state]
  BY <1>e DEF Machine!Edges
<1>m. mark' \in {"none", "pause", "delete"}
  BY <1>0, MarkType DEF BeginWorkflow
<1>1. CASE Entry(IF deleted THEN Head(queue).seen ELSE state) = "idle"
  <2>p. op' = Idle
    BY <1>1 DEF BeginWorkflow
  <2>q. op' \in Operations /\ op'.at = "idle" /\ op'.kind = "none" /\ op'.todo = {} /\ op'.feedback = {}
    BY <2>p, IdleType
  <2>r. state # "AGENT_RUNNING"
    BY <1>0, <1>1, <1>d, <1>e, EntryOf DEF Cycles, Terminal
  <2>1. TypeOK'
    BY <1>0, <1>a, <1>b, <1>c, <1>d, <1>e, <1>f, <1>m, <1>1, <2>p, <2>q, <2>r DEF TypeOK, TaskStates
  <2>2. Workflows'
    BY <1>0, <1>a, <1>b, <1>c, <1>d, <1>e, <1>f, <1>1, <2>p, <2>q, <2>r DEF Workflows, IsWorkflow, TypeOK
  <2>3. Cycles'
    BY <1>0, <1>a, <1>b, <1>d, <1>e, <1>f, <1>1, <2>p, <2>q, <2>r DEF Cycles, Bound, Terminal, TypeOK, Workflows
  <2>4. Convergence'
    BY <1>0, <1>a, <1>b, <1>c, <1>d, <1>e, <1>f, <1>1, <2>p, <2>q, <2>r DEF Convergence, Converging, Merged, Terminal, TypeOK, Cycles, Workflows
  <2>5. Polling'
    BY <1>0, <1>a, <1>b, <1>d, <1>e, <1>f, <1>1, <2>p, <2>q, <2>r DEF Polling, Merged, Target, TypeOK, Cycles
  <2>6. Marked'
    BY <1>0, <1>a, <1>b, <1>d, <1>1, <2>p, <2>q DEF Marked, Reading, TypeOK
  <2>7. Moved
    BY <1>0, <1>a, <1>b, <1>c, <1>d, <1>e, <1>f, <1>m, <1>1, <2>p, <2>q, <2>r DEF Moved
  <2> QED
    BY <2>1, <2>2, <2>3, <2>4, <2>5, <2>6, <2>7 DEF IInv
<1>2. CASE Entry(IF deleted THEN Head(queue).seen ELSE state) # "idle"
  <2>p. op' = [Idle EXCEPT !.at = Entry(IF deleted THEN Head(queue).seen ELSE state), !.kind = "workflow"]
    BY <1>2 DEF BeginWorkflow
  <2>q. PICK l \in {"start", "lease", "check", "close"} :
          l = Entry(IF deleted THEN Head(queue).seen ELSE state)
    BY <1>2, <1>d, EntryOf
  <2>r. op' \in Operations /\ op'.at = l /\ op'.kind = "workflow" /\ op'.todo = {} /\ op'.feedback = {}
    <3>1. op' = [Idle EXCEPT !.at = l, !.kind = "workflow"]
      BY <2>p, <2>q
    <3>2. l \in Labels
      BY DEF Labels
    <3> QED
      BY <3>1, <3>2, NewOperation
  <2>s. /\ l = "start" => (IF deleted THEN queue[1].seen ELSE state) = "DETECTED"
        /\ l = "lease" => deleted \/ state \in {"CONTEXT_BUILDING", "AGENT_RUNNING", "RETRY_CYCLE"}
        /\ l = "check" => deleted \/ state \in {"IN_REVIEW", "FEEDBACK_PROCESSING"}
        /\ l = "close" => deleted \/ state \in {"MERGED", "CLOSING"}
    BY <1>c, <1>d, <2>q, EntryOf
  <2>t. l = "start" => state \in {"DETECTED", "FAILED", "ABANDONED"}
    BY <1>0, <1>b, <1>c, <2>s DEF Workflows, IsWorkflow
  <2>u. state \in Converging => /\ state' = state /\ l # "start"
                                /\ l \in {"lease", "check"} => deleted
    BY <1>e, <2>q, <2>s, <2>t DEF Converging
  <2>1. TypeOK'
    BY <1>0, <1>a, <1>b, <1>c, <1>d, <1>e, <1>f, <1>m, <1>2, <2>p, <2>q, <2>r, <2>s, <2>t, <2>u DEF TypeOK, TaskStates
  <2>2. Workflows'
    BY <1>0, <1>a, <1>b, <1>c, <1>d, <1>e, <1>f, <1>2, <2>p, <2>q, <2>r, <2>s, <2>t, <2>u DEF Workflows, IsWorkflow, TypeOK
  <2>3. Cycles'
    BY <1>0, <1>a, <1>b, <1>d, <1>e, <1>f, <1>2, <2>p, <2>q, <2>r, <2>s, <2>t, <2>u DEF Cycles, Bound, Terminal, TypeOK, Workflows
  <2>4. Convergence'
    BY <1>0, <1>a, <1>b, <1>c, <1>d, <1>e, <1>f, <1>2, <2>p, <2>q, <2>r, <2>s, <2>t, <2>u DEF Convergence, Converging, Merged, Terminal, TypeOK, Cycles, Workflows
  <2>5. Polling'
    BY <1>0, <1>a, <1>b, <1>d, <1>e, <1>f, <1>2, <2>p, <2>q, <2>r, <2>s, <2>t, <2>u DEF Polling, Merged, Target, TypeOK, Cycles
  <2>6. Marked'
    BY <1>0, <1>a, <1>b, <1>d, <1>2, <2>p, <2>q, <2>r, <2>s, <2>u DEF Marked, Reading, TypeOK
  <2>7. Moved
    BY <1>0, <1>a, <1>b, <1>c, <1>d, <1>e, <1>f, <1>m, <1>2, <2>p, <2>q, <2>r, <2>s, <2>t, <2>u, <1>f DEF Moved
  <2> QED
    BY <2>1, <2>2, <2>3, <2>4, <2>5, <2>6, <2>7 DEF IInv
<1> QED
  BY <1>1, <1>2 DEF BeginWorkflow

\* An abandonment is carried out.
LEMMA BeginAbandonIInv ==
  ASSUME IInv, BeginAbandon
  PROVE  IInv' /\ Moved
<1>. USE CodeGenAssumption
<1>0. TypeOK /\ Workflows /\ Cycles /\ Convergence /\ Polling /\ Marked
  BY DEF IInv
<1>a. UNCHANGED <<deleted, cycleCount, cycle, rows, processed, op, review, posted, resolved, ticket, prompted, left>>
  BY DEF dbVars, outVars, BeginAbandon
<1>b. op.at = "idle" /\ queue # <<>> /\ queue' = Tail(queue)
  BY DEF BeginAbandon
<1>c. /\ queue' \in Seq(Items) /\ Head(queue) \in Items /\ Head(queue) = queue[1]
      /\ 1 \in DOMAIN queue
      /\ \A i \in DOMAIN queue' : i + 1 \in DOMAIN queue /\ i + 1 # 1 /\ queue'[i] = queue[i + 1]
      /\ \A i, j \in DOMAIN queue' : i + 1 = j + 1 => i = j
  BY <1>0, <1>b, TailItems
<1>m. mark' \in {"none", "pause", "delete"}
  BY <1>0, MarkType DEF BeginAbandon
<1>p. state' = IF deleted \/ state \in Terminal THEN state ELSE "ABANDONED"
  BY DEF BeginAbandon
<1>1. TypeOK'
  BY <1>0, <1>a, <1>b, <1>c, <1>m, <1>p DEF TypeOK, TaskStates
<1>2. Workflows'
  BY <1>0, <1>a, <1>b, <1>c, <1>p DEF Workflows, IsWorkflow, TypeOK
<1>3. Cycles'
  BY <1>0, <1>a, <1>b, <1>p DEF Cycles, Bound, Terminal, TypeOK, Workflows
<1>4. Convergence'
  BY <1>0, <1>a, <1>b, <1>c, <1>p DEF Convergence, Converging, Merged, Terminal, TypeOK, Cycles, Workflows
<1>5. Polling'
  BY <1>0, <1>a, <1>b, <1>p DEF Polling, Merged, Target, TypeOK, Cycles
<1>6. Marked'
  BY <1>0, <1>a, <1>b, <1>p DEF Marked, Reading, TypeOK
<1>7. Moved
  BY <1>0, <1>a, <1>b, <1>c, <1>m, <1>p DEF Moved
<1> QED
  BY <1>1, <1>2, <1>3, <1>4, <1>5, <1>6, <1>7 DEF IInv

\* The ticket is taken up.
LEMMA StartTicketIInv ==
  ASSUME IInv, StartTicket
  PROVE  IInv' /\ Moved
<1>. USE CodeGenAssumption
<1>0. TypeOK /\ Workflows /\ Cycles /\ Convergence /\ Polling /\ Marked
  BY DEF IInv
<1>a. UNCHANGED <<deleted, cycleCount, cycle, rows, processed, queue, review, posted, resolved, prompted, left>>
  BY DEF dbVars, outVars, StartTicket, Transition
<1>b. op.at = "start"
  BY DEF StartTicket
<1>m. mark' \in {"none", "pause", "delete"}
  BY <1>0, MarkType DEF StartTicket
<1>1. CASE Throw /\ (ticket' = ticket \/ ticket' = "progress")
  BY <1>a, <1>b, <1>1, <1>m, Throws DEF dbVars
<1>2. CASE Legal("CONTEXT_BUILDING") /\ state' = "CONTEXT_BUILDING" /\ Goto("lease") /\ ticket' = "progress"
  <2>p. op' \in Operations /\ op'.at = "lease" /\ op'.kind = op.kind /\ op'.todo = op.todo /\ op'.allMerged = op.allMerged /\ op'.anyAbandoned = op.anyAbandoned /\ op'.feedback = op.feedback /\ op'.after = op.after
    BY <1>0, <1>2, GotoEffect DEF Labels
  <2>q. ~deleted /\ state \in {"DETECTED", "CONTEXT_BUILDING"} /\ Moved
    BY <1>0, <1>2, LegalFrom DEF TaskStates
  <2>1. TypeOK'
    BY <1>0, <1>a, <1>b, <1>m, <1>2, <2>p, <2>q DEF TypeOK, TaskStates
  <2>2. Workflows'
    BY <1>0, <1>a, <1>b, <1>2, <2>p, <2>q DEF Workflows, IsWorkflow, TypeOK
  <2>3. Cycles'
    BY <1>0, <1>a, <1>b, <1>2, <2>p, <2>q DEF Cycles, Bound, Terminal, TypeOK, Workflows
  <2>4. Convergence'
    BY <1>0, <1>a, <1>b, <1>2, <2>p, <2>q DEF Convergence, Converging, Merged, Terminal, TypeOK, Cycles, Workflows
  <2>5. Polling'
    BY <1>0, <1>a, <1>b, <1>2, <2>p, <2>q DEF Polling, Merged, Target, TypeOK, Cycles
  <2>6. Marked'
    BY <1>0, <1>a, <1>b, <2>p, <2>q DEF Marked, Reading, TypeOK
  <2>7. Moved
    BY <1>0, <1>a, <1>b, <1>m, <1>2, <2>p, <2>q DEF Moved
  <2> QED
    BY <2>1, <2>2, <2>3, <2>4, <2>5, <2>6, <2>7 DEF IInv
<1> QED
  BY <1>1, <1>2 DEF StartTicket, Transition

\* The note has been posted.
LEMMA NotifiedIInv ==
  ASSUME IInv, Notified
  PROVE  IInv' /\ Moved
<1>0. TypeOK /\ Cycles
  BY DEF IInv
<1>1. /\ op.at = "notify" /\ Stop /\ state' = state
      /\ UNCHANGED <<mark, dbVars, queue, review, posted, resolved, ticket, prompted, left>>
  BY DEF Notified, outVars
<1>2. state # "AGENT_RUNNING"
  BY <1>0, <1>1 DEF Cycles
<1> QED
  BY <1>0, <1>1, <1>2, Stops DEF TypeOK

-----------------------------------------------------------------------------
(* The agent cycle.                                                        *)

\* The slot is granted, or the wait aborted.
LEMMA AcquireLeaseIInv ==
  ASSUME IInv, AcquireLease
  PROVE  IInv' /\ Moved
<1>. USE CodeGenAssumption
<1>0. TypeOK /\ Workflows /\ Cycles /\ Convergence /\ Polling /\ Marked
  BY DEF IInv
<1>a. UNCHANGED <<state, mark, deleted, cycleCount, cycle, rows, processed, queue, review, posted, resolved, ticket, prompted, left>>
  BY DEF dbVars, outVars, AcquireLease, AfterCycle
<1>b. op.at = "lease"
  BY DEF AcquireLease
<1>1. CASE Stop
  BY <1>0, <1>a, <1>b, <1>1, Stops DEF TypeOK, dbVars, Cycles
<1>2. CASE Goto("prompt")
  <2>p. op' \in Operations /\ op'.at = "prompt" /\ op'.kind = op.kind /\ op'.todo = op.todo /\ op'.allMerged = op.allMerged /\ op'.anyAbandoned = op.anyAbandoned /\ op'.feedback = op.feedback /\ op'.after = op.after
    BY <1>0, <1>2, GotoEffect DEF Labels
  <2>1. TypeOK'
    BY <1>0, <1>a, <1>b, <1>2, <2>p DEF TypeOK, TaskStates
  <2>2. Workflows'
    BY <1>0, <1>a, <1>b, <1>2, <2>p DEF Workflows, IsWorkflow, TypeOK
  <2>3. Cycles'
    BY <1>0, <1>a, <1>b, <1>2, <2>p DEF Cycles, Bound, Terminal, TypeOK, Workflows
  <2>4. Convergence'
    BY <1>0, <1>a, <1>b, <1>2, <2>p DEF Convergence, Converging, Merged, Terminal, TypeOK, Cycles, Workflows
  <2>5. Polling'
    BY <1>0, <1>a, <1>b, <1>2, <2>p DEF Polling, Merged, Target, TypeOK, Cycles
  <2>6. Marked'
    BY <1>0, <1>a, <1>b, <1>2, <2>p DEF Marked, Reading, TypeOK
  <2>7. Moved
    BY <1>0, <1>a, <1>b, <1>2, <2>p DEF Moved
  <2> QED
    BY <2>1, <2>2, <2>3, <2>4, <2>5, <2>6, <2>7 DEF IInv
<1>3. CASE Goto("resolve") /\ state = "IN_REVIEW"
  <2>p. op' \in Operations /\ op'.at = "resolve" /\ op'.kind = op.kind /\ op'.todo = op.todo /\ op'.allMerged = op.allMerged /\ op'.anyAbandoned = op.anyAbandoned /\ op'.feedback = op.feedback /\ op'.after = op.after
    BY <1>0, <1>3, GotoEffect DEF Labels
  <2>1. TypeOK'
    BY <1>0, <1>a, <1>b, <1>3, <2>p DEF TypeOK, TaskStates
  <2>2. Workflows'
    BY <1>0, <1>a, <1>b, <1>3, <2>p DEF Workflows, IsWorkflow, TypeOK
  <2>3. Cycles'
    BY <1>0, <1>a, <1>b, <1>3, <2>p DEF Cycles, Bound, Terminal, TypeOK, Workflows
  <2>4. Convergence'
    BY <1>0, <1>a, <1>b, <1>3, <2>p DEF Convergence, Converging, Merged, Terminal, TypeOK, Cycles, Workflows
  <2>5. Polling'
    BY <1>0, <1>a, <1>b, <1>3, <2>p DEF Polling, Merged, Target, TypeOK, Cycles
  <2>6. Marked'
    BY <1>0, <1>a, <1>b, <2>p DEF Marked, Reading, TypeOK
  <2>7. Moved
    BY <1>0, <1>a, <1>b, <1>3, <2>p DEF Moved
  <2> QED
    BY <2>1, <2>2, <2>3, <2>4, <2>5, <2>6, <2>7 DEF IInv
<1> QED
  BY <1>1, <1>2, <1>3 DEF AcquireLease, AfterCycle

\* The agent is started.
LEMMA StartCycleIInv ==
  ASSUME IInv, StartCycle
  PROVE  IInv' /\ Moved
<1>. USE CodeGenAssumption
<1>0. TypeOK /\ Workflows /\ Cycles /\ Convergence /\ Polling /\ Marked
  BY DEF IInv
<1>a. UNCHANGED <<deleted, rows, processed, queue, review, posted, resolved, ticket, left>>
  BY DEF dbVars, outVars, StartCycle
<1>b. op.at = "prompt"
  BY DEF StartCycle
<1>m. mark' \in {"none", "pause", "delete"}
  BY <1>0, MarkType DEF StartCycle
<1>1. CASE Throw /\ UNCHANGED <<cycle, cycleCount, prompted>>
  BY <1>a, <1>b, <1>1, <1>m, Throws DEF dbVars
<1>2. CASE /\ Legal("AGENT_RUNNING") /\ Transition("AGENT_RUNNING", "agent") /\ cycle' = "running"
           /\ cycleCount' = IF state = "AGENT_RUNNING" /\ cycle = "running"
                            THEN cycleCount ELSE cycleCount + 1
           /\ prompted' = prompted \cup op.feedback
  <2>p. /\ ~deleted /\ state \in {"CONTEXT_BUILDING", "RETRY_CYCLE"} /\ state' = "AGENT_RUNNING" /\ Goto("agent")
        /\ Moved
    BY <1>0, <1>b, <1>2, LegalFrom DEF Transition, TaskStates, Cycles
  <2>q. op' \in Operations /\ op'.at = "agent" /\ op'.kind = op.kind /\ op'.todo = op.todo /\ op'.allMerged = op.allMerged /\ op'.anyAbandoned = op.anyAbandoned /\ op'.feedback = op.feedback /\ op'.after = op.after
    BY <1>0, <2>p, GotoEffect DEF Labels
  <2>r. cycleCount' = cycleCount + 1 /\ op.feedback \in SUBSET Comments
    BY <1>0, <1>2, <2>p DEF TypeOK, Operations
  <2>s. op.kind # "workflow" => op.kind = "handler" /\ cycleCount <= MaxAgentCycles
    BY <1>0, <1>b, <2>p DEF TypeOK, Operations, Workflows, Cycles
  <2>t. /\ MaxRetries - left.retry \in Nat /\ MaxAgentCycles \in Nat /\ cycleCount \in Nat
    BY <1>0 DEF TypeOK
  <2>1. TypeOK'
    BY <1>0, <1>a, <1>b, <1>m, <1>2, <2>p, <2>q, <2>r, <2>s, <2>t DEF TypeOK, TaskStates
  <2>2. Workflows'
    BY <1>0, <1>a, <1>b, <1>2, <2>p, <2>q, <2>r, <2>s DEF Workflows, IsWorkflow, TypeOK
  <2>3. Cycles'
    BY <1>0, <1>a, <1>b, <1>2, <2>p, <2>q, <2>r, <2>s, <2>t DEF Cycles, Bound, Terminal, TypeOK, Workflows
  <2>4. Convergence'
    BY <1>0, <1>a, <1>b, <1>2, <2>p, <2>q, <2>r, <2>s DEF Convergence, Converging, Merged, Terminal, TypeOK, Cycles, Workflows
  <2>5. Polling'
    BY <1>0, <1>a, <1>b, <1>2, <2>p, <2>q, <2>r, <2>s DEF Polling, Merged, Target, TypeOK, Cycles
  <2>6. Marked'
    BY <1>0, <1>a, <1>b, <1>2, <2>p, <2>q, <2>r, <2>s DEF Marked, Reading, TypeOK
  <2>7. Moved
    BY <1>0, <1>a, <1>b, <1>m, <1>2, <2>p, <2>q, <2>r, <2>s, <2>t, <2>p
  <2> QED
    BY <2>1, <2>2, <2>3, <2>4, <2>5, <2>6, <2>7 DEF IInv
<1> QED
  BY <1>1, <1>2 DEF StartCycle

\* The agent throws.
LEMMA AgentThrowsIInv ==
  ASSUME IInv, AgentThrows
  PROVE  IInv' /\ Moved
<1>. USE CodeGenAssumption
<1>0. TypeOK /\ Workflows /\ Cycles /\ Convergence /\ Polling /\ Marked
  BY DEF IInv
<1>a. UNCHANGED <<deleted, cycleCount, rows, processed, queue, review, posted, resolved, ticket, prompted, left>>
  BY DEF dbVars, outVars, AgentThrows
<1>b. op.at = "agent"
  BY DEF AgentThrows
<1>m. mark' \in {"none", "pause", "delete"}
  BY <1>0, MarkType DEF AgentThrows
<1>1. CASE CycleThrows
  BY <1>0, <1>a, <1>b, <1>1, <1>m, Breaks DEF TypeOK
<1> QED
  BY <1>1 DEF AgentThrows

\* The agent of the project is not known.
LEMMA AgentUnresolvedIInv ==
  ASSUME IInv, AgentUnresolved
  PROVE  IInv' /\ Moved
<1>. USE CodeGenAssumption
<1>0. TypeOK /\ Workflows /\ Cycles /\ Convergence /\ Polling /\ Marked
  BY DEF IInv
<1>a. UNCHANGED <<deleted, cycleCount, cycle, rows, processed, queue, review, posted, resolved, ticket, prompted, left>>
  BY DEF dbVars, outVars, AgentUnresolved
<1>b. op.at = "agent"
  BY DEF AgentUnresolved
<1>m. mark' \in {"none", "pause", "delete"}
  BY <1>0, MarkType DEF AgentUnresolved
<1>1. CASE deleted \/ state \in Terminal
  <2>p. state' = state
    BY <1>1 DEF AgentUnresolved
  <2>q. op' \in Operations /\ op'.at = "cleanup" /\ op'.kind = op.kind /\ op'.after = "return" /\ op'.todo = op.todo
    BY <1>0, LeaveEffect DEF AgentUnresolved
  <2>1. TypeOK'
    BY <1>0, <1>a, <1>b, <1>m, <1>1, <2>p, <2>q DEF TypeOK, TaskStates
  <2>2. Workflows'
    BY <1>0, <1>a, <1>b, <1>1, <2>p, <2>q DEF Workflows, IsWorkflow, TypeOK
  <2>3. Cycles'
    BY <1>0, <1>a, <1>b, <1>1, <2>p, <2>q DEF Cycles, Bound, Terminal, TypeOK, Workflows
  <2>4. Convergence'
    BY <1>0, <1>a, <1>b, <1>1, <2>p, <2>q DEF Convergence, Converging, Merged, Terminal, TypeOK, Cycles, Workflows
  <2>5. Polling'
    BY <1>0, <1>a, <1>b, <1>1, <2>p, <2>q DEF Polling, Merged, Target, TypeOK, Cycles
  <2>6. Marked'
    BY <1>0, <1>a, <1>b, <1>1, <2>q DEF Marked, Reading, TypeOK
  <2>7. Moved
    BY <1>0, <1>a, <1>b, <1>m, <1>1, <2>p, <2>q DEF Moved
  <2> QED
    BY <2>1, <2>2, <2>3, <2>4, <2>5, <2>6, <2>7 DEF IInv
<1>2. CASE ~(deleted \/ state \in Terminal)
  <2>p. state' = "FAILED"
    BY <1>2 DEF AgentUnresolved
  <2>q. op' \in Operations /\ op'.at = "cleanup" /\ op'.kind = op.kind /\ op'.after = "return" /\ op'.todo = op.todo
    BY <1>0, LeaveEffect DEF AgentUnresolved
  <2>1. TypeOK'
    BY <1>0, <1>a, <1>b, <1>m, <1>2, <2>p, <2>q DEF TypeOK, TaskStates
  <2>2. Workflows'
    BY <1>0, <1>a, <1>b, <1>2, <2>p, <2>q DEF Workflows, IsWorkflow, TypeOK
  <2>3. Cycles'
    BY <1>0, <1>a, <1>b, <1>2, <2>p, <2>q DEF Cycles, Bound, Terminal, TypeOK, Workflows
  <2>4. Convergence'
    BY <1>0, <1>a, <1>b, <1>2, <2>p, <2>q DEF Convergence, Converging, Merged, Terminal, TypeOK, Cycles, Workflows
  <2>5. Polling'
    BY <1>0, <1>a, <1>b, <1>2, <2>p, <2>q DEF Polling, Merged, Target, TypeOK, Cycles
  <2>6. Marked'
    BY <1>0, <1>a, <1>b, <1>2, <2>q DEF Marked, Reading, TypeOK
  <2>7. Moved
    BY <1>0, <1>a, <1>b, <1>m, <1>2, <2>p, <2>q, MayFail
  <2> QED
    BY <2>1, <2>2, <2>3, <2>4, <2>5, <2>6, <2>7 DEF IInv
<1> QED
  BY <1>1, <1>2 DEF AgentUnresolved

\* A result that comes too late is discarded.
LEMMA ResultDiscardedIInv ==
  ASSUME IInv, ResultDiscarded
  PROVE  IInv' /\ Moved
<1>. USE CodeGenAssumption
<1>0. TypeOK /\ Workflows /\ Cycles /\ Convergence /\ Polling /\ Marked
  BY DEF IInv
<1>a. UNCHANGED <<state, mark, deleted, cycleCount, rows, processed, queue, review, posted, resolved, ticket, prompted, left>>
  BY DEF dbVars, outVars, ResultDiscarded
<1>b. op.at = "agent"
  BY DEF ResultDiscarded
<1>p. op' \in Operations /\ op'.at = "cleanup" /\ op'.kind = op.kind /\ op'.after = "return" /\ op'.todo = op.todo
  BY <1>0, LeaveEffect DEF ResultDiscarded
<1>q. state \in Terminal /\ cycle' \in {cycle, "failed"}
  BY <1>0 DEF ResultDiscarded, Cycles
<1>1. TypeOK'
  BY <1>0, <1>a, <1>b, <1>p, <1>q DEF TypeOK, TaskStates
<1>2. Workflows'
  BY <1>0, <1>a, <1>b, <1>p, <1>q DEF Workflows, IsWorkflow, TypeOK
<1>3. Cycles'
  BY <1>0, <1>a, <1>b, <1>p, <1>q DEF Cycles, Bound, Terminal, TypeOK, Workflows
<1>4. Convergence'
  BY <1>0, <1>a, <1>b, <1>p, <1>q DEF Convergence, Converging, Merged, Terminal, TypeOK, Cycles, Workflows
<1>5. Polling'
  BY <1>0, <1>a, <1>b, <1>p, <1>q DEF Polling, Merged, Target, TypeOK, Cycles
<1>6. Marked'
  BY <1>0, <1>a, <1>b, <1>p DEF Marked, Reading, TypeOK
<1>7. Moved
  BY <1>0, <1>a, <1>b, <1>p, <1>q DEF Moved
<1> QED
  BY <1>1, <1>2, <1>3, <1>4, <1>5, <1>6, <1>7 DEF IInv

\* The agent has changed nothing.
LEMMA AgentChangedNothingIInv ==
  ASSUME IInv, AgentChangedNothing
  PROVE  IInv' /\ Moved
<1>. USE CodeGenAssumption
<1>0. TypeOK /\ Workflows /\ Cycles /\ Convergence /\ Polling /\ Marked
  BY DEF IInv
<1>a. UNCHANGED <<deleted, cycleCount, rows, processed, queue, review, posted, resolved, ticket, prompted, left>>
  BY DEF dbVars, outVars, AgentChangedNothing
<1>b. op.at = "agent" /\ ~deleted /\ state \notin Terminal
  BY DEF AgentChangedNothing, ResultKept
<1>m. mark' \in {"none", "pause", "delete"}
  BY <1>0, MarkType DEF AgentChangedNothing
<1>1. CASE CycleThrows
  BY <1>0, <1>a, <1>b, <1>1, <1>m, Breaks DEF TypeOK
<1>2. CASE state' = "ABANDONED" /\ cycle' = "no_change" /\ Leave("return")
  <2>p. op' \in Operations /\ op'.at = "cleanup" /\ op'.kind = op.kind /\ op'.after = "return" /\ op'.todo = op.todo
    BY <1>0, <1>2, LeaveEffect DEF Leave
  <2>1. TypeOK'
    BY <1>0, <1>a, <1>b, <1>m, <1>2, <2>p DEF TypeOK, TaskStates
  <2>2. Workflows'
    BY <1>0, <1>a, <1>b, <1>2, <2>p DEF Workflows, IsWorkflow, TypeOK
  <2>3. Cycles'
    BY <1>0, <1>a, <1>b, <1>2, <2>p DEF Cycles, Bound, Terminal, TypeOK, Workflows
  <2>4. Convergence'
    BY <1>0, <1>a, <1>b, <1>2, <2>p DEF Convergence, Converging, Merged, Terminal, TypeOK, Cycles, Workflows
  <2>5. Polling'
    BY <1>0, <1>a, <1>b, <1>2, <2>p DEF Polling, Merged, Target, TypeOK, Cycles
  <2>6. Marked'
    BY <1>0, <1>a, <1>b, <2>p DEF Marked, Reading, TypeOK
  <2>7. Moved
    BY <1>0, <1>a, <1>b, <1>m, <1>2, <2>p DEF Moved
  <2> QED
    BY <2>1, <2>2, <2>3, <2>4, <2>5, <2>6, <2>7 DEF IInv
<1> QED
  BY <1>1, <1>2 DEF AgentChangedNothing

\* The agent has failed.
LEMMA AgentReportsFailureIInv ==
  ASSUME IInv, AgentReportsFailure
  PROVE  IInv' /\ Moved
<1>. USE CodeGenAssumption
<1>0. TypeOK /\ Workflows /\ Cycles /\ Convergence /\ Polling /\ Marked
  BY DEF IInv
<1>a. UNCHANGED <<deleted, cycleCount, rows, processed, queue, review, posted, resolved, ticket, prompted, left>>
  BY DEF dbVars, outVars, AgentReportsFailure
<1>b. op.at = "agent" /\ ~deleted /\ state \notin Terminal
  BY DEF AgentReportsFailure, ResultKept
<1>m. mark' \in {"none", "pause", "delete"}
  BY <1>0, MarkType DEF AgentReportsFailure
<1>1. CASE CycleThrows
  BY <1>0, <1>a, <1>b, <1>1, <1>m, Breaks DEF TypeOK
<1>2. CASE state' = "ABANDONED" /\ cycle' = "failed" /\ Leave("return")
  <2>p. op' \in Operations /\ op'.at = "cleanup" /\ op'.kind = op.kind /\ op'.after = "return" /\ op'.todo = op.todo
    BY <1>0, <1>2, LeaveEffect DEF Leave
  <2>1. TypeOK'
    BY <1>0, <1>a, <1>b, <1>m, <1>2, <2>p DEF TypeOK, TaskStates
  <2>2. Workflows'
    BY <1>0, <1>a, <1>b, <1>2, <2>p DEF Workflows, IsWorkflow, TypeOK
  <2>3. Cycles'
    BY <1>0, <1>a, <1>b, <1>2, <2>p DEF Cycles, Bound, Terminal, TypeOK, Workflows
  <2>4. Convergence'
    BY <1>0, <1>a, <1>b, <1>2, <2>p DEF Convergence, Converging, Merged, Terminal, TypeOK, Cycles, Workflows
  <2>5. Polling'
    BY <1>0, <1>a, <1>b, <1>2, <2>p DEF Polling, Merged, Target, TypeOK, Cycles
  <2>6. Marked'
    BY <1>0, <1>a, <1>b, <2>p DEF Marked, Reading, TypeOK
  <2>7. Moved
    BY <1>0, <1>a, <1>b, <1>m, <1>2, <2>p DEF Moved
  <2> QED
    BY <2>1, <2>2, <2>3, <2>4, <2>5, <2>6, <2>7 DEF IInv
<1>3. CASE /\ ~AtLimit(cycleCount) /\ Legal("RETRY_CYCLE") /\ state' = "RETRY_CYCLE" /\ cycle' = "failed" /\ Leave("retry")
  <2>p. op' \in Operations /\ op'.at = "cleanup" /\ op'.kind = op.kind /\ op'.after = "retry" /\ op'.todo = op.todo
    BY <1>0, <1>3, LeaveEffect DEF Leave
  <2>q. ~deleted /\ state \in {"AGENT_RUNNING", "RETRY_CYCLE", "FEEDBACK_PROCESSING"} /\ Moved
    BY <1>0, <1>3, LegalFrom DEF TaskStates
  <2>r. /\ MaxRetries - left.retry \in Nat /\ MaxAgentCycles \in Nat /\ cycleCount \in Nat /\ cycleCount < MaxAgentCycles
    BY <1>0, <1>3 DEF TypeOK, AtLimit
  <2>1. TypeOK'
    BY <1>0, <1>a, <1>b, <1>m, <1>3, <2>p, <2>q, <2>r DEF TypeOK, TaskStates
  <2>2. Workflows'
    BY <1>0, <1>a, <1>b, <1>3, <2>p, <2>q DEF Workflows, IsWorkflow, TypeOK
  <2>3. Cycles'
    BY <1>0, <1>a, <1>b, <1>3, <2>p, <2>q, <2>r DEF Cycles, Bound, Terminal, TypeOK, Workflows
  <2>4. Convergence'
    BY <1>0, <1>a, <1>b, <1>3, <2>p, <2>q DEF Convergence, Converging, Merged, Terminal, TypeOK, Cycles, Workflows
  <2>5. Polling'
    BY <1>0, <1>a, <1>b, <1>3, <2>p, <2>q DEF Polling, Merged, Target, TypeOK, Cycles
  <2>6. Marked'
    BY <1>0, <1>a, <1>b, <2>p, <2>q DEF Marked, Reading, TypeOK
  <2>7. Moved
    BY <1>0, <1>a, <1>b, <1>m, <1>3, <2>p, <2>q, <2>r, <2>q
  <2> QED
    BY <2>1, <2>2, <2>3, <2>4, <2>5, <2>6, <2>7 DEF IInv
<1> QED
  BY <1>1, <1>2, <1>3 DEF AgentReportsFailure

\* The agent has succeeded.
LEMMA AgentSucceedsIInv ==
  ASSUME IInv, AgentSucceeds
  PROVE  IInv' /\ Moved
<1>. USE CodeGenAssumption
<1>0. TypeOK /\ Workflows /\ Cycles /\ Convergence /\ Polling /\ Marked
  BY DEF IInv
<1>a. UNCHANGED <<state, mark, deleted, cycleCount, rows, processed, queue, review, posted, resolved, ticket, prompted, left>>
  BY DEF dbVars, outVars, AgentSucceeds
<1>b. op.at = "agent" /\ ~deleted /\ state \notin Terminal
  BY DEF AgentSucceeds, ResultKept
<1>p. op' \in Operations /\ op'.at = "push" /\ op'.kind = op.kind /\ op'.todo = Repos /\ op'.allMerged = op.allMerged /\ op'.anyAbandoned = op.anyAbandoned /\ op'.feedback = op.feedback /\ op'.after = op.after
  BY <1>0 DEF AgentSucceeds, TypeOK, Operations, Labels
<1>q. cycle' = "success"
  BY DEF AgentSucceeds
<1>1. TypeOK'
  BY <1>0, <1>a, <1>b, <1>p, <1>q DEF TypeOK, TaskStates
<1>2. Workflows'
  BY <1>0, <1>a, <1>b, <1>p DEF Workflows, IsWorkflow, TypeOK
<1>3. Cycles'
  BY <1>0, <1>a, <1>b, <1>p, <1>q DEF Cycles, Bound, Terminal, TypeOK, Workflows
<1>4. Convergence'
  BY <1>0, <1>a, <1>b, <1>p DEF Convergence, Converging, Merged, Terminal, TypeOK, Cycles, Workflows
<1>5. Polling'
  BY <1>0, <1>a, <1>b, <1>p DEF Polling, Merged, Target, TypeOK, Cycles
<1>6. Marked'
  BY <1>0, <1>a, <1>b, <1>p DEF Marked, Reading, TypeOK
<1>7. Moved
  BY <1>0, <1>a, <1>b, <1>p, <1>q DEF Moved
<1> QED
  BY <1>1, <1>2, <1>3, <1>4, <1>5, <1>6, <1>7 DEF IInv

\* The workspace is gone.
LEMMA CleanupIInv ==
  ASSUME IInv, Cleanup
  PROVE  IInv' /\ Moved
<1>. USE CodeGenAssumption
<1>0. TypeOK /\ Workflows /\ Cycles /\ Convergence /\ Polling /\ Marked
  BY DEF IInv
<1>a. UNCHANGED <<deleted, cycleCount, cycle, rows, processed, queue, review, posted, resolved, ticket, prompted, left>>
  BY DEF dbVars, outVars, Cleanup, AfterCycle
<1>b. op.at = "cleanup" /\ op.after \in {"return", "retry", "throw"}
  BY <1>0 DEF Cleanup, TypeOK, Operations
<1>m. mark' \in {"none", "pause", "delete"}
  BY <1>0, MarkType DEF Cleanup
<1>1. CASE op.after = "return" /\ Stop /\ state' = state
  BY <1>0, <1>a, <1>b, <1>1, <1>m, Stops DEF TypeOK, dbVars, Cycles
<1>2. CASE op.after = "return" /\ Goto("resolve") /\ state' = state
  <2>p. op' \in Operations /\ op'.at = "resolve" /\ op'.kind = op.kind /\ op'.todo = op.todo /\ op'.allMerged = op.allMerged /\ op'.anyAbandoned = op.anyAbandoned /\ op'.feedback = op.feedback /\ op'.after = op.after
    BY <1>0, <1>2, GotoEffect DEF Labels
  <2>1. TypeOK'
    BY <1>0, <1>a, <1>b, <1>m, <1>2, <2>p DEF TypeOK, TaskStates
  <2>2. Workflows'
    BY <1>0, <1>a, <1>b, <1>2, <2>p DEF Workflows, IsWorkflow, TypeOK
  <2>3. Cycles'
    BY <1>0, <1>a, <1>b, <1>2, <2>p DEF Cycles, Bound, Terminal, TypeOK, Workflows
  <2>4. Convergence'
    BY <1>0, <1>a, <1>b, <1>2, <2>p DEF Convergence, Converging, Merged, Terminal, TypeOK, Cycles, Workflows
  <2>5. Polling'
    BY <1>0, <1>a, <1>b, <1>2, <2>p DEF Polling, Merged, Target, TypeOK, Cycles
  <2>6. Marked'
    BY <1>0, <1>a, <1>b, <1>2, <2>p DEF Marked, Reading, TypeOK
  <2>7. Moved
    BY <1>0, <1>a, <1>b, <1>m, <1>2, <2>p DEF Moved
  <2> QED
    BY <2>1, <2>2, <2>3, <2>4, <2>5, <2>6, <2>7 DEF IInv
<1>3. CASE op.after = "retry" /\ op' = [op EXCEPT !.at = "lease", !.feedback = {}] /\ state' = state
  <2>p. op' \in Operations /\ op'.at = "lease" /\ op'.kind = op.kind /\ op'.todo = op.todo /\ op'.allMerged = op.allMerged /\ op'.anyAbandoned = op.anyAbandoned /\ op'.feedback = {} /\ op'.after = op.after
    BY <1>0, <1>3 DEF TypeOK, Operations, Labels
  <2>1. TypeOK'
    BY <1>0, <1>a, <1>b, <1>m, <1>3, <2>p DEF TypeOK, TaskStates
  <2>2. Workflows'
    BY <1>0, <1>a, <1>b, <1>3, <2>p DEF Workflows, IsWorkflow, TypeOK
  <2>3. Cycles'
    BY <1>0, <1>a, <1>b, <1>3, <2>p DEF Cycles, Bound, Terminal, TypeOK, Workflows
  <2>4. Convergence'
    BY <1>0, <1>a, <1>b, <1>3, <2>p DEF Convergence, Converging, Merged, Terminal, TypeOK, Cycles, Workflows
  <2>5. Polling'
    BY <1>0, <1>a, <1>b, <1>3, <2>p DEF Polling, Merged, Target, TypeOK, Cycles
  <2>6. Marked'
    BY <1>0, <1>a, <1>b, <1>3, <2>p DEF Marked, Reading, TypeOK
  <2>7. Moved
    BY <1>0, <1>a, <1>b, <1>m, <1>3, <2>p DEF Moved
  <2> QED
    BY <2>1, <2>2, <2>3, <2>4, <2>5, <2>6, <2>7 DEF IInv
<1>4. CASE op.after = "throw" /\ Throw
  BY <1>a, <1>b, <1>4, <1>m, Throws DEF dbVars
<1> QED
  BY <1>b, <1>1, <1>2, <1>3, <1>4 DEF Cleanup, AfterCycle

-----------------------------------------------------------------------------
(* The push.                                                               *)

\* A target is not ahead of its branch.
LEMMA SkipTargetIInv ==
  ASSUME IInv, SkipTarget
  PROVE  IInv' /\ Moved
<1>. USE CodeGenAssumption
<1>0. TypeOK /\ Workflows /\ Cycles /\ Convergence /\ Polling /\ Marked
  BY DEF IInv
<1>a. UNCHANGED <<state, mark, deleted, cycleCount, cycle, processed, queue, review, posted, resolved, ticket, prompted, left>>
  BY DEF dbVars, outVars, SkipTarget
<1>b. op.at = "push"
  BY DEF SkipTarget
<1>c. Target \in op.todo /\ Target \in Repos
  BY <1>0, TargetOf DEF SkipTarget
<1>p. op' \in Operations /\ op'.at = "push" /\ op'.kind = op.kind /\ op'.todo = op.todo \ {Target} /\ op'.allMerged = op.allMerged /\ op'.anyAbandoned = op.anyAbandoned /\ op'.feedback = op.feedback /\ op'.after = op.after
  BY <1>0 DEF SkipTarget, TypeOK, Operations, Labels
<1>q. /\ rows' \in [Repos -> RowStatus]
      /\ \A r \in Repos : rows'[r] = rows[r] \/ rows'[r] = "NO_CHANGE"
  BY <1>0, <1>c DEF SkipTarget, TypeOK, RowStatus
<1>1. TypeOK'
  BY <1>0, <1>a, <1>b, <1>c, <1>p, <1>q DEF TypeOK, TaskStates
<1>2. Workflows'
  BY <1>0, <1>a, <1>b, <1>c, <1>p DEF Workflows, IsWorkflow, TypeOK
<1>3. Cycles'
  BY <1>0, <1>a, <1>b, <1>c, <1>p DEF Cycles, Bound, Terminal, TypeOK, Workflows
<1>4. Convergence'
  BY <1>0, <1>a, <1>b, <1>c, <1>p, <1>q DEF Convergence, Converging, Merged, Terminal, TypeOK, Cycles, Workflows
<1>5. Polling'
  BY <1>0, <1>a, <1>b, <1>c, <1>p, <1>q DEF Polling, Merged, Target, TypeOK, Cycles
<1>6. Marked'
  BY <1>0, <1>a, <1>b, <1>c, <1>p DEF Marked, Reading, TypeOK
<1>7. Moved
  BY <1>0, <1>a, <1>b, <1>c, <1>p, <1>q DEF Moved
<1> QED
  BY <1>1, <1>2, <1>3, <1>4, <1>5, <1>6, <1>7 DEF IInv

\* A target is pushed.
LEMMA PushTargetIInv ==
  ASSUME IInv, PushTarget
  PROVE  IInv' /\ Moved
<1>. USE CodeGenAssumption
<1>0. TypeOK /\ Workflows /\ Cycles /\ Convergence /\ Polling /\ Marked
  BY DEF IInv
<1>a. UNCHANGED <<state, mark, deleted, cycleCount, cycle, rows, processed, queue, posted, resolved, ticket, prompted, left>>
  BY DEF dbVars, outVars, PushTarget
<1>b. op.at = "push" /\ op.todo # {}
  BY DEF PushTarget
<1>c. Target \in op.todo /\ Target \in Repos
  BY <1>0, TargetOf DEF PushTarget
<1>p. op' \in Operations /\ op'.at = "record" /\ op'.kind = op.kind /\ op'.todo = op.todo /\ op'.allMerged = op.allMerged /\ op'.anyAbandoned = op.anyAbandoned /\ op'.feedback = op.feedback /\ op'.after = op.after
  BY <1>0, GotoEffect DEF PushTarget, Labels
<1>q. /\ review' \in [Repos -> {"none", "OPEN", "MERGED", "ABANDONED"}] /\ review'[Target] = "OPEN"
      /\ \A r \in Repos : review'[r] = review[r] \/ review'[r] = "OPEN"
  BY <1>0, <1>c DEF PushTarget, TypeOK
<1>r. Target' = Target
  BY <1>p DEF Target
<1>1. TypeOK'
  BY <1>0, <1>a, <1>b, <1>c, <1>p, <1>q, <1>r DEF TypeOK, TaskStates
<1>2. Workflows'
  BY <1>0, <1>a, <1>b, <1>c, <1>p, <1>r DEF Workflows, IsWorkflow, TypeOK
<1>3. Cycles'
  BY <1>0, <1>a, <1>b, <1>c, <1>p, <1>r DEF Cycles, Bound, Terminal, TypeOK, Workflows
<1>4. Convergence'
  BY <1>0, <1>a, <1>b, <1>c, <1>p, <1>r DEF Convergence, Converging, Merged, Terminal, TypeOK, Cycles, Workflows
<1>5. Polling'
  BY <1>0, <1>a, <1>b, <1>c, <1>p, <1>q, <1>r DEF Polling, Merged, Target, TypeOK, Cycles
<1>6. Marked'
  BY <1>0, <1>a, <1>b, <1>c, <1>p, <1>r DEF Marked, Reading, TypeOK
<1>7. Moved
  BY <1>0, <1>a, <1>b, <1>c, <1>p, <1>q, <1>r DEF Moved
<1> QED
  BY <1>1, <1>2, <1>3, <1>4, <1>5, <1>6, <1>7 DEF IInv

\* A push is recorded.
LEMMA RecordPushIInv ==
  ASSUME IInv, RecordPush
  PROVE  IInv' /\ Moved
<1>. USE CodeGenAssumption
<1>0. TypeOK /\ Workflows /\ Cycles /\ Convergence /\ Polling /\ Marked
  BY DEF IInv
<1>a. UNCHANGED <<state, mark, deleted, cycleCount, cycle, processed, queue, review, posted, resolved, ticket, prompted, left>>
  BY DEF dbVars, outVars, RecordPush
<1>b. op.at = "record"
  BY DEF RecordPush
<1>c. Target \in op.todo /\ Target \in Repos
  BY <1>0, <1>b, TargetOf DEF TypeOK
<1>p. op' \in Operations /\ op'.at = "push" /\ op'.kind = op.kind /\ op'.todo = op.todo \ {Target} /\ op'.allMerged = op.allMerged /\ op'.anyAbandoned = op.anyAbandoned /\ op'.feedback = op.feedback /\ op'.after = op.after
  BY <1>0 DEF RecordPush, TypeOK, Operations, Labels
<1>q. /\ rows' \in [Repos -> RowStatus]
      /\ \A r \in Repos : rows'[r] = rows[r] \/ (r = Target /\ rows'[r] = "OPEN")
  BY <1>0, <1>c DEF RecordPush, TypeOK, RowStatus
<1>1. TypeOK'
  BY <1>0, <1>a, <1>b, <1>c, <1>p, <1>q DEF TypeOK, TaskStates
<1>2. Workflows'
  BY <1>0, <1>a, <1>b, <1>c, <1>p DEF Workflows, IsWorkflow, TypeOK
<1>3. Cycles'
  BY <1>0, <1>a, <1>b, <1>c, <1>p DEF Cycles, Bound, Terminal, TypeOK, Workflows
<1>4. Convergence'
  BY <1>0, <1>a, <1>b, <1>c, <1>p, <1>q DEF Convergence, Converging, Merged, Terminal, TypeOK, Cycles, Workflows
<1>5. Polling'
  BY <1>0, <1>a, <1>b, <1>c, <1>p, <1>q DEF Polling, Merged, Target, TypeOK, Cycles
<1>6. Marked'
  BY <1>0, <1>a, <1>b, <1>c, <1>p DEF Marked, Reading, TypeOK
<1>7. Moved
  BY <1>0, <1>a, <1>b, <1>c, <1>p, <1>q DEF Moved
<1> QED
  BY <1>1, <1>2, <1>3, <1>4, <1>5, <1>6, <1>7 DEF IInv

\* A push fails.
LEMMA PushFailsIInv ==
  ASSUME IInv, PushFails
  PROVE  IInv' /\ Moved
<1>. USE CodeGenAssumption
<1>0. TypeOK /\ Workflows /\ Cycles /\ Convergence /\ Polling /\ Marked
  BY DEF IInv
<1>a. UNCHANGED <<state, mark, deleted, cycleCount, cycle, rows, processed, queue, review, posted, resolved, ticket, prompted, left>>
  BY DEF dbVars, outVars, PushFails
<1>b. op.at = "push"
  BY DEF PushFails
<1>p. op' \in Operations /\ op'.at = "push" /\ op'.kind = op.kind /\ op'.todo = op.todo \ {Target} /\ op'.allMerged = op.allMerged /\ op'.anyAbandoned = op.anyAbandoned /\ op'.feedback = op.feedback /\ op'.after = op.after
  BY <1>0 DEF PushFails, TypeOK, Operations, Labels
<1>1. TypeOK'
  BY <1>0, <1>a, <1>b, <1>p DEF TypeOK, TaskStates
<1>2. Workflows'
  BY <1>0, <1>a, <1>b, <1>p DEF Workflows, IsWorkflow, TypeOK
<1>3. Cycles'
  BY <1>0, <1>a, <1>b, <1>p DEF Cycles, Bound, Terminal, TypeOK, Workflows
<1>4. Convergence'
  BY <1>0, <1>a, <1>b, <1>p DEF Convergence, Converging, Merged, Terminal, TypeOK, Cycles, Workflows
<1>5. Polling'
  BY <1>0, <1>a, <1>b, <1>p DEF Polling, Merged, Target, TypeOK, Cycles
<1>6. Marked'
  BY <1>0, <1>a, <1>b, <1>p DEF Marked, Reading, TypeOK
<1>7. Moved
  BY <1>0, <1>a, <1>b, <1>p DEF Moved
<1> QED
  BY <1>1, <1>2, <1>3, <1>4, <1>5, <1>6, <1>7 DEF IInv

\* All targets have been pushed or not.
LEMMA PushDoneIInv ==
  ASSUME IInv, PushDone
  PROVE  IInv' /\ Moved
<1>. USE CodeGenAssumption
<1>0. TypeOK /\ Workflows /\ Cycles /\ Convergence /\ Polling /\ Marked
  BY DEF IInv
<1>a. UNCHANGED <<deleted, cycleCount, rows, processed, queue, review, posted, resolved, ticket, prompted, left>>
  BY DEF dbVars, outVars, PushDone
<1>b. op.at = "push"
  BY DEF PushDone
<1>m. mark' \in {"none", "pause", "delete"}
  BY <1>0, MarkType DEF PushDone
<1>1. CASE CycleThrows
  BY <1>0, <1>a, <1>b, <1>1, <1>m, Breaks DEF TypeOK
<1>2. CASE Legal("IN_REVIEW") /\ state' = "IN_REVIEW" /\ Goto("toReview") /\ cycle' = cycle
  <2>p. op' \in Operations /\ op'.at = "toReview" /\ op'.kind = op.kind /\ op'.todo = op.todo /\ op'.allMerged = op.allMerged /\ op'.anyAbandoned = op.anyAbandoned /\ op'.feedback = op.feedback /\ op'.after = op.after
    BY <1>0, <1>2, GotoEffect DEF Labels
  <2>q. ~deleted /\ state \in {"AGENT_RUNNING", "FEEDBACK_PROCESSING", "IN_REVIEW"} /\ Moved
    BY <1>0, <1>2, LegalFrom DEF TaskStates
  <2>1. TypeOK'
    BY <1>0, <1>a, <1>b, <1>m, <1>2, <2>p, <2>q DEF TypeOK, TaskStates
  <2>2. Workflows'
    BY <1>0, <1>a, <1>b, <1>2, <2>p, <2>q DEF Workflows, IsWorkflow, TypeOK
  <2>3. Cycles'
    BY <1>0, <1>a, <1>b, <1>2, <2>p, <2>q DEF Cycles, Bound, Terminal, TypeOK, Workflows
  <2>4. Convergence'
    BY <1>0, <1>a, <1>b, <1>2, <2>p, <2>q DEF Convergence, Converging, Merged, Terminal, TypeOK, Cycles, Workflows
  <2>5. Polling'
    BY <1>0, <1>a, <1>b, <1>2, <2>p, <2>q DEF Polling, Merged, Target, TypeOK, Cycles
  <2>6. Marked'
    BY <1>0, <1>a, <1>b, <2>p, <2>q DEF Marked, Reading, TypeOK
  <2>7. Moved
    BY <1>0, <1>a, <1>b, <1>m, <1>2, <2>p, <2>q, <2>q
  <2> QED
    BY <2>1, <2>2, <2>3, <2>4, <2>5, <2>6, <2>7 DEF IInv
<1> QED
  BY <1>1, <1>2 DEF PushDone

\* The ticket follows.
LEMMA TicketToReviewIInv ==
  ASSUME IInv, TicketToReview
  PROVE  IInv' /\ Moved
<1>. USE CodeGenAssumption
<1>0. TypeOK /\ Workflows /\ Cycles /\ Convergence /\ Polling /\ Marked
  BY DEF IInv
<1>a. UNCHANGED <<deleted, cycleCount, rows, processed, queue, review, posted, resolved, prompted, left>>
  BY DEF dbVars, outVars, TicketToReview
<1>b. op.at = "toReview"
  BY DEF TicketToReview
<1>m. mark' \in {"none", "pause", "delete"}
  BY <1>0, MarkType DEF TicketToReview
<1>1. CASE ticket' = ticket /\ CycleThrows
  BY <1>0, <1>a, <1>b, <1>1, <1>m, Breaks DEF TypeOK
<1>2. CASE ticket' = "review" /\ Leave("return") /\ state' = state /\ cycle' = cycle
  <2>p. op' \in Operations /\ op'.at = "cleanup" /\ op'.kind = op.kind /\ op'.after = "return" /\ op'.todo = op.todo
    BY <1>0, <1>2, LeaveEffect DEF Leave
  <2>1. TypeOK'
    BY <1>0, <1>a, <1>b, <1>m, <1>2, <2>p DEF TypeOK, TaskStates
  <2>2. Workflows'
    BY <1>0, <1>a, <1>b, <1>2, <2>p DEF Workflows, IsWorkflow, TypeOK
  <2>3. Cycles'
    BY <1>0, <1>a, <1>b, <1>2, <2>p DEF Cycles, Bound, Terminal, TypeOK, Workflows
  <2>4. Convergence'
    BY <1>0, <1>a, <1>b, <1>2, <2>p DEF Convergence, Converging, Merged, Terminal, TypeOK, Cycles, Workflows
  <2>5. Polling'
    BY <1>0, <1>a, <1>b, <1>2, <2>p DEF Polling, Merged, Target, TypeOK, Cycles
  <2>6. Marked'
    BY <1>0, <1>a, <1>b, <2>p DEF Marked, Reading, TypeOK
  <2>7. Moved
    BY <1>0, <1>a, <1>b, <1>m, <1>2, <2>p DEF Moved
  <2> QED
    BY <2>1, <2>2, <2>3, <2>4, <2>5, <2>6, <2>7 DEF IInv
<1> QED
  BY <1>1, <1>2 DEF TicketToReview

-----------------------------------------------------------------------------
(* The progress of the reviews.                                            *)

\* The rows are read.
LEMMA CheckIInv ==
  ASSUME IInv, Check
  PROVE  IInv' /\ Moved
<1>. USE CodeGenAssumption
<1>0. TypeOK /\ Workflows /\ Cycles /\ Convergence /\ Polling /\ Marked
  BY DEF IInv
<1>a. UNCHANGED <<deleted, cycleCount, cycle, rows, processed, queue, review, posted, resolved, ticket, prompted, left>>
  BY DEF dbVars, outVars, Check, Transition
<1>b. op.at = "check"
  BY DEF Check
<1>m. mark' \in {"none", "pause", "delete"}
  BY <1>0, MarkType DEF Check
<1>1. CASE Stop /\ state' = state
  BY <1>0, <1>a, <1>b, <1>1, <1>m, Stops DEF TypeOK, dbVars, Cycles
<1>2. CASE Throw
  BY <1>a, <1>b, <1>2, <1>m, Throws DEF dbVars
<1>3. CASE Active = {} /\ Legal("MERGED") /\ state' = "MERGED" /\ Goto("close")
  <2>p. op' \in Operations /\ op'.at = "close" /\ op'.kind = op.kind /\ op'.todo = op.todo /\ op'.allMerged = op.allMerged /\ op'.anyAbandoned = op.anyAbandoned /\ op'.feedback = op.feedback /\ op'.after = op.after
    BY <1>0, <1>3, GotoEffect DEF Labels
  <2>q. ~deleted /\ state \in {"IN_REVIEW", "MERGED"} /\ Moved
    BY <1>0, <1>3, LegalFrom DEF TaskStates
  <2>r. \A r \in Repos : rows[r] \in {"none", "NO_CHANGE"}
    BY <1>0, <1>3 DEF Active, TypeOK, RowStatus
  <2>1. TypeOK'
    BY <1>0, <1>a, <1>b, <1>m, <1>3, <2>p, <2>q, <2>r DEF TypeOK, TaskStates
  <2>2. Workflows'
    BY <1>0, <1>a, <1>b, <1>3, <2>p, <2>q DEF Workflows, IsWorkflow, TypeOK
  <2>3. Cycles'
    BY <1>0, <1>a, <1>b, <1>3, <2>p, <2>q DEF Cycles, Bound, Terminal, TypeOK, Workflows
  <2>4. Convergence'
    BY <1>0, <1>a, <1>b, <1>3, <2>p, <2>q, <2>r DEF Convergence, Converging, Merged, Terminal, TypeOK, Cycles, Workflows
  <2>5. Polling'
    BY <1>0, <1>a, <1>b, <1>3, <2>p, <2>q, <2>r DEF Polling, Merged, Target, TypeOK, Cycles
  <2>6. Marked'
    BY <1>0, <1>a, <1>b, <2>p, <2>q DEF Marked, Reading, TypeOK
  <2>7. Moved
    BY <1>0, <1>a, <1>b, <1>m, <1>3, <2>p, <2>q, <2>r, <2>q
  <2> QED
    BY <2>1, <2>2, <2>3, <2>4, <2>5, <2>6, <2>7 DEF IInv
<1>4. CASE /\ state' = state /\ ~(\A r \in Repos : rows[r] = "none")
           /\ op' = [op EXCEPT !.at = "poll", !.checking = TRUE,
                       !.todo = {r \in Active : rows[r] = "OPEN"},
                       !.anyAbandoned = \E r \in Active : rows[r] = "ABANDONED"]
  <2>p. {r \in Active : rows[r] = "OPEN"} \in SUBSET Repos /\ (\E r \in Active : rows[r] = "ABANDONED") \in BOOLEAN
    BY DEF Active
  <2>q. op' \in Operations /\ op'.at = "poll" /\ op'.kind = op.kind /\ op'.feedback = op.feedback
        /\ op'.todo = {r \in Active : rows[r] = "OPEN"}
        /\ (op'.anyAbandoned <=> \E r \in Active : rows[r] = "ABANDONED")
    BY <1>0, <1>4, <2>p DEF TypeOK, Operations, Labels
  <2>r. state \notin Converging
    BY <1>0, <1>b, <1>4 DEF Convergence
  <2>s. /\ \A r \in Repos : r \in op'.todo <=> rows[r] = "OPEN"
        /\ ~op'.anyAbandoned => \A r \in Repos : rows[r] # "ABANDONED"
    BY <2>q DEF Active
  <2>t. \A r \in Repos : rows[r] \in {"none", "NO_CHANGE", "OPEN", "MERGED", "ABANDONED"}
    BY <1>0 DEF TypeOK, RowStatus
  <2>1. TypeOK'
    BY <1>0, <1>a, <1>b, <1>m, <1>4, <2>p, <2>q, <2>r, <2>s, <2>t DEF TypeOK, TaskStates
  <2>2. Workflows'
    BY <1>0, <1>a, <1>b, <1>4, <2>q, <2>r, <2>s DEF Workflows, IsWorkflow, TypeOK
  <2>3. Cycles'
    BY <1>0, <1>a, <1>b, <1>4, <2>q, <2>r, <2>s DEF Cycles, Bound, Terminal, TypeOK, Workflows
  <2>4. Convergence'
    BY <1>0, <1>a, <1>b, <1>4, <2>p, <2>q, <2>r, <2>s, <2>t DEF Convergence, Converging, Merged, Terminal, TypeOK, Cycles, Workflows
  <2>5. Polling'
    BY <1>0, <1>a, <1>b, <1>4, <2>p, <2>q, <2>r, <2>s, <2>t DEF Polling, Merged, Target, TypeOK, Cycles
  <2>6. Marked'
    BY <1>0, <1>a, <1>b, <1>4, <2>q, <2>s DEF Marked, Reading, TypeOK
  <2>7. Moved
    BY <1>0, <1>a, <1>b, <1>m, <1>4, <2>p, <2>q, <2>r, <2>s, <2>t DEF Moved
  <2> QED
    BY <2>1, <2>2, <2>3, <2>4, <2>5, <2>6, <2>7 DEF IInv
<1> QED
  BY <1>1, <1>2, <1>3, <1>4 DEF Check, Transition

\* A review system does not answer.
LEMMA PollFailsIInv ==
  ASSUME IInv, PollFails
  PROVE  IInv' /\ Moved
<1>. USE CodeGenAssumption
<1>0. TypeOK /\ Workflows /\ Cycles /\ Convergence /\ Polling /\ Marked
  BY DEF IInv
<1>a. UNCHANGED <<state, mark, deleted, cycleCount, cycle, rows, processed, queue, review, posted, resolved, ticket, prompted, left>>
  BY DEF dbVars, outVars, PollFails
<1>b. op.at = "poll"
  BY DEF PollFails
<1>p. op' \in Operations /\ op'.at = "poll" /\ op'.kind = op.kind /\ op'.todo = op.todo \ {Target} /\ op'.allMerged = FALSE /\ op'.anyAbandoned = op.anyAbandoned /\ op'.feedback = op.feedback /\ op'.after = op.after
  BY <1>0 DEF PollFails, TypeOK, Operations, Labels
<1>1. TypeOK'
  BY <1>0, <1>a, <1>b, <1>p DEF TypeOK, TaskStates
<1>2. Workflows'
  BY <1>0, <1>a, <1>b, <1>p DEF Workflows, IsWorkflow, TypeOK
<1>3. Cycles'
  BY <1>0, <1>a, <1>b, <1>p DEF Cycles, Bound, Terminal, TypeOK, Workflows
<1>4. Convergence'
  BY <1>0, <1>a, <1>b, <1>p DEF Convergence, Converging, Merged, Terminal, TypeOK, Cycles, Workflows
<1>5. Polling'
  BY <1>0, <1>a, <1>b, <1>p DEF Polling, Merged, Target, TypeOK, Cycles
<1>6. Marked'
  BY <1>0, <1>a, <1>b, <1>p DEF Marked, Reading, TypeOK
<1>7. Moved
  BY <1>0, <1>a, <1>b, <1>p DEF Moved
<1> QED
  BY <1>1, <1>2, <1>3, <1>4, <1>5, <1>6, <1>7 DEF IInv

\* A review system answers.
LEMMA PollStatusIInv ==
  ASSUME IInv, PollStatus
  PROVE  IInv' /\ Moved
<1>. USE CodeGenAssumption
<1>0. TypeOK /\ Workflows /\ Cycles /\ Convergence /\ Polling /\ Marked
  BY DEF IInv
<1>a. UNCHANGED <<state, mark, deleted, cycleCount, cycle, processed, queue, review, posted, resolved, ticket, prompted, left>>
  BY DEF dbVars, outVars, PollStatus
<1>b. op.at = "poll" /\ op.todo # {}
  BY DEF PollStatus
<1>c. Target \in op.todo /\ Target \in Repos
  BY <1>0, TargetOf DEF PollStatus
<1>d. rows' = IF rows[Target] = "OPEN" THEN [rows EXCEPT ![Target] = review[Target]] ELSE rows
  BY DEF PollStatus, RecordStatus
<1>e. /\ rows' \in [Repos -> RowStatus] /\ rows'[Target] = IF rows[Target] = "OPEN" THEN review[Target] ELSE rows[Target]
      /\ \A r \in Repos \ {Target} : rows'[r] = rows[r]
  BY <1>0, <1>c, <1>d DEF TypeOK, RowStatus
<1>f. state \notin Converging
  BY <1>0, <1>b DEF Convergence
<1>1. CASE review[Target] = "OPEN"
  <2>p. op' = [op EXCEPT !.at = "comments", !.allMerged = FALSE]
    BY <1>1 DEF PollStatus
  <2>q. op' \in Operations /\ op'.at = "comments" /\ op'.kind = op.kind /\ op'.todo = op.todo /\ op'.allMerged = FALSE /\ op'.anyAbandoned = op.anyAbandoned /\ op'.feedback = op.feedback /\ op'.after = op.after
    BY <1>0, <2>p DEF TypeOK, Operations, Labels
  <2>r. rows' = rows
    BY <1>0, <1>d, <1>1 DEF TypeOK
  <2>1. TypeOK'
    BY <1>0, <1>a, <1>b, <1>c, <1>d, <1>e, <1>f, <1>1, <2>p, <2>q, <2>r DEF TypeOK, TaskStates
  <2>2. Workflows'
    BY <1>0, <1>a, <1>b, <1>c, <1>f, <2>p, <2>q DEF Workflows, IsWorkflow, TypeOK
  <2>3. Cycles'
    BY <1>0, <1>a, <1>b, <1>c, <1>f, <2>p, <2>q DEF Cycles, Bound, Terminal, TypeOK, Workflows
  <2>4. Convergence'
    BY <1>0, <1>a, <1>b, <1>c, <1>d, <1>e, <1>f, <2>p, <2>q, <2>r DEF Convergence, Converging, Merged, Terminal, TypeOK, Cycles, Workflows
  <2>5. Polling'
    BY <1>0, <1>a, <1>b, <1>c, <1>d, <1>e, <1>f, <1>1, <2>p, <2>q, <2>r DEF Polling, Merged, Target, TypeOK, Cycles
  <2>6. Marked'
    BY <1>0, <1>a, <1>b, <1>c, <2>p, <2>q DEF Marked, Reading, TypeOK
  <2>7. Moved
    BY <1>0, <1>a, <1>b, <1>c, <1>d, <1>e, <1>f, <1>1, <2>p, <2>q, <2>r DEF Moved
  <2> QED
    BY <2>1, <2>2, <2>3, <2>4, <2>5, <2>6, <2>7 DEF IInv
<1>2. CASE review[Target] # "OPEN"
  <2>p. op' = [op EXCEPT !.todo = @ \ {Target}, !.anyAbandoned = @ \/ review[Target] = "ABANDONED"]
    BY <1>2 DEF PollStatus
  <2>q. op' \in Operations /\ op'.at = "poll" /\ op'.kind = op.kind /\ op'.feedback = op.feedback
        /\ op'.todo = op.todo \ {Target} /\ op'.allMerged = op.allMerged
        /\ (op'.anyAbandoned <=> op.anyAbandoned \/ review[Target] = "ABANDONED")
    BY <1>0, <1>b, <2>p DEF TypeOK, Operations, Labels
  <2>r. rows'[Target] \in {"none", review[Target]} /\ (rows'[Target] # "none" => review[Target] \in {"MERGED", "ABANDONED"})
    BY <1>0, <1>b, <1>c, <1>d, <1>e, <1>2 DEF Polling, TypeOK
  <2>1. TypeOK'
    BY <1>0, <1>a, <1>b, <1>c, <1>d, <1>e, <1>f, <1>2, <2>p, <2>q, <2>r DEF TypeOK, TaskStates
  <2>2. Workflows'
    BY <1>0, <1>a, <1>b, <1>c, <1>f, <2>p, <2>q DEF Workflows, IsWorkflow, TypeOK
  <2>3. Cycles'
    BY <1>0, <1>a, <1>b, <1>c, <1>f, <2>p, <2>q DEF Cycles, Bound, Terminal, TypeOK, Workflows
  <2>4. Convergence'
    BY <1>0, <1>a, <1>b, <1>c, <1>d, <1>e, <1>f, <2>p, <2>q, <2>r DEF Convergence, Converging, Merged, Terminal, TypeOK, Cycles, Workflows
  <2>5. Polling'
    BY <1>0, <1>a, <1>b, <1>c, <1>d, <1>e, <1>f, <1>2, <2>p, <2>q, <2>r DEF Polling, Merged, Target, TypeOK, Cycles
  <2>6. Marked'
    BY <1>0, <1>a, <1>b, <1>c, <2>p, <2>q DEF Marked, Reading, TypeOK
  <2>7. Moved
    BY <1>0, <1>a, <1>b, <1>c, <1>d, <1>e, <1>f, <1>2, <2>p, <2>q, <2>r DEF Moved
  <2> QED
    BY <2>1, <2>2, <2>3, <2>4, <2>5, <2>6, <2>7 DEF IInv
<1> QED
  BY <1>1, <1>2 DEF PollStatus

\* The comments are read and marked.
LEMMA PollCommentsIInv ==
  ASSUME IInv, PollComments
  PROVE  IInv' /\ Moved
<1>. USE CodeGenAssumption
<1>0. TypeOK /\ Workflows /\ Cycles /\ Convergence /\ Polling /\ Marked
  BY DEF IInv
<1>a. UNCHANGED <<state, mark, deleted, cycleCount, cycle, rows, queue, review, posted, resolved, ticket, prompted, left>>
  BY DEF dbVars, outVars, PollComments
<1>b. op.at = "comments"
  BY DEF PollComments
<1>p. PICK new \in {{}, {c \in posted \ (processed \cup resolved) : RepoOf[c] = Target}} :
            /\ processed' = processed \cup new
            /\ op' = [op EXCEPT !.at = "poll", !.todo = @ \ {Target},
                        !.feedback = @ \cup new, !.batch = @ \cup new]
  BY DEF PollComments
<1>q. new \in SUBSET Comments /\ new \cap processed = {}
  BY <1>0 DEF TypeOK
<1>r. op' \in Operations /\ op'.at = "poll" /\ op'.kind = op.kind /\ op'.todo = op.todo \ {Target} /\ op'.allMerged = op.allMerged /\ op'.anyAbandoned = op.anyAbandoned /\ op'.feedback = op.feedback \cup new /\ op'.after = op.after
  BY <1>0, <1>p, <1>q DEF TypeOK, Operations, Labels
<1>s. op.feedback \in SUBSET Comments
  BY <1>0 DEF TypeOK, Operations
<1>1. TypeOK'
  BY <1>0, <1>a, <1>b, <1>p, <1>q, <1>r, <1>s DEF TypeOK, TaskStates
<1>2. Workflows'
  BY <1>0, <1>a, <1>b, <1>p, <1>r, <1>s DEF Workflows, IsWorkflow, TypeOK
<1>3. Cycles'
  BY <1>0, <1>a, <1>b, <1>p, <1>r, <1>s DEF Cycles, Bound, Terminal, TypeOK, Workflows
<1>4. Convergence'
  BY <1>0, <1>a, <1>b, <1>p, <1>r, <1>s DEF Convergence, Converging, Merged, Terminal, TypeOK, Cycles, Workflows
<1>5. Polling'
  BY <1>0, <1>a, <1>b, <1>p, <1>r, <1>s DEF Polling, Merged, Target, TypeOK, Cycles
<1>6. Marked'
  BY <1>0, <1>a, <1>b, <1>p, <1>q, <1>r, <1>s DEF Marked, Reading, TypeOK
<1>7. Moved
  BY <1>0, <1>a, <1>b, <1>p, <1>q, <1>r, <1>s DEF Moved
<1> QED
  BY <1>1, <1>2, <1>3, <1>4, <1>5, <1>6, <1>7 DEF IInv

\* The check comes to a conclusion.
LEMMA DecideIInv ==
  ASSUME IInv, Decide
  PROVE  IInv' /\ Moved
<1>. USE CodeGenAssumption
<1>0. TypeOK /\ Workflows /\ Cycles /\ Convergence /\ Polling /\ Marked
  BY DEF IInv
<1>a. UNCHANGED <<deleted, cycleCount, cycle, rows, processed, queue, review, posted, resolved, ticket, prompted, left>>
  BY DEF dbVars, outVars, Decide, Transition, Abandon
<1>b. op.at = "poll" /\ op.todo = {}
  BY DEF Decide
<1>m. mark' \in {"none", "pause", "delete"}
  BY <1>0, MarkType DEF Decide
<1>1. CASE Throw
  BY <1>a, <1>b, <1>1, <1>m, Throws DEF dbVars
<1>2. CASE ~deleted /\ state \notin {"DONE", "FAILED"} /\ state' = "ABANDONED" /\ Goto("notify")
  <2>p. op' \in Operations /\ op'.at = "notify" /\ op'.kind = op.kind /\ op'.todo = op.todo /\ op'.allMerged = op.allMerged /\ op'.anyAbandoned = op.anyAbandoned /\ op'.feedback = op.feedback /\ op'.after = op.after
    BY <1>0, <1>2, GotoEffect DEF Labels
  <2>1. TypeOK'
    BY <1>0, <1>a, <1>b, <1>m, <1>2, <2>p DEF TypeOK, TaskStates
  <2>2. Workflows'
    BY <1>0, <1>a, <1>b, <1>2, <2>p DEF Workflows, IsWorkflow, TypeOK
  <2>3. Cycles'
    BY <1>0, <1>a, <1>b, <1>2, <2>p DEF Cycles, Bound, Terminal, TypeOK, Workflows
  <2>4. Convergence'
    BY <1>0, <1>a, <1>b, <1>2, <2>p DEF Convergence, Converging, Merged, Terminal, TypeOK, Cycles, Workflows
  <2>5. Polling'
    BY <1>0, <1>a, <1>b, <1>2, <2>p DEF Polling, Merged, Target, TypeOK, Cycles
  <2>6. Marked'
    BY <1>0, <1>a, <1>b, <1>2, <2>p DEF Marked, Reading, TypeOK
  <2>7. Moved
    BY <1>0, <1>b, <1>2 DEF Moved, Terminal
  <2> QED
    BY <2>1, <2>2, <2>3, <2>4, <2>5, <2>6, <2>7 DEF IInv
<1>3. CASE op.allMerged /\ ~op.anyAbandoned /\ Legal("MERGED") /\ state' = "MERGED" /\ Goto("close")
  <2>p. op' \in Operations /\ op'.at = "close" /\ op'.kind = op.kind /\ op'.todo = op.todo /\ op'.allMerged = op.allMerged /\ op'.anyAbandoned = op.anyAbandoned /\ op'.feedback = op.feedback /\ op'.after = op.after
    BY <1>0, <1>3, GotoEffect DEF Labels
  <2>q. ~deleted /\ state \in {"IN_REVIEW", "MERGED"} /\ Moved
    BY <1>0, <1>3, LegalFrom DEF TaskStates
  <2>r. \A r \in Repos : Merged(rows[r])
    BY <1>0, <1>b, <1>3 DEF Polling
  <2>1. TypeOK'
    BY <1>0, <1>a, <1>b, <1>m, <1>3, <2>p, <2>q, <2>r DEF TypeOK, TaskStates
  <2>2. Workflows'
    BY <1>0, <1>a, <1>b, <1>3, <2>p, <2>q DEF Workflows, IsWorkflow, TypeOK
  <2>3. Cycles'
    BY <1>0, <1>a, <1>b, <1>3, <2>p, <2>q DEF Cycles, Bound, Terminal, TypeOK, Workflows
  <2>4. Convergence'
    BY <1>0, <1>a, <1>b, <1>3, <2>p, <2>q, <2>r DEF Convergence, Converging, Merged, Terminal, TypeOK, Cycles, Workflows
  <2>5. Polling'
    BY <1>0, <1>a, <1>b, <1>3, <2>p, <2>q, <2>r DEF Polling, Merged, Target, TypeOK, Cycles
  <2>6. Marked'
    BY <1>0, <1>a, <1>b, <1>3, <2>p, <2>q DEF Marked, Reading, TypeOK
  <2>7. Moved
    BY <1>0, <1>a, <1>b, <1>m, <1>3, <2>p, <2>q, <2>r, <2>q
  <2> QED
    BY <2>1, <2>2, <2>3, <2>4, <2>5, <2>6, <2>7 DEF IInv
<1>4. CASE Legal("FEEDBACK_PROCESSING") /\ state' = "FEEDBACK_PROCESSING" /\ Goto("feedback")
  <2>p. op' \in Operations /\ op'.at = "feedback" /\ op'.kind = op.kind /\ op'.todo = op.todo /\ op'.allMerged = op.allMerged /\ op'.anyAbandoned = op.anyAbandoned /\ op'.feedback = op.feedback /\ op'.after = op.after
    BY <1>0, <1>4, GotoEffect DEF Labels
  <2>q. ~deleted /\ state \in {"IN_REVIEW", "FEEDBACK_PROCESSING"} /\ Moved
    BY <1>0, <1>4, LegalFrom DEF TaskStates
  <2>1. TypeOK'
    BY <1>0, <1>a, <1>b, <1>m, <1>4, <2>p, <2>q DEF TypeOK, TaskStates
  <2>2. Workflows'
    BY <1>0, <1>a, <1>b, <1>4, <2>p, <2>q DEF Workflows, IsWorkflow, TypeOK
  <2>3. Cycles'
    BY <1>0, <1>a, <1>b, <1>4, <2>p, <2>q DEF Cycles, Bound, Terminal, TypeOK, Workflows
  <2>4. Convergence'
    BY <1>0, <1>a, <1>b, <1>4, <2>p, <2>q DEF Convergence, Converging, Merged, Terminal, TypeOK, Cycles, Workflows
  <2>5. Polling'
    BY <1>0, <1>a, <1>b, <1>4, <2>p, <2>q DEF Polling, Merged, Target, TypeOK, Cycles
  <2>6. Marked'
    BY <1>0, <1>a, <1>b, <2>p, <2>q DEF Marked, Reading, TypeOK
  <2>7. Moved
    BY <1>0, <1>a, <1>b, <1>m, <1>4, <2>p, <2>q, <2>q
  <2> QED
    BY <2>1, <2>2, <2>3, <2>4, <2>5, <2>6, <2>7 DEF IInv
<1> QED
  BY <1>1, <1>2, <1>3, <1>4 DEF Decide, Transition, Abandon

\* The feedback is acted upon.
LEMMA ActOnFeedbackIInv ==
  ASSUME IInv, ActOnFeedback
  PROVE  IInv' /\ Moved
<1>. USE CodeGenAssumption
<1>0. TypeOK /\ Workflows /\ Cycles /\ Convergence /\ Polling /\ Marked
  BY DEF IInv
<1>a. UNCHANGED <<deleted, cycleCount, cycle, rows, processed, queue, review, posted, resolved, ticket, prompted, left>>
  BY DEF dbVars, outVars, ActOnFeedback, Transition, Abandon
<1>b. op.at = "feedback"
  BY DEF ActOnFeedback
<1>m. mark' \in {"none", "pause", "delete"}
  BY <1>0, MarkType DEF ActOnFeedback
<1>1. CASE Throw
  BY <1>a, <1>b, <1>1, <1>m, Throws DEF dbVars
<1>2. CASE Legal("IN_REVIEW") /\ state' = "IN_REVIEW" /\ Stop
  BY <1>0, <1>a, <1>b, <1>2, <1>m, Stops DEF TypeOK, dbVars
<1>3. CASE ~deleted /\ state \notin {"DONE", "FAILED"} /\ state' = "ABANDONED" /\ Goto("notify")
  <2>p. op' \in Operations /\ op'.at = "notify" /\ op'.kind = op.kind /\ op'.todo = op.todo /\ op'.allMerged = op.allMerged /\ op'.anyAbandoned = op.anyAbandoned /\ op'.feedback = op.feedback /\ op'.after = op.after
    BY <1>0, <1>3, GotoEffect DEF Labels
  <2>1. TypeOK'
    BY <1>0, <1>a, <1>b, <1>m, <1>3, <2>p DEF TypeOK, TaskStates
  <2>2. Workflows'
    BY <1>0, <1>a, <1>b, <1>3, <2>p DEF Workflows, IsWorkflow, TypeOK
  <2>3. Cycles'
    BY <1>0, <1>a, <1>b, <1>3, <2>p DEF Cycles, Bound, Terminal, TypeOK, Workflows
  <2>4. Convergence'
    BY <1>0, <1>a, <1>b, <1>3, <2>p DEF Convergence, Converging, Merged, Terminal, TypeOK, Cycles, Workflows
  <2>5. Polling'
    BY <1>0, <1>a, <1>b, <1>3, <2>p DEF Polling, Merged, Target, TypeOK, Cycles
  <2>6. Marked'
    BY <1>0, <1>a, <1>b, <1>3, <2>p DEF Marked, Reading, TypeOK
  <2>7. Moved
    BY <1>0, <1>b, <1>3 DEF Moved, Terminal
  <2> QED
    BY <2>1, <2>2, <2>3, <2>4, <2>5, <2>6, <2>7 DEF IInv
<1>4. CASE ~OverCycles /\ Legal("RETRY_CYCLE") /\ state' = "RETRY_CYCLE" /\ Goto("lease")
  <2>p. op' \in Operations /\ op'.at = "lease" /\ op'.kind = op.kind /\ op'.todo = op.todo /\ op'.allMerged = op.allMerged /\ op'.anyAbandoned = op.anyAbandoned /\ op'.feedback = op.feedback /\ op'.after = op.after
    BY <1>0, <1>4, GotoEffect DEF Labels
  <2>q. ~deleted /\ state \in {"AGENT_RUNNING", "FEEDBACK_PROCESSING", "RETRY_CYCLE"} /\ Moved
    BY <1>0, <1>4, LegalFrom DEF TaskStates
  <2>r. /\ MaxRetries - left.retry \in Nat /\ MaxAgentCycles \in Nat /\ cycleCount \in Nat /\ cycleCount <= MaxAgentCycles
    BY <1>0, <1>4 DEF TypeOK, OverCycles
  <2>1. TypeOK'
    BY <1>0, <1>a, <1>b, <1>m, <1>4, <2>p, <2>q, <2>r DEF TypeOK, TaskStates
  <2>2. Workflows'
    BY <1>0, <1>a, <1>b, <1>4, <2>p, <2>q DEF Workflows, IsWorkflow, TypeOK
  <2>3. Cycles'
    BY <1>0, <1>a, <1>b, <1>4, <2>p, <2>q, <2>r DEF Cycles, Bound, Terminal, TypeOK, Workflows
  <2>4. Convergence'
    BY <1>0, <1>a, <1>b, <1>4, <2>p, <2>q DEF Convergence, Converging, Merged, Terminal, TypeOK, Cycles, Workflows
  <2>5. Polling'
    BY <1>0, <1>a, <1>b, <1>4, <2>p, <2>q DEF Polling, Merged, Target, TypeOK, Cycles
  <2>6. Marked'
    BY <1>0, <1>a, <1>b, <2>p, <2>q DEF Marked, Reading, TypeOK
  <2>7. Moved
    BY <1>0, <1>a, <1>b, <1>m, <1>4, <2>p, <2>q, <2>r, <2>q
  <2> QED
    BY <2>1, <2>2, <2>3, <2>4, <2>5, <2>6, <2>7 DEF IInv
<1> QED
  BY <1>1, <1>2, <1>3, <1>4 DEF ActOnFeedback, Transition, Abandon

\* The comments are resolved.
LEMMA ResolveIInv ==
  ASSUME IInv, Resolve
  PROVE  IInv' /\ Moved
<1>. USE CodeGenAssumption
<1>0. TypeOK /\ Workflows /\ Cycles /\ Convergence /\ Polling /\ Marked
  BY DEF IInv
<1>a. UNCHANGED <<state, mark, deleted, cycleCount, cycle, rows, processed, queue, review, posted, ticket, prompted, left>>
  BY DEF dbVars, outVars, Resolve
<1>b. op.at = "resolve"
  BY DEF Resolve
<1>c. resolved' \in SUBSET Comments
  BY <1>0 DEF Resolve, TypeOK, Operations
<1>1. CASE Stop
  BY <1>0, <1>a, <1>b, <1>c, <1>1, Stops DEF TypeOK, dbVars, Cycles
<1> QED
  BY <1>1 DEF Resolve

-----------------------------------------------------------------------------
(* The end of the task.                                                    *)

\* The task begins to close.
LEMMA StartClosingIInv ==
  ASSUME IInv, StartClosing
  PROVE  IInv' /\ Moved
<1>. USE CodeGenAssumption
<1>0. TypeOK /\ Workflows /\ Cycles /\ Convergence /\ Polling /\ Marked
  BY DEF IInv
<1>a. UNCHANGED <<deleted, cycleCount, cycle, rows, processed, queue, review, posted, resolved, ticket, prompted, left>>
  BY DEF dbVars, outVars, StartClosing, Transition
<1>b. op.at = "close"
  BY DEF StartClosing
<1>m. mark' \in {"none", "pause", "delete"}
  BY <1>0, MarkType DEF StartClosing
<1>1. CASE Throw
  BY <1>a, <1>b, <1>1, <1>m, Throws DEF dbVars
<1>2. CASE Legal("CLOSING") /\ state' = "CLOSING" /\ Goto("closing")
  <2>p. op' \in Operations /\ op'.at = "closing" /\ op'.kind = op.kind /\ op'.todo = op.todo /\ op'.allMerged = op.allMerged /\ op'.anyAbandoned = op.anyAbandoned /\ op'.feedback = op.feedback /\ op'.after = op.after
    BY <1>0, <1>2, GotoEffect DEF Labels
  <2>q. ~deleted /\ state \in {"MERGED", "CLOSING"} /\ Moved
    BY <1>0, <1>2, LegalFrom DEF TaskStates
  <2>1. TypeOK'
    BY <1>0, <1>a, <1>b, <1>m, <1>2, <2>p, <2>q DEF TypeOK, TaskStates
  <2>2. Workflows'
    BY <1>0, <1>a, <1>b, <1>2, <2>p, <2>q DEF Workflows, IsWorkflow, TypeOK
  <2>3. Cycles'
    BY <1>0, <1>a, <1>b, <1>2, <2>p, <2>q DEF Cycles, Bound, Terminal, TypeOK, Workflows
  <2>4. Convergence'
    BY <1>0, <1>a, <1>b, <1>2, <2>p, <2>q DEF Convergence, Converging, Merged, Terminal, TypeOK, Cycles, Workflows
  <2>5. Polling'
    BY <1>0, <1>a, <1>b, <1>2, <2>p, <2>q DEF Polling, Merged, Target, TypeOK, Cycles
  <2>6. Marked'
    BY <1>0, <1>a, <1>b, <2>p, <2>q DEF Marked, Reading, TypeOK
  <2>7. Moved
    BY <1>0, <1>a, <1>b, <1>m, <1>2, <2>p, <2>q, <2>q
  <2> QED
    BY <2>1, <2>2, <2>3, <2>4, <2>5, <2>6, <2>7 DEF IInv
<1> QED
  BY <1>1, <1>2 DEF StartClosing, Transition

\* The ticket is closed.
LEMMA CloseTicketIInv ==
  ASSUME IInv, CloseTicket
  PROVE  IInv' /\ Moved
<1>. USE CodeGenAssumption
<1>0. TypeOK /\ Workflows /\ Cycles /\ Convergence /\ Polling /\ Marked
  BY DEF IInv
<1>a. UNCHANGED <<state, mark, deleted, cycleCount, cycle, rows, processed, queue, review, posted, resolved, prompted, left>>
  BY DEF dbVars, outVars, CloseTicket
<1>b. op.at = "closing"
  BY DEF CloseTicket
<1>p. op' \in Operations /\ op'.at = "closed" /\ op'.kind = op.kind /\ op'.todo = op.todo /\ op'.allMerged = op.allMerged /\ op'.anyAbandoned = op.anyAbandoned /\ op'.feedback = op.feedback /\ op'.after = op.after
  BY <1>0, GotoEffect DEF CloseTicket, Labels
<1>q. ticket' = "closed"
  BY DEF CloseTicket
<1>1. TypeOK'
  BY <1>0, <1>a, <1>b, <1>p, <1>q DEF TypeOK, TaskStates
<1>2. Workflows'
  BY <1>0, <1>a, <1>b, <1>p DEF Workflows, IsWorkflow, TypeOK
<1>3. Cycles'
  BY <1>0, <1>a, <1>b, <1>p DEF Cycles, Bound, Terminal, TypeOK, Workflows
<1>4. Convergence'
  BY <1>0, <1>a, <1>b, <1>p, <1>q DEF Convergence, Converging, Merged, Terminal, TypeOK, Cycles, Workflows
<1>5. Polling'
  BY <1>0, <1>a, <1>b, <1>p DEF Polling, Merged, Target, TypeOK, Cycles
<1>6. Marked'
  BY <1>0, <1>a, <1>b, <1>p DEF Marked, Reading, TypeOK
<1>7. Moved
  BY <1>0, <1>a, <1>b, <1>p, <1>q DEF Moved
<1> QED
  BY <1>1, <1>2, <1>3, <1>4, <1>5, <1>6, <1>7 DEF IInv

\* The ticket cannot be closed.
LEMMA CloseFailsIInv ==
  ASSUME IInv, CloseFails
  PROVE  IInv' /\ Moved
<1>. USE CodeGenAssumption
<1>0. TypeOK /\ Workflows /\ Cycles /\ Convergence /\ Polling /\ Marked
  BY DEF IInv
<1>a. UNCHANGED <<deleted, cycleCount, cycle, rows, processed, queue, review, posted, resolved, ticket, prompted, left>>
  BY DEF dbVars, outVars, CloseFails, GiveUp
<1>b. op.at = "closing"
  BY DEF CloseFails
<1>m. mark' \in {"none", "pause", "delete"}
  BY <1>0, MarkType DEF CloseFails
<1>1. CASE Throw
  BY <1>a, <1>b, <1>1, <1>m, Throws DEF dbVars
<1>2. CASE ~deleted /\ state \notin Terminal /\ state' = "FAILED" /\ Stop
  BY <1>0, <1>a, <1>b, <1>2, <1>m, Stops DEF TypeOK, dbVars
<1> QED
  BY <1>1, <1>2 DEF CloseFails, GiveUp

\* The task is done.
LEMMA ClosedIInv ==
  ASSUME IInv, Closed
  PROVE  IInv' /\ Moved
<1>. USE CodeGenAssumption
<1>0. TypeOK /\ Workflows /\ Cycles /\ Convergence /\ Polling /\ Marked
  BY DEF IInv
<1>a. UNCHANGED <<deleted, cycleCount, cycle, rows, processed, queue, review, posted, resolved, ticket, prompted, left>>
  BY DEF dbVars, outVars, Closed, GiveUp
<1>b. op.at = "closed"
  BY DEF Closed
<1>m. mark' \in {"none", "pause", "delete"}
  BY <1>0, MarkType DEF Closed
<1>1. CASE Throw
  BY <1>a, <1>b, <1>1, <1>m, Throws DEF dbVars
<1>2. CASE ~deleted /\ state \notin Terminal /\ state' = "FAILED" /\ Stop
  BY <1>0, <1>a, <1>b, <1>2, <1>m, Stops DEF TypeOK, dbVars
<1>3. CASE Legal("DONE") /\ state' = "DONE" /\ Stop
  <2>p. op' \in Operations /\ op'.at = "idle" /\ op'.kind = "none" /\ op'.todo = {} /\ op'.feedback = {}
    BY <1>3, IdleType DEF Stop
  <2>q. ~deleted /\ state \in {"MERGED", "CLOSING", "DONE"} /\ Moved
    BY <1>0, <1>3, LegalFrom DEF TaskStates
  <2>1. TypeOK'
    BY <1>0, <1>a, <1>b, <1>m, <1>3, <2>p, <2>q DEF TypeOK, TaskStates
  <2>2. Workflows'
    BY <1>0, <1>a, <1>b, <1>3, <2>p, <2>q DEF Workflows, IsWorkflow, TypeOK
  <2>3. Cycles'
    BY <1>0, <1>a, <1>b, <1>3, <2>p, <2>q DEF Cycles, Bound, Terminal, TypeOK, Workflows
  <2>4. Convergence'
    BY <1>0, <1>a, <1>b, <1>3, <2>p, <2>q DEF Convergence, Converging, Merged, Terminal, TypeOK, Cycles, Workflows
  <2>5. Polling'
    BY <1>0, <1>a, <1>b, <1>3, <2>p, <2>q DEF Polling, Merged, Target, TypeOK, Cycles
  <2>6. Marked'
    BY <1>0, <1>a, <1>b, <2>p, <2>q DEF Marked, Reading, TypeOK
  <2>7. Moved
    BY <1>0, <1>a, <1>b, <1>m, <1>3, <2>p, <2>q, <2>q
  <2> QED
    BY <2>1, <2>2, <2>3, <2>4, <2>5, <2>6, <2>7 DEF IInv
<1> QED
  BY <1>1, <1>2, <1>3 DEF Closed, GiveUp

-----------------------------------------------------------------------------
(* Polls, webhooks and the operator.                                       *)

\* A poll or a webhook looks at the reviews.
LEMMA BeginCheckIInv ==
  ASSUME IInv, BeginCheck
  PROVE  IInv' /\ Moved
<1>. USE CodeGenAssumption
<1>0. TypeOK /\ Workflows /\ Cycles /\ Convergence /\ Polling /\ Marked
  BY DEF IInv
<1>a. UNCHANGED <<state, mark, deleted, cycleCount, cycle, rows, processed, queue, review, posted, resolved, ticket, prompted, left>>
  BY DEF dbVars, outVars, BeginCheck
<1>b. op.at = "idle" /\ ~deleted /\ state = "IN_REVIEW"
  BY DEF BeginCheck, HandlerMayRun
<1>p. op' \in Operations /\ op'.at = "check" /\ op'.kind = "handler" /\ op'.todo = {} /\ op'.feedback = {}
  BY NewOperation DEF BeginCheck, Labels
<1>1. TypeOK'
  BY <1>0, <1>a, <1>b, <1>p DEF TypeOK, TaskStates
<1>2. Workflows'
  BY <1>0, <1>a, <1>b, <1>p DEF Workflows, IsWorkflow, TypeOK
<1>3. Cycles'
  BY <1>0, <1>a, <1>b, <1>p DEF Cycles, Bound, Terminal, TypeOK, Workflows
<1>4. Convergence'
  BY <1>0, <1>a, <1>b, <1>p DEF Convergence, Converging, Merged, Terminal, TypeOK, Cycles, Workflows
<1>5. Polling'
  BY <1>0, <1>a, <1>b, <1>p DEF Polling, Merged, Target, TypeOK, Cycles
<1>6. Marked'
  BY <1>0, <1>a, <1>b, <1>p DEF Marked, Reading, TypeOK
<1>7. Moved
  BY <1>0, <1>a, <1>b, <1>p DEF Moved
<1> QED
  BY <1>1, <1>2, <1>3, <1>4, <1>5, <1>6, <1>7 DEF IInv

\* A webhook reports a merged change.
LEMMA ChangeMergedIInv ==
  ASSUME NEW r \in Repos, IInv, ChangeMerged(r)
  PROVE  IInv' /\ Moved
<1>. USE CodeGenAssumption
<1>0. TypeOK /\ Workflows /\ Cycles /\ Convergence /\ Polling /\ Marked
  BY DEF IInv
<1>a. UNCHANGED <<deleted, cycleCount, cycle, processed, queue, review, posted, resolved, ticket, prompted, left>>
  BY DEF dbVars, outVars, ChangeMerged
<1>b. op.at = "idle" /\ ~deleted /\ state = "IN_REVIEW"
  BY DEF ChangeMerged, HandlerMayRun
<1>c. /\ rows' \in [Repos -> RowStatus]
      /\ \A s \in Repos : rows'[s] = rows[s] \/ (s = r /\ rows'[s] = "MERGED")
  BY <1>0 DEF ChangeMerged, RecordStatus, TypeOK, RowStatus
<1>m. mark' \in {"none", "pause", "delete"}
  BY <1>0, MarkType DEF ChangeMerged
<1>1. CASE Converged(rows') /\ state' = "MERGED" /\ op' = [Idle EXCEPT !.at = "close", !.kind = "handler"]
  <2>p. op' \in Operations /\ op'.at = "close" /\ op'.kind = "handler" /\ op'.todo = {} /\ op'.feedback = {}
    BY <1>1, NewOperation DEF Labels
  <2>q. \A s \in Repos : Merged(rows'[s])
    BY <1>1 DEF Converged, Merged
  <2>r. state' \in Machine!Edges[state]
    BY <1>b, <1>1 DEF Machine!Edges
  <2>1. TypeOK'
    BY <1>0, <1>a, <1>b, <1>c, <1>m, <1>1, <2>p, <2>q, <2>r DEF TypeOK, TaskStates
  <2>2. Workflows'
    BY <1>0, <1>a, <1>b, <1>1, <2>p, <2>r DEF Workflows, IsWorkflow, TypeOK
  <2>3. Cycles'
    BY <1>0, <1>a, <1>b, <1>1, <2>p, <2>r DEF Cycles, Bound, Terminal, TypeOK, Workflows
  <2>4. Convergence'
    BY <1>0, <1>a, <1>b, <1>c, <1>1, <2>p, <2>q, <2>r DEF Convergence, Converging, Merged, Terminal, TypeOK, Cycles, Workflows
  <2>5. Polling'
    BY <1>0, <1>a, <1>b, <1>c, <1>1, <2>p, <2>q, <2>r DEF Polling, Merged, Target, TypeOK, Cycles
  <2>6. Marked'
    BY <1>0, <1>a, <1>b, <1>1, <2>p DEF Marked, Reading, TypeOK
  <2>7. Moved
    BY <1>0, <1>a, <1>b, <1>c, <1>m, <1>1, <2>p, <2>q, <2>r DEF Moved
  <2> QED
    BY <2>1, <2>2, <2>3, <2>4, <2>5, <2>6, <2>7 DEF IInv
<1>2. CASE state' = state /\ op' = op
  <2>1. TypeOK'
    BY <1>0, <1>a, <1>b, <1>c, <1>m, <1>2 DEF TypeOK, TaskStates
  <2>2. Workflows'
    BY <1>0, <1>a, <1>b, <1>2 DEF Workflows, IsWorkflow, TypeOK
  <2>3. Cycles'
    BY <1>0, <1>a, <1>b, <1>2 DEF Cycles, Bound, Terminal, TypeOK, Workflows
  <2>4. Convergence'
    BY <1>0, <1>a, <1>b, <1>c, <1>2 DEF Convergence, Converging, Merged, Terminal, TypeOK, Cycles, Workflows
  <2>5. Polling'
    BY <1>0, <1>a, <1>b, <1>c, <1>2 DEF Polling, Merged, Target, TypeOK, Cycles
  <2>6. Marked'
    BY <1>0, <1>a, <1>b, <1>2 DEF Marked, Reading, TypeOK
  <2>7. Moved
    BY <1>0, <1>a, <1>b, <1>c, <1>m, <1>2 DEF Moved
  <2> QED
    BY <2>1, <2>2, <2>3, <2>4, <2>5, <2>6, <2>7 DEF IInv
<1> QED
  BY <1>1, <1>2 DEF ChangeMerged

\* A webhook reports an abandoned change.
LEMMA ChangeAbandonedIInv ==
  ASSUME NEW r \in Repos, IInv, ChangeAbandoned(r)
  PROVE  IInv' /\ Moved
<1>. USE CodeGenAssumption
<1>0. TypeOK /\ Workflows /\ Cycles /\ Convergence /\ Polling /\ Marked
  BY DEF IInv
<1>a. UNCHANGED <<deleted, cycleCount, cycle, rows, processed, queue, review, posted, resolved, ticket, prompted, left>>
  BY DEF dbVars, outVars, ChangeAbandoned
<1>b. op.at = "idle" /\ ~deleted /\ state \notin Terminal
  BY DEF ChangeAbandoned, HandlerMayRun
<1>m. mark' \in {"none", "pause", "delete"}
  BY <1>0, MarkType DEF ChangeAbandoned
<1>p. op' \in Operations /\ op'.at = "notify" /\ op'.kind = "handler" /\ op'.todo = {} /\ op'.feedback = {}
  BY NewOperation DEF ChangeAbandoned, Labels
<1>q. state' = "ABANDONED"
  BY DEF ChangeAbandoned
<1>1. TypeOK'
  BY <1>0, <1>a, <1>b, <1>m, <1>p, <1>q DEF TypeOK, TaskStates
<1>2. Workflows'
  BY <1>0, <1>a, <1>b, <1>p, <1>q DEF Workflows, IsWorkflow, TypeOK
<1>3. Cycles'
  BY <1>0, <1>a, <1>b, <1>p, <1>q DEF Cycles, Bound, Terminal, TypeOK, Workflows
<1>4. Convergence'
  BY <1>0, <1>a, <1>b, <1>p, <1>q DEF Convergence, Converging, Merged, Terminal, TypeOK, Cycles, Workflows
<1>5. Polling'
  BY <1>0, <1>a, <1>b, <1>p, <1>q DEF Polling, Merged, Target, TypeOK, Cycles
<1>6. Marked'
  BY <1>0, <1>a, <1>b, <1>p DEF Marked, Reading, TypeOK
<1>7. Moved
  BY <1>0, <1>a, <1>b, <1>m, <1>p, <1>q DEF Moved
<1> QED
  BY <1>1, <1>2, <1>3, <1>4, <1>5, <1>6, <1>7 DEF IInv

\* A stalled task is resumed.
LEMMA StalledPollIInv ==
  ASSUME IInv, StalledPoll
  PROVE  IInv' /\ Moved
<1>. USE CodeGenAssumption
<1>0. TypeOK /\ Workflows /\ Cycles /\ Convergence /\ Polling /\ Marked
  BY DEF IInv
<1>a. UNCHANGED <<state, mark, deleted, cycleCount, cycle, rows, processed, op, review, posted, resolved, ticket, prompted, left>>
  BY DEF dbVars, outVars, StalledPoll
<1>b. state \in TaskStates /\ runWorkflow(state)
  BY <1>0 DEF StalledPoll, TypeOK
<1>p. /\ queue' \in Seq(Items)
      /\ \A i, j \in DOMAIN queue' : IsWorkflow(i)' /\ IsWorkflow(j)' => i = j
      /\ op.kind = "workflow" => \A i \in DOMAIN queue' : ~IsWorkflow(i)'
      /\ \A i \in DOMAIN queue' : IsWorkflow(i)' =>
           \/ queue'[i].seen = state
           \/ i \in DOMAIN queue /\ IsWorkflow(i) /\ queue'[i] = queue[i]
  BY <1>0, <1>b, JoinEffect DEF StalledPoll
<1>1. TypeOK'
  BY <1>0, <1>a, <1>b, <1>p DEF TypeOK, TaskStates
<1>2. Workflows'
  BY <1>0, <1>a, <1>b, <1>p DEF Workflows, IsWorkflow, TypeOK
<1>3. Cycles'
  BY <1>0, <1>a, <1>b, <1>p DEF Cycles, Bound, Terminal, TypeOK, Workflows
<1>4. Convergence'
  BY <1>0, <1>a, <1>b, <1>p DEF Convergence, Converging, Merged, Terminal, TypeOK, Cycles, Workflows
<1>5. Polling'
  BY <1>0, <1>a, <1>b, <1>p DEF Polling, Merged, Target, TypeOK, Cycles
<1>6. Marked'
  BY <1>0, <1>a, <1>p DEF Marked, Reading, TypeOK
<1>7. Moved
  BY <1>0, <1>a, <1>b, <1>p DEF Moved
<1> QED
  BY <1>1, <1>2, <1>3, <1>4, <1>5, <1>6, <1>7 DEF IInv

\* The operator abandons the task.
LEMMA AbandonTaskIInv ==
  ASSUME IInv, AbandonTask
  PROVE  IInv' /\ Moved
<1>. USE CodeGenAssumption
<1>0. TypeOK /\ Workflows /\ Cycles /\ Convergence /\ Polling /\ Marked
  BY DEF IInv
<1>a. UNCHANGED <<state, mark, deleted, cycleCount, cycle, rows, processed, review, posted, resolved, ticket, prompted>>
  BY DEF dbVars, outVars, AbandonTask
<1>b. Use("admin")
  BY DEF AbandonTask
<1>c. /\ left' \in [retry : 0..MaxRetries, restart : 0..MaxRestarts, admin : 0..MaxAdmin]
      /\ left'.retry = left.retry
  BY <1>0, <1>b DEF Use, TypeOK
<1>p. [kind |-> "abandon", seen |-> state] \in Items /\ queue' = Append(queue, [kind |-> "abandon", seen |-> state])
  BY <1>0 DEF AbandonTask, Items, TypeOK
<1>q. /\ queue' \in Seq(Items) /\ Len(queue) \in Nat
      /\ DOMAIN queue' = DOMAIN queue \cup {Len(queue) + 1} /\ Len(queue) + 1 \notin DOMAIN queue
      /\ \A i \in DOMAIN queue : queue'[i] = queue[i]
      /\ queue'[Len(queue) + 1] = [kind |-> "abandon", seen |-> state]
  BY <1>0, <1>p, AppendItem
<1>r. queue' \in Seq(Items)
  BY <1>q
<1>s. \A i \in DOMAIN queue' : IsWorkflow(i)' => i \in DOMAIN queue /\ IsWorkflow(i) /\ queue'[i] = queue[i]
  BY <1>q DEF IsWorkflow
<1>t. op' \in Operations /\ op'.at = op.at /\ op'.kind = op.kind /\ op'.todo = op.todo /\ op'.allMerged = op.allMerged /\ op'.anyAbandoned = op.anyAbandoned /\ op'.feedback = op.feedback /\ op'.after = op.after
  BY <1>0 DEF AbandonTask, TypeOK, Operations
<1>1. TypeOK'
  BY <1>0, <1>a, <1>b, <1>c, <1>r, <1>s, <1>t DEF TypeOK, TaskStates
<1>2. Workflows'
  BY <1>0, <1>a, <1>b, <1>r, <1>s, <1>t DEF Workflows, IsWorkflow, TypeOK
<1>3. Cycles'
  BY <1>0, <1>a, <1>b, <1>c, <1>t DEF Cycles, Bound, Terminal, TypeOK, Workflows
<1>4. Convergence'
  BY <1>0, <1>a, <1>b, <1>r, <1>s, <1>t DEF Convergence, Converging, Merged, Terminal, TypeOK, Cycles, Workflows
<1>5. Polling'
  BY <1>0, <1>a, <1>b, <1>t DEF Polling, Merged, Target, TypeOK, Cycles
<1>6. Marked'
  BY <1>0, <1>a, <1>b, <1>t DEF Marked, Reading, TypeOK
<1>7. Moved
  BY <1>0, <1>a, <1>b, <1>c, <1>r, <1>s, <1>t DEF Moved
<1> QED
  BY <1>1, <1>2, <1>3, <1>4, <1>5, <1>6, <1>7 DEF IInv

\* The operator has the task tried again.
LEMMA RetryTaskIInv ==
  ASSUME IInv, RetryTask
  PROVE  IInv' /\ Moved
<1>. USE CodeGenAssumption
<1>0. TypeOK /\ Workflows /\ Cycles /\ Convergence /\ Polling /\ Marked
  BY DEF IInv
<1>a. UNCHANGED <<deleted, cycleCount, cycle, rows, processed, op, review, posted, resolved, ticket, prompted>>
  BY DEF dbVars, outVars, RetryTask
<1>b. runWorkflow("DETECTED") /\ state' = "DETECTED" /\ ~deleted /\ mark' = "none"
  BY DEF RetryTask
<1>p. /\ queue' \in Seq(Items)
      /\ \A i, j \in DOMAIN queue' : IsWorkflow(i)' /\ IsWorkflow(j)' => i = j
      /\ op.kind = "workflow" => \A i \in DOMAIN queue' : ~IsWorkflow(i)'
      /\ \A i \in DOMAIN queue' : IsWorkflow(i)' =>
           \/ queue'[i].seen = "DETECTED"
           \/ i \in DOMAIN queue /\ IsWorkflow(i) /\ queue'[i] = queue[i]
  BY <1>0, <1>b, JoinEffect DEF RetryTask, TaskStates
<1>q. /\ left' \in [retry : 0..MaxRetries, restart : 0..MaxRestarts, admin : 0..MaxAdmin]
      /\ left'.retry = left.retry - 1 /\ left.retry \in 0..MaxRetries
  BY <1>0 DEF RetryTask, Use, TypeOK
<1>r. cycleCount \in Nat /\ left.retry \in Int /\ MaxRetries \in Int /\ MaxAgentCycles \in Int
  BY <1>0, <1>q DEF TypeOK
<1>s. Bound' = Bound + 1 /\ Bound \in Int
  BY <1>q, <1>r DEF Bound
<1>t. cycleCount <= Bound /\ cycleCount < Bound'
  BY <1>0, <1>r, <1>s DEF Cycles
<1>1. TypeOK'
  BY <1>0, <1>a, <1>b, <1>p, <1>q, <1>r, <1>s, <1>t DEF TypeOK, TaskStates
<1>2. Workflows'
  BY <1>0, <1>a, <1>b, <1>p, <1>s DEF Workflows, IsWorkflow, TypeOK
<1>3. Cycles'
  BY <1>0, <1>a, <1>b, <1>p, <1>q, <1>r, <1>s, <1>t DEF Cycles, Terminal, TypeOK, Workflows
<1>4. Convergence'
  BY <1>0, <1>a, <1>b, <1>p, <1>s DEF Convergence, Converging, Merged, Terminal, TypeOK, Cycles, Workflows
<1>5. Polling'
  BY <1>0, <1>a, <1>b, <1>p, <1>s DEF Polling, Merged, Target, TypeOK, Cycles
<1>6. Marked'
  BY <1>0, <1>a, <1>b, <1>p, <1>s DEF Marked, Reading, TypeOK
<1>7. Moved
  BY <1>0, <1>a, <1>b, <1>p, <1>q, <1>r, <1>s, <1>t DEF Moved
<1> QED
  BY <1>1, <1>2, <1>3, <1>4, <1>5, <1>6, <1>7 DEF IInv

\* The operator pauses the task.
LEMMA PauseTaskIInv ==
  ASSUME IInv, PauseTask
  PROVE  IInv' /\ Moved
<1>. USE CodeGenAssumption
<1>0. TypeOK /\ Workflows /\ Cycles /\ Convergence /\ Polling /\ Marked
  BY DEF IInv
<1>a. UNCHANGED <<state, deleted, cycleCount, cycle, rows, processed, queue, op, review, posted, resolved, ticket, prompted>>
  BY DEF dbVars, outVars, PauseTask
<1>b. /\ left' \in [retry : 0..MaxRetries, restart : 0..MaxRestarts, admin : 0..MaxAdmin]
      /\ left'.retry = left.retry
  BY <1>0 DEF PauseTask, Use, TypeOK
<1>c. mark' = "pause"
  BY DEF PauseTask
<1>1. TypeOK'
  BY <1>0, <1>a, <1>b, <1>c DEF TypeOK, TaskStates
<1>2. Workflows'
  BY <1>0, <1>a DEF Workflows, IsWorkflow, TypeOK
<1>3. Cycles'
  BY <1>0, <1>a, <1>b DEF Cycles, Bound, Terminal, TypeOK, Workflows
<1>4. Convergence'
  BY <1>0, <1>a DEF Convergence, Converging, Merged, Terminal, TypeOK, Cycles, Workflows
<1>5. Polling'
  BY <1>0, <1>a DEF Polling, Merged, Target, TypeOK, Cycles
<1>6. Marked'
  BY <1>0, <1>a DEF Marked, Reading, TypeOK
<1>7. Moved
  BY <1>0, <1>a, <1>b, <1>c DEF Moved
<1> QED
  BY <1>1, <1>2, <1>3, <1>4, <1>5, <1>6, <1>7 DEF IInv

\* The operator resumes the task.
LEMMA ResumeTaskIInv ==
  ASSUME IInv, ResumeTask
  PROVE  IInv' /\ Moved
<1>. USE CodeGenAssumption
<1>0. TypeOK /\ Workflows /\ Cycles /\ Convergence /\ Polling /\ Marked
  BY DEF IInv
<1>a. UNCHANGED <<state, deleted, cycleCount, cycle, rows, processed, op, review, posted, resolved, ticket, prompted>>
  BY DEF dbVars, outVars, ResumeTask
<1>b. /\ left' \in [retry : 0..MaxRetries, restart : 0..MaxRestarts, admin : 0..MaxAdmin]
      /\ left'.retry = left.retry
  BY <1>0 DEF ResumeTask, Use, TypeOK
<1>c. state \in TaskStates /\ runWorkflow(state) /\ mark' = "none"
  BY <1>0 DEF ResumeTask, TypeOK
<1>p. /\ queue' \in Seq(Items)
      /\ \A i, j \in DOMAIN queue' : IsWorkflow(i)' /\ IsWorkflow(j)' => i = j
      /\ op.kind = "workflow" => \A i \in DOMAIN queue' : ~IsWorkflow(i)'
      /\ \A i \in DOMAIN queue' : IsWorkflow(i)' =>
           \/ queue'[i].seen = state
           \/ i \in DOMAIN queue /\ IsWorkflow(i) /\ queue'[i] = queue[i]
  BY <1>0, <1>c, JoinEffect DEF ResumeTask
<1>1. TypeOK'
  BY <1>0, <1>a, <1>b, <1>c, <1>p DEF TypeOK, TaskStates
<1>2. Workflows'
  BY <1>0, <1>a, <1>c, <1>p DEF Workflows, IsWorkflow, TypeOK
<1>3. Cycles'
  BY <1>0, <1>a, <1>b, <1>c, <1>p DEF Cycles, Bound, Terminal, TypeOK, Workflows
<1>4. Convergence'
  BY <1>0, <1>a, <1>c, <1>p DEF Convergence, Converging, Merged, Terminal, TypeOK, Cycles, Workflows
<1>5. Polling'
  BY <1>0, <1>a, <1>c, <1>p DEF Polling, Merged, Target, TypeOK, Cycles
<1>6. Marked'
  BY <1>0, <1>a, <1>p DEF Marked, Reading, TypeOK
<1>7. Moved
  BY <1>0, <1>a, <1>b, <1>c, <1>p DEF Moved
<1> QED
  BY <1>1, <1>2, <1>3, <1>4, <1>5, <1>6, <1>7 DEF IInv

\* The operator deletes the task.
LEMMA DeleteTaskIInv ==
  ASSUME IInv, DeleteTask
  PROVE  IInv' /\ Moved
<1>. USE CodeGenAssumption
<1>0. TypeOK /\ Workflows /\ Cycles /\ Convergence /\ Polling /\ Marked
  BY DEF IInv
<1>a. UNCHANGED <<cycleCount, cycle, queue, op, review, posted, resolved, ticket, prompted>>
  BY DEF dbVars, outVars, DeleteTask
<1>b. /\ left' \in [retry : 0..MaxRetries, restart : 0..MaxRestarts, admin : 0..MaxAdmin]
      /\ left'.retry = left.retry
  BY <1>0 DEF DeleteTask, Use, TypeOK
<1>c. ~deleted /\ mark' \in {"none", "pause", "delete"}
  BY <1>0 DEF DeleteTask, TypeOK
<1>1. CASE state \notin Terminal
  <2>p. state' = "ABANDONED" /\ mark' = "delete" /\ UNCHANGED <<deleted, rows, processed>>
    BY <1>1 DEF DeleteTask
  <2>1. TypeOK'
    BY <1>0, <1>a, <1>b, <1>c, <1>1, <2>p DEF TypeOK, TaskStates
  <2>2. Workflows'
    BY <1>0, <1>a, <1>c, <1>1, <2>p DEF Workflows, IsWorkflow, TypeOK
  <2>3. Cycles'
    BY <1>0, <1>a, <1>b, <1>c, <1>1, <2>p DEF Cycles, Bound, Terminal, TypeOK, Workflows
  <2>4. Convergence'
    BY <1>0, <1>a, <1>c, <1>1, <2>p DEF Convergence, Converging, Merged, Terminal, TypeOK, Cycles, Workflows
  <2>5. Polling'
    BY <1>0, <1>a, <1>c, <1>1, <2>p DEF Polling, Merged, Target, TypeOK, Cycles
  <2>6. Marked'
    BY <1>0, <1>a, <1>c, <2>p DEF Marked, Reading, TypeOK
  <2>7. Moved
    BY <1>0, <1>a, <1>b, <1>c, <1>1, <2>p DEF Moved
  <2> QED
    BY <2>1, <2>2, <2>3, <2>4, <2>5, <2>6, <2>7 DEF IInv
<1>2. CASE state \in Terminal /\ mark = "delete"
  <2>p. UNCHANGED <<state, mark, deleted, rows, processed>>
    BY <1>2 DEF DeleteTask
  <2>1. TypeOK'
    BY <1>0, <1>a, <1>b, <1>c, <1>2, <2>p DEF TypeOK, TaskStates
  <2>2. Workflows'
    BY <1>0, <1>a, <1>c, <1>2, <2>p DEF Workflows, IsWorkflow, TypeOK
  <2>3. Cycles'
    BY <1>0, <1>a, <1>b, <1>c, <1>2, <2>p DEF Cycles, Bound, Terminal, TypeOK, Workflows
  <2>4. Convergence'
    BY <1>0, <1>a, <1>c, <1>2, <2>p DEF Convergence, Converging, Merged, Terminal, TypeOK, Cycles, Workflows
  <2>5. Polling'
    BY <1>0, <1>a, <1>c, <1>2, <2>p DEF Polling, Merged, Target, TypeOK, Cycles
  <2>6. Marked'
    BY <1>0, <1>a, <1>c, <2>p DEF Marked, Reading, TypeOK
  <2>7. Moved
    BY <1>0, <1>a, <1>b, <1>c, <1>2, <2>p DEF Moved
  <2> QED
    BY <2>1, <2>2, <2>3, <2>4, <2>5, <2>6, <2>7 DEF IInv
<1>3. CASE state \in Terminal /\ mark # "delete"
  <2>p. UNCHANGED <<state, mark>> /\ deleted' = TRUE /\ rows' = [r \in Repos |-> "none"] /\ processed' = {}
    BY <1>3 DEF DeleteTask
  <2>q. rows' \in [Repos -> RowStatus] /\ \A r \in Repos : rows'[r] = "none"
    BY <2>p DEF RowStatus
  <2>r. \A r \in op.todo : r \in Repos
    BY <1>0 DEF TypeOK, Operations
  <2>1. TypeOK'
    BY <1>0, <1>a, <1>b, <1>c, <1>3, <2>p, <2>q, <2>r DEF TypeOK, TaskStates
  <2>2. Workflows'
    BY <1>0, <1>a, <1>c, <1>3, <2>p, <2>r DEF Workflows, IsWorkflow, TypeOK
  <2>3. Cycles'
    BY <1>0, <1>a, <1>b, <1>c, <1>3, <2>p, <2>r DEF Cycles, Bound, Terminal, TypeOK, Workflows
  <2>4. Convergence'
    BY <1>0, <1>a, <1>c, <1>3, <2>p, <2>q, <2>r DEF Convergence, Converging, Merged, Terminal, TypeOK, Cycles, Workflows
  <2>5. Polling'
    BY <1>0, <1>a, <1>c, <1>3, <2>p, <2>q, <2>r DEF Polling, Merged, Target, TypeOK, Cycles
  <2>6. Marked'
    BY <1>0, <1>a, <1>c, <2>p, <2>r DEF Marked, Reading, TypeOK
  <2>7. Moved
    BY <1>0, <1>a, <1>b, <1>c, <1>3, <2>p, <2>q, <2>r DEF Moved
  <2> QED
    BY <2>1, <2>2, <2>3, <2>4, <2>5, <2>6, <2>7 DEF IInv
<1> QED
  BY <1>1, <1>2, <1>3 DEF DeleteTask

\* The process restarts.
LEMMA RestartIInv ==
  ASSUME IInv, Restart
  PROVE  IInv' /\ Moved
<1>. USE CodeGenAssumption
<1>0. TypeOK /\ Workflows /\ Cycles /\ Convergence /\ Polling /\ Marked
  BY DEF IInv
<1>a. UNCHANGED <<deleted, cycleCount, cycle, rows, processed, review, posted, resolved, ticket, prompted>>
  BY DEF dbVars, outVars, Restart
<1>b. /\ left' \in [retry : 0..MaxRetries, restart : 0..MaxRestarts, admin : 0..MaxAdmin]
      /\ left'.retry = left.retry
  BY <1>0 DEF Restart, Use, TypeOK
<1>m. mark' \in {"none", "pause", "delete"}
  BY <1>0, MarkType DEF Restart
<1>p. op' \in Operations /\ op'.at = "idle" /\ op'.kind = "none" /\ op'.todo = {} /\ op'.feedback = {}
  BY IdleType DEF Restart
<1>q. state' = (IF state = "AGENT_RUNNING" THEN "FAILED" ELSE state)
  BY <1>0 DEF Restart, Orphan, Cycles, Terminal
<1>r. state' \in TaskStates /\ (state' = state \/ state' \in Machine!Edges[state])
  BY <1>0, <1>q DEF TypeOK, TaskStates, Machine!Edges
<1>s. queue' = <<>> \/ queue' = <<[kind |-> "workflow", seen |-> state']>>
  BY DEF Restart
<1>t. [kind |-> "workflow", seen |-> state'] \in Items
  BY <1>r DEF Items
<1>u. queue' \in Seq(Items) /\ \A i \in DOMAIN queue' : i = 1 /\ queue'[i].seen = state'
  <2>1. CASE queue' = <<>>
    BY <2>1
  <2> DEFINE x == [kind |-> "workflow", seen |-> state']
  <2>2. CASE queue' = <<x>>
    <3>1. x \in Items /\ x.seen = state'
      BY <1>t
    <3> HIDE DEF x
    <3>2. queue' \in Seq(Items) /\ DOMAIN queue' = {1} /\ queue'[1] = x
      BY <2>2, <3>1
    <3> QED
      BY <3>1, <3>2
  <2> QED
    BY <1>s, <2>1, <2>2
<1>1. TypeOK'
  BY <1>0, <1>a, <1>b, <1>m, <1>p, <1>q, <1>r, <1>s, <1>t, <1>u DEF TypeOK, TaskStates
<1>2. Workflows'
  BY <1>0, <1>a, <1>p, <1>q, <1>r, <1>s, <1>t, <1>u DEF Workflows, IsWorkflow, TypeOK
<1>3. Cycles'
  BY <1>0, <1>a, <1>b, <1>p, <1>q, <1>r, <1>s, <1>t, <1>u DEF Cycles, Bound, Terminal, TypeOK, Workflows
<1>4. Convergence'
  BY <1>0, <1>a, <1>p, <1>q, <1>r, <1>s, <1>t, <1>u DEF Convergence, Converging, Merged, Terminal, TypeOK, Cycles, Workflows
<1>5. Polling'
  BY <1>0, <1>a, <1>p, <1>q, <1>r, <1>s, <1>t, <1>u DEF Polling, Merged, Target, TypeOK, Cycles
<1>6. Marked'
  BY <1>0, <1>a, <1>p DEF Marked, Reading, TypeOK
<1>7. Moved
  BY <1>0, <1>a, <1>b, <1>m, <1>p, <1>q, <1>r, <1>s, <1>t, <1>u, <1>r DEF Moved
<1> QED
  BY <1>1, <1>2, <1>3, <1>4, <1>5, <1>6, <1>7 DEF IInv

-----------------------------------------------------------------------------
(* The reviewers.                                                          *)

\* A reviewer merges or abandons a change.
LEMMA ReviewerActsIInv ==
  ASSUME NEW r \in Repos, NEW s \in {"MERGED", "ABANDONED"}, IInv, ReviewerActs(r, s)
  PROVE  IInv' /\ Moved
<1>. USE CodeGenAssumption
<1>0. TypeOK /\ Workflows /\ Cycles /\ Convergence /\ Polling /\ Marked
  BY DEF IInv
<1>a. UNCHANGED <<state, mark, deleted, cycleCount, cycle, rows, processed, queue, op, posted, resolved, ticket, prompted, left>>
  BY DEF dbVars, outVars, ReviewerActs
<1>p. /\ review' \in [Repos -> {"none", "OPEN", "MERGED", "ABANDONED"}]
      /\ \A q \in Repos : review'[q] = review[q] \/ review'[q] # "none"
  BY <1>0 DEF ReviewerActs, TypeOK
<1>q. op.at = "record" => Target \in Repos
  BY <1>0, TargetOf DEF TypeOK
<1>r. Target' = Target
  BY <1>a DEF Target
<1>1. TypeOK'
  BY <1>0, <1>a, <1>p, <1>q, <1>r DEF TypeOK, TaskStates
<1>2. Workflows'
  BY <1>0, <1>a, <1>q, <1>r DEF Workflows, IsWorkflow, TypeOK
<1>3. Cycles'
  BY <1>0, <1>a, <1>q, <1>r DEF Cycles, Bound, Terminal, TypeOK, Workflows
<1>4. Convergence'
  BY <1>0, <1>a, <1>q, <1>r DEF Convergence, Converging, Merged, Terminal, TypeOK, Cycles, Workflows
<1>5. Polling'
  BY <1>0, <1>a, <1>p, <1>q, <1>r DEF Polling, Merged, Target, TypeOK, Cycles
<1>6. Marked'
  BY <1>0, <1>a, <1>q, <1>r DEF Marked, Reading, TypeOK
<1>7. Moved
  BY <1>0, <1>a, <1>p, <1>q, <1>r DEF Moved
<1> QED
  BY <1>1, <1>2, <1>3, <1>4, <1>5, <1>6, <1>7 DEF IInv

\* A reviewer comments.
LEMMA CommentIInv ==
  ASSUME NEW c \in Comments, IInv, Comment(c)
  PROVE  IInv' /\ Moved
<1>. USE CodeGenAssumption
<1>0. TypeOK /\ Workflows /\ Cycles /\ Convergence /\ Polling /\ Marked
  BY DEF IInv
<1>a. UNCHANGED <<state, mark, deleted, cycleCount, cycle, rows, processed, queue, op, review, resolved, ticket, prompted, left>>
  BY DEF dbVars, outVars, Comment
<1>p. posted' \in SUBSET Comments
  BY <1>0 DEF Comment, TypeOK
<1>1. TypeOK'
  BY <1>0, <1>a, <1>p DEF TypeOK, TaskStates
<1>2. Workflows'
  BY <1>0, <1>a DEF Workflows, IsWorkflow, TypeOK
<1>3. Cycles'
  BY <1>0, <1>a DEF Cycles, Bound, Terminal, TypeOK, Workflows
<1>4. Convergence'
  BY <1>0, <1>a DEF Convergence, Converging, Merged, Terminal, TypeOK, Cycles, Workflows
<1>5. Polling'
  BY <1>0, <1>a DEF Polling, Merged, Target, TypeOK, Cycles
<1>6. Marked'
  BY <1>0, <1>a DEF Marked, Reading, TypeOK
<1>7. Moved
  BY <1>0, <1>a, <1>p DEF Moved
<1> QED
  BY <1>1, <1>2, <1>3, <1>4, <1>5, <1>6, <1>7 DEF IInv

-----------------------------------------------------------------------------
LEMMA InitIInv == Init => IInv
<1> SUFFICES ASSUME Init PROVE IInv
  OBVIOUS
<1>. USE CodeGenAssumption
<1>1. op \in Operations /\ op.at = "idle" /\ op.kind = "none" /\ op.todo = {} /\ op.feedback = {}
  BY IdleType DEF Init
<1>2. /\ queue = <<[kind |-> "workflow", seen |-> "DETECTED"]>>
      /\ [kind |-> "workflow", seen |-> "DETECTED"] \in Items
  BY DEF Init, Items, TaskStates
<1>3. queue \in Seq(Items) /\ DOMAIN queue = {1} /\ queue[1].seen = "DETECTED"
  BY <1>2
<1>4. left \in [retry : 0..MaxRetries, restart : 0..MaxRestarts, admin : 0..MaxAdmin]
      /\ left.retry = MaxRetries
  BY DEF Init
<1>5. TypeOK
  BY <1>1, <1>3, <1>4 DEF Init, TypeOK, TaskStates, RowStatus
<1>6. Workflows /\ Polling /\ Marked
  BY <1>1, <1>3 DEF Init, Workflows, IsWorkflow, Polling, Marked, Reading
<1>7. Cycles /\ Convergence
  BY <1>1, <1>4 DEF Init, Cycles, Bound, Convergence, Converging, Merged
<1> QED
  BY <1>5, <1>6, <1>7 DEF IInv

LEMMA StepMoves == IInv /\ [Next]_vars => IInv' /\ Moved
<1> SUFFICES ASSUME IInv, [Next]_vars PROVE IInv' /\ Moved
  OBVIOUS
<1>1. CASE BeginWorkflow \/ BeginAbandon
  BY <1>1, BeginWorkflowIInv, BeginAbandonIInv
<1>2. CASE OpStep
  BY <1>2, StartTicketIInv, NotifiedIInv, AcquireLeaseIInv, StartCycleIInv, AgentThrowsIInv,
     AgentUnresolvedIInv, ResultDiscardedIInv, AgentChangedNothingIInv, AgentReportsFailureIInv,
     AgentSucceedsIInv, CleanupIInv, SkipTargetIInv, PushTargetIInv, RecordPushIInv, PushFailsIInv,
     PushDoneIInv, TicketToReviewIInv, CheckIInv, PollFailsIInv, PollStatusIInv, PollCommentsIInv,
     DecideIInv, ActOnFeedbackIInv, ResolveIInv, StartClosingIInv, CloseTicketIInv, CloseFailsIInv,
     ClosedIInv DEF OpStep
<1>3. CASE Poll \/ Webhook
  BY <1>3, BeginCheckIInv, StalledPollIInv, ChangeMergedIInv, ChangeAbandonedIInv DEF Poll, Webhook
<1>4. CASE Operator \/ Restart
  BY <1>4, AbandonTaskIInv, RetryTaskIInv, PauseTaskIInv, ResumeTaskIInv, DeleteTaskIInv,
     RestartIInv DEF Operator
<1>5. CASE Reviewer
  BY <1>5, ReviewerActsIInv, CommentIInv DEF Reviewer
<1>6. CASE UNCHANGED vars
  <2>1. UNCHANGED <<state, mark, deleted, cycleCount, cycle, rows, processed, queue, op, review,
                    posted, resolved, ticket, prompted, left>>
    BY <1>6 DEF vars, dbVars, outVars
  <2> QED
    BY <2>1 DEF IInv, TypeOK, Workflows, IsWorkflow, Cycles, Bound, Convergence, Polling, Target,
                Marked, Moved
<1> QED
  BY <1>1, <1>2, <1>3, <1>4, <1>5, <1>6 DEF Next

LEMMA StepIInv == IInv /\ [Next]_vars => IInv' /\ [Machine!Next]_state
  BY StepMoves, MovedKeeps DEF IInv

LEMMA SpecIInv == Spec => []IInv
<1>1. Init => IInv
  BY InitIInv
<1>2. IInv /\ [Next]_vars => IInv'
  BY StepIInv
<1> QED
  BY <1>1, <1>2, PTL DEF Spec

-----------------------------------------------------------------------------
\* Every variable keeps its type (orchestrator.ts, taskStore.ts).
THEOREM TypeCorrect == Spec => []TypeOK
<1>1. IInv => TypeOK
  BY DEF IInv
<1> QED
  BY <1>1, SpecIInv, PTL

\* One workflow at a time is queued or running (runWorkflow).
THEOREM OneWorkflowRuns == Spec => []OneWorkflow
<1>1. ASSUME IInv PROVE OneWorkflow
  <2> DEFINE W == {i \in DOMAIN queue : queue[i].kind = "workflow"}
  <2>1. CASE W = {}
    BY <2>1, FS_EmptySet DEF OneWorkflow
  <2>2. CASE W # {}
    <3>1. PICK i \in W : TRUE
      BY <2>2
    <3>2. W = {i}
      BY <1>1, <3>1 DEF IInv, Workflows, IsWorkflow
    <3>3. Cardinality(W) = 1
      BY <3>2, FS_Singleton
    <3>4. op.kind # "workflow"
      BY <1>1, <3>1 DEF IInv, Workflows, IsWorkflow
    <3> QED
      BY <3>3, <3>4 DEF OneWorkflow
  <2> QED
    BY <2>1, <2>2
<1> QED
  BY <1>1, SpecIInv, PTL

\* Cycles are bounded (executeAgentCycle, checkMultiRepository, retryTask).
THEOREM CyclesAreBounded == Spec => []CyclesBounded
<1>1. IInv => CyclesBounded
  BY DEF IInv, Cycles, Bound, CyclesBounded
<1> QED
  BY <1>1, SpecIInv, PTL

\* A task that converged has no row left open or abandoned (checkMultiRepository,
\* markChangeMerged).
THEOREM RowsConverged == Spec => []ConvergedRows
<1>1. IInv => ConvergedRows
  BY DEF IInv, Convergence, Converging, Merged, ConvergedRows
<1> QED
  BY <1>1, SpecIInv, PTL

\* A task is DONE only while its ticket is closed (closeTicket).
THEOREM DoneClosed == Spec => []DoneIsClosed
<1>1. IInv => DoneIsClosed
  BY DEF IInv, Convergence, DoneIsClosed
<1> QED
  BY <1>1, SpecIInv, PTL

\* No agent is given a comment that one was given before (extractNewFeedback).
THEOREM CommentsGivenOnce == Spec => []CommentsOnce
<1>1. IInv => CommentsOnce
  BY DEF IInv, Marked, CommentsOnce
<1> QED
  BY <1>1, SpecIInv, PTL

\* The task row implements the state machine of the store (stateMachine.ts).
THEOREM ImplementsMachine == Spec => KeepsToMachine
<1>1. Init => Machine!Init
  BY DEF Init, Machine!Init, Machine!Initial
<1>2. IInv /\ [Next]_vars => [Machine!Next]_state
  BY StepIInv
<1> QED
  BY <1>1, <1>2, SpecIInv, PTL DEF Spec, KeepsToMachine, Machine!Spec

-----------------------------------------------------------------------------
(* Who drives the task on.                                                 *)

WorkflowQueued == \E i \in DOMAIN queue : IsWorkflow(i)

\* Where an operation is while the task is in a state no poll looks at.
Placed ==
  /\ state = "DETECTED" => op.at = "start" \/ left.retry < MaxRetries
  /\ state = "FEEDBACK_PROCESSING" => \/ op.at = "feedback"
                                      \/ op.at \in {"check", "poll", "comments"} /\ op.kind = "workflow"
  /\ state = "MERGED" => op.at = "close"
  /\ state = "CLOSING" => op.at \in {"close", "closing", "closed"}

\* A check that has found rows does not lose them.
HasRows ==
  state = "FEEDBACK_PROCESSING" \/ op.at \in {"poll", "comments"}
    => \E r \in Repos : rows[r] # "none"

Guided == ~deleted => HasRows /\ (WorkflowQueued \/ Placed)

\* States in which nothing is asked of the operation.
Harmless == {"CONTEXT_BUILDING", "AGENT_RUNNING", "IN_REVIEW", "RETRY_CYCLE", "DONE", "FAILED", "ABANDONED"}

LEMMA HarmlessPlaced == state' \in Harmless => Placed'
  BY DEF Harmless, Placed

\* Elsewhere than in the states asked about, nothing has to be kept.
LEMMA ElsewherePlaced ==
  ASSUME Placed, state' = state, left' = left,
         op.at \notin {"start", "check", "poll", "comments", "feedback", "close", "closing", "closed"}
  PROVE  Placed'
  BY DEF Placed

\* How a throw leaves a task that is not deleted.
LEMMA ThrowPlaced ==
  ASSUME TypeOK, ~deleted, Throw
  PROVE  \/ state' = "FAILED"
         \/ state' = state /\ op' = Idle /\ (op.kind # "workflow" \/ state \in Terminal)
  BY DEF Throw, Stop

LEMMA TerminalHarmless == Terminal \subseteq Harmless
  BY DEF Terminal, Harmless

\* The steps of an agent cycle, and those that end an operation.
LEMMA CyclePlaced ==
  ASSUME IInv, ~deleted, Placed,
         \/ Notified \/ AcquireLease \/ StartCycle \/ AgentThrows \/ AgentUnresolved \/ ResultDiscarded
         \/ AgentChangedNothing \/ AgentReportsFailure \/ AgentSucceeds \/ Cleanup
         \/ SkipTarget \/ PushTarget \/ RecordPush \/ PushFails \/ PushDone \/ TicketToReview \/ Resolve
  PROVE  Placed'
<1>1. /\ op.at \notin {"start", "check", "poll", "comments", "feedback", "close", "closing", "closed"}
      /\ left' = left
  <2>1. CASE Notified \/ AcquireLease \/ StartCycle
    BY <2>1 DEF Notified, AcquireLease, StartCycle
  <2>2. CASE AgentThrows \/ AgentUnresolved \/ ResultDiscarded
    BY <2>2 DEF AgentThrows, AgentUnresolved, ResultDiscarded
  <2>3. CASE AgentChangedNothing \/ AgentReportsFailure \/ AgentSucceeds
    BY <2>3 DEF AgentChangedNothing, AgentReportsFailure, AgentSucceeds, ResultKept
  <2>4. CASE Cleanup \/ SkipTarget \/ PushTarget \/ RecordPush
    BY <2>4 DEF Cleanup, SkipTarget, PushTarget, RecordPush
  <2>5. CASE PushFails \/ PushDone \/ TicketToReview \/ Resolve
    BY <2>5 DEF PushFails, PushDone, TicketToReview, Resolve
  <2> QED BY <2>1, <2>2, <2>3, <2>4, <2>5
<1>2. state' = state \/ state' \in Harmless
  <2>1. ASSUME Throw PROVE state' = state \/ state' \in Harmless
    BY <2>1 DEF Throw, Harmless
  <2>2. ASSUME CycleThrows PROVE state' = state
    BY <2>2 DEF CycleThrows
  <2>3. ASSUME NEW to \in Harmless, NEW l, Transition(to, l) PROVE state' = state \/ state' \in Harmless
    BY <2>1, <2>3 DEF Transition
  <2>4. CASE Notified \/ AcquireLease \/ ResultDiscarded \/ AgentSucceeds \/ SkipTarget \/ PushTarget
             \/ RecordPush \/ PushFails \/ Resolve
    BY <2>4 DEF Notified, AcquireLease, ResultDiscarded, AgentSucceeds, SkipTarget, PushTarget,
       RecordPush, PushFails, Resolve
  <2>5. CASE StartCycle
    BY <2>1, <2>3, <2>5 DEF StartCycle, Harmless
  <2>6. CASE AgentThrows \/ AgentUnresolved \/ AgentChangedNothing \/ AgentReportsFailure
    BY <2>2, <2>6 DEF AgentThrows, AgentUnresolved, AgentChangedNothing, AgentReportsFailure, Harmless
  <2>7. CASE Cleanup
    <3>1. op.after \in {"return", "retry", "throw"}
      BY DEF IInv, TypeOK, Operations
    <3> QED BY <2>1, <2>7, <3>1 DEF Cleanup
  <2>8. CASE PushDone \/ TicketToReview
    BY <2>2, <2>8 DEF PushDone, TicketToReview, Harmless
  <2> QED BY <2>4, <2>5, <2>6, <2>7, <2>8
<1> QED BY <1>1, <1>2, HarmlessPlaced, ElsewherePlaced

\* The steps of the first, of the check and of the closing.
LEMMA CheckPlaced ==
  ASSUME IInv, ~deleted, HasRows, Placed,
         \/ StartTicket \/ Check \/ PollFails \/ PollStatus \/ PollComments \/ Decide \/ ActOnFeedback
         \/ StartClosing \/ CloseTicket \/ CloseFails \/ Closed
  PROVE  Placed'
<1>0. TypeOK /\ Workflows /\ state \in TaskStates
  BY DEF IInv, TypeOK
<1>t. Terminal \subseteq Harmless /\ "FAILED" \in Harmless
  BY TerminalHarmless DEF Harmless
<1>g. ASSUME NEW l \in Labels, Goto(l) PROVE op'.at = l /\ op'.kind = op.kind
  BY <1>0, <1>g, GotoEffect
<1>s. ASSUME Throw, left' = left, state \notin {"FEEDBACK_PROCESSING", "MERGED", "CLOSING"}, op.at # "start"
      PROVE  Placed'
  <2>1. state' = "FAILED" \/ state' = state
    BY <1>0, <1>s, ThrowPlaced
  <2>2. state = "DETECTED" => left.retry < MaxRetries
    BY <1>s DEF Placed
  <2> QED BY <1>s, <2>1, <2>2 DEF Placed
<1>w. ASSUME Throw, op.kind = "workflow" PROVE Placed'
  BY <1>0, <1>t, <1>w, ThrowPlaced, HarmlessPlaced
<1>1. CASE StartTicket
  <2>1. op.at = "start" /\ op.kind = "workflow"
    BY <1>0, <1>1 DEF StartTicket, Workflows
  <2>2. Throw \/ state' = "CONTEXT_BUILDING"
    BY <1>1 DEF StartTicket, Transition
  <2> QED BY <2>1, <2>2, <1>w, HarmlessPlaced DEF Harmless
<1>2. CASE Check
  <2>1. op.at = "check" /\ left' = left
    BY <1>2 DEF Check
  <2>2. state \notin {"MERGED", "CLOSING"} /\ (state = "FEEDBACK_PROCESSING" => op.kind = "workflow")
        /\ (state = "DETECTED" => left.retry < MaxRetries)
    BY <2>1 DEF Placed
  <2>3. CASE \A r \in Repos : rows[r] = "none"
    <3>1. state # "FEEDBACK_PROCESSING" /\ state' = state
      BY <1>2, <2>3 DEF Check, HasRows
    <3> QED BY <2>1, <2>2, <3>1 DEF Placed
  <2>4. CASE ~(\A r \in Repos : rows[r] = "none") /\ Active = {}
    <3>1. Transition("MERGED", "close")
      BY <1>2, <2>4 DEF Check
    <3>2. CASE Throw
      BY <1>s, <1>w, <2>1, <2>2, <3>2
    <3>3. CASE state' = "MERGED" /\ Goto("close")
      BY <1>g, <3>3 DEF Placed, Labels
    <3> QED BY <3>1, <3>2, <3>3 DEF Transition
  <2>5. CASE ~(\A r \in Repos : rows[r] = "none") /\ Active # {}
    <3>1. state' = state /\ op'.at = "poll" /\ op'.kind = op.kind
      BY <1>0, <1>2, <2>5 DEF Check, TypeOK, Operations
    <3> QED BY <2>1, <2>2, <3>1 DEF Placed
  <2> QED BY <2>3, <2>4, <2>5
<1>3. CASE PollFails \/ PollStatus \/ PollComments
  <2>1. /\ op.at \in {"poll", "comments"} /\ op'.at \in {"poll", "comments"} /\ op'.kind = op.kind
        /\ state' = state /\ left' = left
    BY <1>0, <1>3 DEF PollFails, PollStatus, PollComments, TypeOK, Operations
  <2> QED BY <2>1 DEF Placed
<1>4. CASE Decide
  <2>1. op.at = "poll" /\ left' = left
    BY <1>4 DEF Decide
  <2>2. state \notin {"MERGED", "CLOSING"} /\ (state = "FEEDBACK_PROCESSING" => op.kind = "workflow")
    BY <2>1 DEF Placed
  <2>3. CASE Throw
    BY <1>s, <1>w, <2>1, <2>2, <2>3
  <2>4. CASE Abandon("notify") /\ ~Throw
    BY <2>4, HarmlessPlaced DEF Abandon, Harmless
  <2>5. CASE state' = "MERGED" /\ Goto("close")
    BY <1>g, <2>5 DEF Placed, Labels
  <2>6. CASE state' = "FEEDBACK_PROCESSING" /\ Goto("feedback")
    BY <1>g, <2>6 DEF Placed, Labels
  <2> QED BY <1>4, <2>3, <2>4, <2>5, <2>6 DEF Decide, Transition
<1>5. CASE ActOnFeedback
  <2>1. op.at = "feedback" /\ left' = left
    BY <1>5 DEF ActOnFeedback
  <2>2. state \notin {"MERGED", "CLOSING"}
    BY <2>1 DEF Placed
  <2>3. CASE Throw
    <3>1. CASE state # "FEEDBACK_PROCESSING"
      BY <1>s, <2>1, <2>2, <2>3, <3>1
    <3>2. CASE state = "FEEDBACK_PROCESSING"
      <4>1. Legal("IN_REVIEW") /\ Legal("RETRY_CYCLE")
        BY <3>2 DEF Legal, Machine!Legal, Machine!Edges
      <4>2. state' # "FEEDBACK_PROCESSING" \/ op.kind # "workflow"
        BY <1>0, <2>3, <3>2, ThrowPlaced DEF Terminal
      <4>3. ActOnFeedback => state' \in {"IN_REVIEW", "ABANDONED", "RETRY_CYCLE"}
        BY <3>2, <4>1 DEF ActOnFeedback, Abandon, Transition
      <4> QED BY <1>5, <4>3, HarmlessPlaced DEF Harmless
    <3> QED BY <3>1, <3>2
  <2>4. CASE ~Throw
    <3>1. state' \in {"IN_REVIEW", "ABANDONED", "RETRY_CYCLE"}
      BY <1>5, <2>4 DEF ActOnFeedback, Abandon, Transition
    <3> QED BY <3>1, HarmlessPlaced DEF Harmless
  <2> QED BY <2>3, <2>4
<1>6. CASE StartClosing
  <2>1. op.at = "close" /\ left' = left /\ state # "FEEDBACK_PROCESSING"
    BY <1>6 DEF StartClosing, Placed
  <2>2. CASE Legal("CLOSING")
    <3>1. state' = "CLOSING" /\ op'.at = "closing"
      BY <1>6, <1>g, <2>2 DEF StartClosing, Transition, Labels
    <3> QED BY <3>1 DEF Placed
  <2>3. CASE ~Legal("CLOSING")
    <3>1. Throw
      BY <1>6, <2>3 DEF StartClosing, Transition
    <3>2. state \notin {"MERGED", "CLOSING"}
      BY <2>3 DEF Legal, Machine!Legal, Machine!Edges
    <3> QED BY <1>s, <2>1, <3>1, <3>2
  <2> QED BY <2>2, <2>3
<1>7. CASE CloseTicket
  <2>1. op.at = "closing" /\ state' = state /\ left' = left /\ op'.at = "closed"
    BY <1>7, <1>g DEF CloseTicket, Labels
  <2> QED BY <2>1 DEF Placed
<1>8. CASE CloseFails \/ Closed
  <2>1. op.at \in {"closing", "closed"} /\ left' = left
    BY <1>8 DEF CloseFails, Closed
  <2>2. state' \in Harmless \/ (state \in Terminal /\ Throw)
    BY <1>8 DEF CloseFails, Closed, GiveUp, Harmless
  <2>3. state \in Terminal /\ Throw => state' \in Harmless
    BY <1>0, <1>t, ThrowPlaced
  <2> QED BY <2>2, <2>3, HarmlessPlaced
<1> QED BY <1>1, <1>2, <1>3, <1>4, <1>5, <1>6, <1>7, <1>8

\* Where a throw, a transition and an abandonment lead.
LEMMA ThrowLeads ==
  ASSUME TypeOK, Throw
  PROVE  op'.at \in {"notify", "idle"} /\ state' \in {state, "FAILED"}
<1>1. CASE state' = "FAILED" /\ Goto("notify")
  BY <1>1, GotoEffect DEF Labels
<1>2. CASE state' = state /\ Stop
  BY <1>2, IdleType DEF Stop
<1> QED BY <1>1, <1>2 DEF Throw

LEMMA StepLeads ==
  ASSUME TypeOK, NEW to, NEW l \in Labels, Transition(to, l) \/ Abandon(l)
  PROVE  op'.at \in {l, "notify", "idle"} /\ state' \in {state, to, "FAILED", "ABANDONED"}
<1>1. CASE Throw
  BY <1>1, ThrowLeads
<1>2. CASE Goto(l) /\ state' \in {to, "ABANDONED"}
  BY <1>2, GotoEffect
<1> QED BY <1>1, <1>2 DEF Transition, Abandon

LEMMA CycleThrowLeads ==
  ASSUME TypeOK, CycleThrows
  PROVE  op'.at = "cleanup" /\ state' = state
  BY LeaveEffect DEF CycleThrows

LEMMA AfterCycleLeads ==
  ASSUME TypeOK, AfterCycle
  PROVE  op'.at \in {"resolve", "idle"}
<1>1. CASE Goto("resolve")
  BY <1>1, GotoEffect DEF Labels
<1>2. CASE Stop
  BY <1>2, IdleType DEF Stop
<1> QED BY <1>1, <1>2 DEF AfterCycle

\* Only a check leads to a poll, and only a poll to the weighing of feedback.
LEMMA OthersLead ==
  ASSUME TypeOK,
         \/ StartTicket \/ Notified \/ AcquireLease \/ StartCycle \/ AgentThrows \/ AgentUnresolved
         \/ ResultDiscarded \/ AgentChangedNothing \/ AgentReportsFailure \/ AgentSucceeds \/ Cleanup
         \/ SkipTarget \/ PushTarget \/ RecordPush \/ PushFails \/ PushDone \/ TicketToReview
         \/ ActOnFeedback \/ Resolve \/ StartClosing \/ CloseTicket \/ CloseFails \/ Closed
  PROVE  op'.at \notin {"poll", "comments"} /\ (state' = "FEEDBACK_PROCESSING" => state = "FEEDBACK_PROCESSING")
<1> DEFINE Aside == op'.at \notin {"poll", "comments"}
                    /\ (state' = "FEEDBACK_PROCESSING" => state = "FEEDBACK_PROCESSING")
<1>o. op \in Operations
  BY DEF TypeOK
<1>t. ASSUME Throw PROVE Aside
  BY <1>t, ThrowLeads
<1>c. ASSUME CycleThrows PROVE Aside
  BY <1>c, CycleThrowLeads
<1>g. ASSUME NEW l \in Labels \ {"poll", "comments"}, Goto(l),
             state' \in {state, "ABANDONED", "AGENT_RUNNING", "IN_REVIEW", "RETRY_CYCLE"}
      PROVE  Aside
  BY <1>g, GotoEffect
<1>l. ASSUME NEW f \in {"return", "retry", "throw"}, Leave(f), state' \in {state, "FAILED", "ABANDONED", "RETRY_CYCLE"}
      PROVE  Aside
  BY <1>l, LeaveEffect
<1>s. ASSUME Stop, state' \in {state, "FAILED", "DONE", "IN_REVIEW"} PROVE Aside
  BY <1>s, IdleType DEF Stop
<1>1. CASE StartTicket
  <2>1. CASE Transition("CONTEXT_BUILDING", "lease")
    BY <2>1, StepLeads DEF Labels
  <2> QED BY <1>1, <1>t, <2>1 DEF StartTicket
<1>2. CASE Notified \/ Resolve
  BY <1>2, <1>s DEF Notified, Resolve
<1>3. CASE AcquireLease
  <2>1. CASE AfterCycle
    BY <1>3, <2>1, AfterCycleLeads DEF AcquireLease
  <2>2. CASE Goto("prompt")
    BY <1>3, <1>g, <2>2 DEF AcquireLease, Labels
  <2> QED BY <1>3, <2>1, <2>2 DEF AcquireLease
<1>4. CASE StartCycle
  <2>1. CASE Transition("AGENT_RUNNING", "agent")
    BY <2>1, StepLeads DEF Labels
  <2> QED BY <1>4, <1>t, <2>1 DEF StartCycle
<1>5. CASE AgentThrows \/ AgentUnresolved \/ ResultDiscarded
  BY <1>5, <1>c, <1>l DEF AgentThrows, AgentUnresolved, ResultDiscarded
<1>6. CASE AgentChangedNothing \/ AgentReportsFailure
  BY <1>6, <1>c, <1>l DEF AgentChangedNothing, AgentReportsFailure
<1>7. CASE AgentSucceeds \/ SkipTarget \/ RecordPush \/ PushFails
  <2>1. op'.at = "push" /\ state' = state
    BY <1>o, <1>7 DEF AgentSucceeds, SkipTarget, RecordPush, PushFails, Operations
  <2> QED BY <2>1
<1>8. CASE Cleanup
  <2>1. op.after \in {"return", "retry", "throw"}
    BY <1>o DEF Operations
  <2>2. CASE op.after = "return"
    BY <1>8, <2>2, AfterCycleLeads DEF Cleanup
  <2>3. CASE op.after = "retry"
    <3>1. op'.at = "lease" /\ state' = state
      BY <1>o, <1>8, <2>3 DEF Cleanup, Operations
    <3> QED BY <3>1
  <2>4. CASE op.after = "throw"
    BY <1>8, <1>t, <2>4 DEF Cleanup
  <2> QED BY <2>1, <2>2, <2>3, <2>4
<1>9. CASE PushTarget \/ CloseTicket
  BY <1>9, <1>g DEF PushTarget, CloseTicket, Labels
<1>10. CASE PushDone
  BY <1>10, <1>c, <1>g DEF PushDone, Labels
<1>11. CASE TicketToReview
  BY <1>11, <1>c, <1>l DEF TicketToReview
<1>12. CASE ActOnFeedback
  <2>1. CASE Abandon("notify")
    BY <2>1, StepLeads DEF Labels
  <2>2. CASE Transition("RETRY_CYCLE", "lease")
    BY <2>2, StepLeads DEF Labels
  <2> QED BY <1>12, <1>s, <1>t, <2>1, <2>2 DEF ActOnFeedback
<1>13. CASE StartClosing
  BY <1>13, StepLeads DEF StartClosing, Labels
<1>14. CASE CloseFails \/ Closed
  BY <1>14, <1>s, <1>t DEF CloseFails, Closed, GiveUp
<1> QED BY <1>1, <1>2, <1>3, <1>4, <1>5, <1>6, <1>7, <1>8, <1>9, <1>10, <1>11, <1>12, <1>13, <1>14

\* No operation takes back a row.
LEMMA RowsStay ==
  ASSUME IInv, OpStep, NEW r \in Repos, rows[r] # "none"
  PROVE  rows'[r] # "none"
<1>1. TypeOK /\ rows \in [Repos -> RowStatus]
  BY DEF IInv, TypeOK
<1>2. CASE SkipTarget \/ RecordPush
  BY <1>1, <1>2 DEF SkipTarget, RecordPush
<1>3. CASE PollStatus
  <2>1. \A q \in Repos : rows[q] = "OPEN" => review[q] # "none"
    BY DEF IInv, Polling
  <2>2. RecordStatus(Target)
    BY <1>3 DEF PollStatus
  <2>3. CASE r = Target
    BY <1>1, <2>1, <2>2, <2>3 DEF RecordStatus
  <2>4. CASE r # Target
    BY <1>1, <2>2, <2>4 DEF RecordStatus
  <2> QED BY <2>3, <2>4
<1>4. CASE UNCHANGED rows
  BY <1>4
<1>5. CASE StartTicket \/ Notified \/ AcquireLease \/ StartCycle \/ AgentThrows \/ AgentUnresolved
  BY <1>4, <1>5 DEF StartTicket, Notified, AcquireLease, StartCycle, AgentThrows, AgentUnresolved, dbVars
<1>6. CASE ResultDiscarded \/ AgentChangedNothing \/ AgentReportsFailure \/ AgentSucceeds \/ Cleanup
  BY <1>4, <1>6 DEF ResultDiscarded, AgentChangedNothing, AgentReportsFailure, AgentSucceeds, Cleanup, dbVars
<1>7. CASE PushTarget \/ PushFails \/ PushDone \/ TicketToReview
  BY <1>4, <1>7 DEF PushTarget, PushFails, PushDone, TicketToReview, dbVars
<1>8. CASE Check \/ PollFails \/ PollComments \/ Decide \/ ActOnFeedback \/ Resolve
  BY <1>4, <1>8 DEF Check, PollFails, PollComments, Decide, ActOnFeedback, Resolve, dbVars
<1>9. CASE StartClosing \/ CloseTicket \/ CloseFails \/ Closed
  BY <1>4, <1>9 DEF StartClosing, CloseTicket, CloseFails, Closed, dbVars
<1> QED BY <1>2, <1>3, <1>5, <1>6, <1>7, <1>8, <1>9 DEF OpStep

LEMMA OpStepHasRows ==
  ASSUME IInv, OpStep, HasRows
  PROVE  HasRows'
<1>0. TypeOK /\ op \in Operations
  BY DEF IInv, TypeOK
<1>1. (\E r \in Repos : rows[r] # "none") => (\E r \in Repos : rows[r] # "none")'
  BY RowsStay
<1>2. CASE Check
  <2>1. CASE \A r \in Repos : rows[r] = "none"
    <3>1. Stop /\ state' = state
      BY <1>2, <2>1 DEF Check
    <3>2. state # "FEEDBACK_PROCESSING" /\ op'.at = "idle"
      BY <2>1, <3>1, IdleType DEF HasRows, Stop
    <3> QED BY <3>1, <3>2 DEF HasRows
  <2>2. CASE ~(\A r \in Repos : rows[r] = "none")
    BY <1>1, <2>2 DEF HasRows
  <2> QED BY <2>1, <2>2
<1>3. CASE PollFails \/ PollStatus \/ PollComments \/ Decide
  <2>1. op.at \in {"poll", "comments"}
    BY <1>3 DEF PollFails, PollStatus, PollComments, Decide
  <2> QED BY <1>1, <2>1 DEF HasRows
<1>4. ASSUME op'.at \notin {"poll", "comments"},
             state' = "FEEDBACK_PROCESSING" => state = "FEEDBACK_PROCESSING"
      PROVE  HasRows'
  BY <1>1, <1>4 DEF HasRows
<1> QED BY <1>0, <1>2, <1>3, <1>4, OthersLead DEF OpStep

LEMMA OpStepKeeps == OpStep => queue' = queue /\ deleted' = deleted
<1>1. ASSUME StartTicket \/ Notified \/ AcquireLease \/ StartCycle \/ AgentThrows \/ AgentUnresolved
      PROVE  queue' = queue /\ deleted' = deleted
  BY <1>1 DEF StartTicket, Notified, AcquireLease, StartCycle, AgentThrows, AgentUnresolved, dbVars
<1>2. ASSUME ResultDiscarded \/ AgentChangedNothing \/ AgentReportsFailure \/ AgentSucceeds \/ Cleanup
      PROVE  queue' = queue /\ deleted' = deleted
  BY <1>2 DEF ResultDiscarded, AgentChangedNothing, AgentReportsFailure, AgentSucceeds, Cleanup, dbVars
<1>3. ASSUME SkipTarget \/ PushTarget \/ RecordPush \/ PushFails \/ PushDone \/ TicketToReview
      PROVE  queue' = queue /\ deleted' = deleted
  BY <1>3 DEF SkipTarget, PushTarget, RecordPush, PushFails, PushDone, TicketToReview, dbVars
<1>4. ASSUME Check \/ PollFails \/ PollStatus \/ PollComments \/ Decide \/ ActOnFeedback \/ Resolve
      PROVE  queue' = queue /\ deleted' = deleted
  BY <1>4 DEF Check, PollFails, PollStatus, PollComments, Decide, ActOnFeedback, Resolve, dbVars
<1>5. ASSUME StartClosing \/ CloseTicket \/ CloseFails \/ Closed
      PROVE  queue' = queue /\ deleted' = deleted
  BY <1>5 DEF StartClosing, CloseTicket, CloseFails, Closed, dbVars
<1> QED BY <1>1, <1>2, <1>3, <1>4, <1>5 DEF OpStep

LEMMA OpStepPlaced ==
  ASSUME IInv, ~deleted, HasRows, Placed, OpStep
  PROVE  Placed'
  BY CyclePlaced, CheckPlaced DEF OpStep

\* A workflow that waits goes on waiting while others join it or line up behind it.
LEMMA JoinKeepsQueued ==
  ASSUME TypeOK, NEW s \in TaskStates, runWorkflow(s), WorkflowQueued
  PROVE  WorkflowQueued'
<1>1. WorkflowActive
  BY DEF WorkflowActive, WorkflowQueued, IsWorkflow
<1> QED BY <1>1 DEF runWorkflow, WorkflowQueued, IsWorkflow

LEMMA OpStepGuided ==
  ASSUME IInv, Guided, OpStep
  PROVE  Guided'
<1>1. queue' = queue /\ deleted' = deleted
  BY OpStepKeeps
<1>2. WorkflowQueued => WorkflowQueued'
  BY <1>1 DEF WorkflowQueued, IsWorkflow
<1>3. ~deleted => HasRows' /\ (Placed => Placed')
  BY OpStepHasRows, OpStepPlaced DEF Guided
<1> QED BY <1>1, <1>2, <1>3 DEF Guided

LEMMA BeginWorkflowGuided ==
  ASSUME IInv, Guided, BeginWorkflow, ~deleted
  PROVE  HasRows' /\ Placed'
<1>0. TypeOK /\ state \in TaskStates
  BY DEF IInv, TypeOK
<1>1. op.at = "idle" /\ rows' = rows /\ left' = left /\ state' \in {state, "RETRY_CYCLE"}
  BY DEF BeginWorkflow, dbVars
<1>2. state' = state => Entry(state) = Entry(state')
  OBVIOUS
<1>3. CASE Entry(state) = "idle"
  <2>1. op' = Idle /\ op'.at = "idle"
    BY <1>3, IdleType DEF BeginWorkflow
  <2>2. state \in Terminal
    BY <1>0, <1>3 DEF Entry, TaskStates, Terminal
  <2>3. state' \in Harmless
    BY <1>1, <2>2, TerminalHarmless DEF Harmless
  <2> QED BY <2>1, <2>3, HarmlessPlaced DEF HasRows, Harmless
<1>4. CASE Entry(state) # "idle"
  <2>1. op' = [Idle EXCEPT !.at = Entry(state), !.kind = "workflow"]
    BY <1>4 DEF BeginWorkflow
  <2>2. Entry(state) \in {"start", "lease", "check", "close"}
    BY <1>0, <1>4 DEF Entry, TaskStates
  <2>3. op'.at = Entry(state) /\ op'.kind = "workflow"
    BY <2>1, <2>2, NewOperation DEF Labels
  <2>4. Placed'
    <3>1. CASE state \in Harmless \/ state' = "RETRY_CYCLE"
      BY <1>1, <3>1, HarmlessPlaced DEF Harmless
    <3>2. CASE state = "DETECTED" /\ state' = state
      BY <2>3, <3>2 DEF Entry, Placed
    <3>3. CASE state = "FEEDBACK_PROCESSING" /\ state' = state
      BY <2>3, <3>3 DEF Entry, Placed
    <3>4. CASE state \in {"MERGED", "CLOSING"} /\ state' = state
      BY <2>3, <3>4 DEF Entry, Placed
    <3> QED BY <1>0, <1>1, <3>1, <3>2, <3>3, <3>4 DEF TaskStates, Harmless
  <2>5. HasRows'
    BY <1>1, <2>2, <2>3 DEF HasRows, Guided
  <2> QED BY <2>4, <2>5
<1> QED BY <1>3, <1>4

LEMMA HandlerGuided ==
  ASSUME IInv, Guided,
         BeginAbandon \/ BeginCheck \/ (\E r \in Repos : ChangeMerged(r) \/ ChangeAbandoned(r))
  PROVE  Guided'
<1> SUFFICES ASSUME ~deleted' PROVE HasRows' /\ Placed'
  BY DEF Guided
<1>0. TypeOK /\ state \in TaskStates
  BY DEF IInv, TypeOK
<1>1. CASE BeginAbandon
  <2>1. op' = op /\ op.at = "idle" /\ state' \in {state, "ABANDONED"} /\ (state' = state => state \in Terminal)
        /\ rows' = rows
    BY <1>1 DEF BeginAbandon, dbVars, Terminal
  <2>2. state' \in Harmless
    BY <2>1, TerminalHarmless DEF Harmless
  <2> QED BY <2>1, <2>2, HarmlessPlaced DEF HasRows, Harmless
<1>2. CASE BeginCheck
  <2>1. op' = [Idle EXCEPT !.at = "check", !.kind = "handler"] /\ state' = "IN_REVIEW"
    BY <1>2 DEF BeginCheck
  <2>2. op'.at = "check"
    BY <2>1, NewOperation DEF Labels
  <2> QED BY <2>1, <2>2, HarmlessPlaced DEF HasRows, Harmless
<1>3. ASSUME NEW r \in Repos, ChangeMerged(r) PROVE HasRows' /\ Placed'
  <2>1. CASE Converged(rows')
    <3>1. state' = "MERGED" /\ op' = [Idle EXCEPT !.at = "close", !.kind = "handler"]
      BY <1>3, <2>1 DEF ChangeMerged
    <3>2. op'.at = "close"
      BY <3>1, NewOperation DEF Labels
    <3> QED BY <3>1, <3>2 DEF HasRows, Placed
  <2>2. CASE ~Converged(rows')
    <3>1. state' = "IN_REVIEW" /\ op'.at = "idle"
      BY <1>3, <2>2 DEF ChangeMerged, HandlerMayRun
    <3> QED BY <3>1, HarmlessPlaced DEF HasRows, Harmless
  <2> QED BY <2>1, <2>2
<1>4. ASSUME NEW r \in Repos, ChangeAbandoned(r) PROVE HasRows' /\ Placed'
  <2>1. op' = [Idle EXCEPT !.at = "notify", !.kind = "handler"] /\ state' = "ABANDONED"
    BY <1>4 DEF ChangeAbandoned
  <2>2. op'.at = "notify"
    BY <2>1, NewOperation DEF Labels
  <2> QED BY <2>1, <2>2, HarmlessPlaced DEF HasRows, Harmless
<1> QED BY <1>1, <1>2, <1>3, <1>4

LEMMA OperatorGuided ==
  ASSUME IInv, Guided, StalledPoll \/ Operator
  PROVE  Guided'
<1> SUFFICES ASSUME ~deleted' PROVE HasRows' /\ (WorkflowQueued' \/ Placed')
  BY DEF Guided
<1>0. /\ TypeOK /\ state \in TaskStates /\ "DETECTED" \in TaskStates
      /\ left \in [retry : 0..MaxRetries, restart : 0..MaxRestarts, admin : 0..MaxAdmin]
      /\ MaxRetries \in Nat
  BY CodeGenAssumption DEF IInv, TypeOK, TaskStates
<1>a. Use("admin") => left'.retry = left.retry
  BY <1>0 DEF Use
<1>1. ASSUME ~deleted, state' = state, rows' = rows, left'.retry = left.retry, op'.at = op.at, op'.kind = op.kind,
             WorkflowQueued => WorkflowQueued'
      PROVE  HasRows' /\ (WorkflowQueued' \/ Placed')
  BY <1>1 DEF Guided, HasRows, Placed
<1>2. CASE StalledPoll
  <2>1. state' = state /\ rows' = rows /\ left' = left /\ op' = op /\ runWorkflow(state) /\ ~deleted
    BY <1>2 DEF StalledPoll, dbVars
  <2> QED BY <1>0, <1>1, <2>1, JoinKeepsQueued
<1>3. CASE AbandonTask
  <2> DEFINE x == [kind |-> "abandon", seen |-> state]
  <2>1. x \in Items /\ queue' = Append(queue, x)
    BY <1>0, <1>3 DEF AbandonTask, Items
  <2>2. state' = state /\ rows' = rows /\ ~deleted /\ left'.retry = left.retry
    BY <1>3, <1>a DEF AbandonTask, dbVars
  <2>3. op'.at = op.at /\ op'.kind = op.kind
    <3>1. op \in Operations
      BY <1>0 DEF TypeOK
    <3> QED BY <1>3, <3>1 DEF AbandonTask, Operations
  <2>4. WorkflowQueued => WorkflowQueued'
    <3> HIDE DEF x
    <3> QED BY <1>0, <2>1, AppendItem DEF WorkflowQueued, IsWorkflow
  <2> QED BY <1>1, <2>2, <2>3, <2>4
<1>4. CASE RetryTask
  <2>1. state' = "DETECTED" /\ rows' = rows /\ op' = op /\ ~deleted
    BY <1>4 DEF RetryTask, dbVars
  <2>2. left'.retry < MaxRetries
    BY <1>0, <1>4 DEF RetryTask, Use
  <2> QED BY <2>1, <2>2 DEF Guided, HasRows, Placed
<1>5. CASE PauseTask
  <2>1. state' = state /\ rows' = rows /\ op' = op /\ queue' = queue /\ ~deleted /\ left'.retry = left.retry
    BY <1>5, <1>a DEF PauseTask, dbVars
  <2>2. WorkflowQueued => WorkflowQueued'
    BY <2>1 DEF WorkflowQueued, IsWorkflow
  <2> QED BY <1>1, <2>1, <2>2
<1>6. CASE ResumeTask
  <2>1. state' = state /\ rows' = rows /\ op' = op /\ runWorkflow(state) /\ ~deleted /\ left'.retry = left.retry
    BY <1>6, <1>a DEF ResumeTask, dbVars
  <2> QED BY <1>0, <1>1, <2>1, JoinKeepsQueued
<1>7. CASE DeleteTask
  <2>1. op' = op /\ rows' = rows /\ ~deleted /\ state' \in {state, "ABANDONED"} /\ (state' = state => state \in Terminal)
    BY <1>7 DEF DeleteTask, Terminal
  <2>2. state' \in Harmless /\ state' # "FEEDBACK_PROCESSING"
    BY <2>1, TerminalHarmless DEF Harmless
  <2>3. HasRows'
    BY <2>1, <2>2 DEF HasRows, Guided
  <2> QED BY <2>2, <2>3, HarmlessPlaced
<1> QED BY <1>2, <1>3, <1>4, <1>5, <1>6, <1>7 DEF Operator

LEMMA RestartGuided ==
  ASSUME IInv, Guided, Restart
  PROVE  Guided'
<1> SUFFICES ASSUME ~deleted' PROVE HasRows' /\ (WorkflowQueued' \/ Placed')
  BY DEF Guided
<1>1. ~deleted /\ rows' = rows /\ op' = Idle /\ op'.at = "idle" /\ state' \in {state, "FAILED"}
  BY IdleType DEF Restart, Orphan, dbVars
<1>2. HasRows'
  BY <1>1 DEF HasRows, Guided
<1>3. CASE state' \in Terminal
  BY <1>3, TerminalHarmless, HarmlessPlaced, <1>2
<1>4. CASE state' \notin Terminal
  <2>1. queue' = <<[kind |-> "workflow", seen |-> state']>>
    BY <1>1, <1>4 DEF Restart
  <2>2. 1 \in DOMAIN queue' /\ queue'[1].kind = "workflow"
    BY <2>1
  <2> QED BY <1>2, <2>2 DEF WorkflowQueued, IsWorkflow
<1> QED BY <1>3, <1>4

LEMMA InitGuided == Init => Guided
<1> SUFFICES ASSUME Init PROVE Guided
  OBVIOUS
<1>1. queue = <<[kind |-> "workflow", seen |-> "DETECTED"]>> /\ state = "DETECTED" /\ op.at = "idle"
  BY IdleType DEF Init
<1>2. 1 \in DOMAIN queue /\ queue[1].kind = "workflow"
  BY <1>1
<1> QED BY <1>1, <1>2 DEF Guided, HasRows, WorkflowQueued, IsWorkflow

LEMMA StepGuided == IInv /\ Guided /\ [Next]_vars => Guided'
<1> SUFFICES ASSUME IInv, Guided, [Next]_vars PROVE Guided'
  OBVIOUS
<1>1. ASSUME UNCHANGED <<state, deleted, rows, queue, op, left>> PROVE Guided'
  BY <1>1 DEF Guided, HasRows, Placed, WorkflowQueued, IsWorkflow
<1>2. CASE BeginWorkflow
  <2>1. deleted' = deleted
    BY <1>2 DEF BeginWorkflow, dbVars
  <2> QED BY <1>2, <2>1, BeginWorkflowGuided DEF Guided
<1>3. CASE Reviewer
  <2>1. ASSUME NEW r \in Repos, NEW s \in {"MERGED", "ABANDONED"}, ReviewerActs(r, s) PROVE Guided'
    BY <1>1, <2>1 DEF ReviewerActs, dbVars
  <2>2. ASSUME NEW c \in Comments, Comment(c) PROVE Guided'
    BY <1>1, <2>2 DEF Comment, dbVars
  <2> QED BY <1>3, <2>1, <2>2 DEF Reviewer
<1>4. CASE UNCHANGED vars
  BY <1>1, <1>4 DEF vars, dbVars
<1>5. CASE BeginAbandon \/ BeginCheck \/ Webhook
  BY <1>5, HandlerGuided DEF Webhook
<1> QED BY <1>2, <1>3, <1>4, <1>5, OpStepGuided, OperatorGuided, RestartGuided DEF Next, Poll

\* However an operation ends, the task is not left in a state that nothing looks at
\* (executeWorkflow, checkMultiRepository, closeTicket, resumeActiveTasks).
THEOREM NothingStranded == Spec => []NeverStranded
<1>1. Spec => []Guided
  BY InitGuided, StepGuided, SpecIInv, PTL DEF Spec
<1>2. IInv /\ Guided => NeverStranded
  <2> SUFFICES ASSUME IInv, Guided, ~deleted, ~Attended
               PROVE  /\ state \notin {"FEEDBACK_PROCESSING", "MERGED", "CLOSING"}
                      /\ state = "DETECTED" => left.retry < MaxRetries
                      /\ state = "AGENT_RUNNING" => cycle # "running"
    BY DEF NeverStranded
  <2>1. op.at = "idle" /\ ~WorkflowQueued
    BY DEF Attended, WorkflowQueued, IsWorkflow
  <2>2. Placed
    BY <2>1 DEF Guided
  <2>3. state = "AGENT_RUNNING" => cycle # "running"
    BY <2>1 DEF IInv, Cycles
  <2> QED BY <2>1, <2>2, <2>3 DEF Placed
<1> QED BY <1>1, <1>2, SpecIInv, PTL
=============================================================================
