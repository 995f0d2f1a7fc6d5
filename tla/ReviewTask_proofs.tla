--------------------------- MODULE ReviewTask_proofs ---------------------------
(***************************************************************************)
(* Proofs of the safety properties of ReviewTask for any rows, triggers,   *)
(* findings, messages and bounds.                                          *)
(***************************************************************************)
EXTENDS ReviewTask, FiniteSetTheorems, TLAPS

\* Nothing happens to a row before it is created.
Absent(t) ==
  t > count => /\ State(t) = "REVIEW_PENDING" /\ op[t].at = "idle" /\ queue[t] = <<>>
               /\ poll[t] = "none" /\ recovering[t] \in {"no", "boot"}

\* A pass knows its patchset once the agent runs, has published it when it
\* records that, and a complete cycle names it.
Publishes(t) ==
  /\ task[t].reviewed # 0 => task[t].reviewed \in published[t]
  /\ State(t) = "REVIEW_WATCHING" => task[t].reviewed # 0
  /\ op[t].at \notin {"idle", "slot"} => op[t].ps # 0
  /\ op[t].at \in {"replies", "finish", "save", "refresh"} => op[t].ps \in published[t]
  /\ op[t].at \in {"save", "refresh"} => task[t].reviewed # 0
  /\ cycle[t].result = "success" => cycle[t].ps # 0
  /\ recovering[t] = "refresh" => task[t].reviewed # 0

\* What the ledgers have, or are about to have, stands on the review system.
Stands(t) ==
  /\ \A f \in ledger[t] : posted[t][f] > 0
  /\ \A m \in replied[t] : answers[t][m] > 0
  /\ op[t].at \in {"slot", "agent", "closing", "posting", "finish"} => op[t].sent = {}
  /\ op[t].at = "record" => op[t].sent \subseteq {f \in Findings : posted[t][f] > 0}
  /\ op[t].at = "replies" => op[t].sent \subseteq {m \in Messages : answers[t][m] > 0}

\* What stands on the review system and is not in the ledger was cut off, or is
\* being recorded; what is going to be posted is not in the ledger, or was fixed.
Once(t) ==
  /\ \A f \in Findings : /\ posted[t][f] <= 1 + broken[t]
                         /\ f \notin ledger[t] /\ ~(op[t].at = "record" /\ f \in op[t].sent)
                            => posted[t][f] <= broken[t]
  /\ op[t].at \in {"posting", "record"} => op[t].new \cap ledger[t] \subseteq op[t].fixed

TaskInv(t) == Absent(t) /\ Publishes(t) /\ Stands(t) /\ Once(t)

\* Two rows are not active at a time, and a trigger runs a row there is.
RowInv ==
  /\ \A t, u \in 1..count : State(t) \in Active /\ State(u) \in Active => t = u
  /\ \A g \in Triggers : trig[g].at = "run" => trig[g].task \in 1..count

IInv == TypeOK /\ RowInv /\ \A t \in Tasks : TaskInv(t)

-----------------------------------------------------------------------------
\* Nothing changes for a row.
Same(t) ==
  /\ task'[t] = task[t] /\ cycle'[t] = cycle[t] /\ ledger'[t] = ledger[t]
  /\ replied'[t] = replied[t] /\ queue'[t] = queue[t] /\ op'[t] = op[t]
  /\ poll'[t] = poll[t] /\ recovering'[t] = recovering[t] /\ posted'[t] = posted[t]
  /\ answers'[t] = answers[t] /\ published'[t] = published[t] /\ broken'[t] = broken[t]

\* A row takes an edge of the table, or is abandoned, or stays: in no case does
\* a row that has ended become active.
OrdinaryMove(t) ==
  \/ State(t)' = State(t)
  \/ State(t) \notin Terminal /\ State(t)' = "ABANDONED"
  \/ State(t)' \in Machine(t)!Edges[State(t)]

\* Every row obeys the machine in a step.
Kept == \A t \in Tasks : [Machine(t)!Next]_(task[t].state)

LEMMA SameInv ==
  ASSUME NEW t \in Tasks, TaskInv(t), Same(t), count' = count
  PROVE  TaskInv(t)'
  BY DEF TaskInv, Absent, Publishes, Stands, Once, Same, State

LEMMA StateType == ASSUME TypeOK, NEW t \in Tasks PROVE State(t) \in Active \cup Terminal
  BY DEF TypeOK, State, Rows

LEMMA OrdinaryKept ==
  ASSUME TypeOK, TypeOK', NEW t \in Tasks, OrdinaryMove(t)
  PROVE  /\ [Machine(t)!Next]_(task[t].state)
         /\ State(t)' \in Active => State(t) \in Active
<1>1. State(t) \in Active \cup Terminal /\ State(t)' \in Active \cup Terminal
  BY StateType DEF TypeOK, State, Rows
<1>2. CASE State(t)' = State(t)
  BY <1>2 DEF State
<1>3. CASE State(t) \notin Terminal /\ State(t)' = "ABANDONED"
  <2>1. Machine(t)!abandonTask
    BY <1>1, <1>3 DEF State, Machine!abandonTask, Machine!Terminal, Active
  <2> QED
    BY <1>1, <1>3, <2>1 DEF Machine!Next, Active, Terminal
<1>4. CASE State(t)' \in Machine(t)!Edges[State(t)]
  <2>1. State(t)' \in Machine(t)!States
    BY <1>1 DEF Machine!States, Machine!Edges, Active, Terminal
  <2>2. Machine(t)!Next
    BY <1>4, <2>1 DEF Machine!Next, Machine!transition, State
  <2>3. State(t) \notin Terminal
    BY <1>4 DEF Machine!Edges, Terminal
  <2> QED
    BY <1>1, <2>2, <2>3
<1> QED
  BY <1>2, <1>3, <1>4 DEF OrdinaryMove

\* A step of one row.
LEMMA OneRow ==
  ASSUME IInv, TypeOK', NEW t \in Tasks, \A u \in Tasks \ {t} : Same(u),
         OrdinaryMove(t), TaskInv(t)', count' = count,
         \A g \in Triggers : trig'[g].at = "run" => trig'[g].task \in 1..count
  PROVE  IInv' /\ Kept
<1>1. \A u \in Tasks : OrdinaryMove(u)
  BY DEF Same, OrdinaryMove, State
<1>2. \A u \in Tasks : TaskInv(u)'
  BY SameInv DEF IInv
<1>3. Kept
  BY <1>1, OrdinaryKept DEF IInv, Kept
<1>4. \A u \in Tasks : State(u)' \in Active => State(u) \in Active
  BY <1>1, OrdinaryKept DEF IInv
<1>5. 1..count \subseteq Tasks
  BY ReviewAssumption DEF IInv, TypeOK, Tasks
<1>6. RowInv'
  BY <1>4, <1>5 DEF IInv, RowInv
<1> QED
  BY <1>2, <1>3, <1>6 DEF IInv

-----------------------------------------------------------------------------
(* What the parts of the steps do.                                         *)

LEMMA Typed ==
  ASSUME TypeOK, NEW t \in Tasks
  PROVE  task[t] \in Rows /\ cycle[t] \in Cycles /\ op[t] \in Passes
  BY DEF TypeOK

LEMMA RowSet ==
  ASSUME TypeOK, NEW t \in Tasks, NEW r \in Rows, task' = [task EXCEPT ![t] = r]
  PROVE  task' \in [Tasks -> Rows] /\ task'[t] = r /\ \A u \in Tasks \ {t} : task'[u] = task[u]
  BY DEF TypeOK

LEMMA PassSet ==
  ASSUME TypeOK, NEW t \in Tasks, NEW p \in Passes, op' = [op EXCEPT ![t] = p]
  PROVE  op' \in [Tasks -> Passes] /\ op'[t] = p /\ \A u \in Tasks \ {t} : op'[u] = op[u]
  BY DEF TypeOK

LEMMA MoveEffect ==
  ASSUME TypeOK, NEW t \in Tasks, NEW to \in Active \cup Terminal, Move(t, to)
  PROVE  /\ task' \in [Tasks -> Rows] /\ \A u \in Tasks \ {t} : task'[u] = task[u]
         /\ task'[t].state = to /\ task'[t].cur = task[t].cur
         /\ task'[t].reviewed = task[t].reviewed
<1> DEFINE r == [task[t] EXCEPT !.state = to]
<1>1. r \in Rows /\ r.state = to /\ r.cur = task[t].cur /\ r.reviewed = task[t].reviewed
  BY Typed DEF Rows
<1>2. task' = [task EXCEPT ![t] = r]
  BY DEF Move, TypeOK
<1> HIDE DEF r
<1> QED
  BY <1>1, <1>2, RowSet

LEMMA SaveEffect ==
  ASSUME TypeOK, NEW t \in Tasks, NEW ps \in 0..MaxPatchset,
         NEW r \in {"none", "running", "success", "closed", "superseded", "failed"},
         Save(t, r, ps)
  PROVE  /\ cycle' \in [Tasks -> Cycles] /\ \A u \in Tasks \ {t} : cycle'[u] = cycle[u]
         /\ cycle'[t].result = r /\ cycle'[t].ps = ps
<1>1. [result |-> r, ps |-> ps] \in Cycles
  BY DEF Cycles
<1> QED
  BY <1>1 DEF Save, TypeOK

LEMMA IdleType == Idle \in Passes /\ Idle.at = "idle"
  BY ReviewAssumption DEF Idle, Passes

LEMMA StopEffect ==
  ASSUME TypeOK, NEW t \in Tasks, Stop(t)
  PROVE  /\ op' \in [Tasks -> Passes] /\ \A u \in Tasks \ {t} : op'[u] = op[u]
         /\ op'[t].at = "idle"
  BY IdleType, PassSet DEF Stop

LEMMA GotoEffect ==
  ASSUME TypeOK, NEW t \in Tasks,
         NEW l \in {"closing", "replies", "save", "refresh", "finish"}, Goto(t, l)
  PROVE  /\ op' \in [Tasks -> Passes] /\ \A u \in Tasks \ {t} : op'[u] = op[u]
         /\ op'[t].at = l /\ op'[t].ps = op[t].ps /\ op'[t].sent = op[t].sent
<1> DEFINE p == [op[t] EXCEPT !.at = l]
<1>1. p \in Passes /\ p.at = l /\ p.ps = op[t].ps /\ p.sent = op[t].sent
  BY Typed DEF Passes
<1>2. op' = [op EXCEPT ![t] = p]
  BY DEF Goto, TypeOK
<1> HIDE DEF p
<1> QED
  BY <1>1, <1>2, PassSet

LEMMA EnqueueEffect ==
  ASSUME TypeOK, NEW t \in Tasks, NEW item \in Items, Enqueue(t, item)
  PROVE  queue' \in [Tasks -> Seq(Items)] /\ \A u \in Tasks \ {t} : queue'[u] = queue[u]
<1>1. Append(queue[t], item) \in Seq(Items)
  BY DEF TypeOK
<1> QED
  BY <1>1 DEF TypeOK, Enqueue

LEMMA TailEffect ==
  ASSUME TypeOK, NEW t \in Tasks, queue[t] # <<>>, queue' = [queue EXCEPT ![t] = Tail(@)]
  PROVE  queue' \in [Tasks -> Seq(Items)] /\ \A u \in Tasks \ {t} : queue'[u] = queue[u]
<1>1. Tail(queue[t]) \in Seq(Items)
  BY DEF TypeOK
<1> QED
  BY <1>1 DEF TypeOK

\* A cancelled or failed pass ends; its task stays or has failed.
LEMMA ExitEffect ==
  ASSUME TypeOK, NEW t \in Tasks, Thrown(t) \/ Cancelled(t)
  PROVE  /\ task' \in [Tasks -> Rows] /\ cycle' \in [Tasks -> Cycles] /\ op' \in [Tasks -> Passes]
         /\ \A u \in Tasks \ {t} : task'[u] = task[u] /\ cycle'[u] = cycle[u] /\ op'[u] = op[u]
         /\ OrdinaryMove(t) /\ task'[t].reviewed = task[t].reviewed
         /\ task'[t].state \in {task[t].state, "REVIEW_FAILED"}
         /\ cycle'[t].result = "failed" /\ op'[t].at = "idle"
<1>1. Save(t, "failed", 0) /\ Stop(t)
  BY DEF Thrown, Cancelled, Failed
<1>2. 0 \in 0..MaxPatchset
  BY ReviewAssumption
<1>3. CASE task' = task
  <2>1. task' \in [Tasks -> Rows] /\ OrdinaryMove(t)
    BY <1>3 DEF TypeOK, OrdinaryMove, State
  <2> QED
    BY <1>1, <1>2, <1>3, <2>1, SaveEffect, StopEffect
<1>4. CASE Move(t, "REVIEW_FAILED") /\ Legal(t, "REVIEW_FAILED")
  <2>1. "REVIEW_FAILED" \in Active \cup Terminal
    BY DEF Terminal
  <2>2. /\ task' \in [Tasks -> Rows] /\ \A u \in Tasks \ {t} : task'[u] = task[u]
        /\ task'[t].state = "REVIEW_FAILED" /\ task'[t].reviewed = task[t].reviewed
    BY <1>4, <2>1, MoveEffect
  <2>3. OrdinaryMove(t)
    BY <1>4, <2>2 DEF OrdinaryMove, State, Legal, Machine!Legal
  <2> QED
    BY <1>1, <1>2, <2>2, <2>3, SaveEffect, StopEffect
<1> QED
  BY <1>3, <1>4 DEF Thrown, Cancelled, Failed

\* A pass that is cancelled or fails, with nothing else changed, keeps the invariant.
LEMMA Exits ==
  ASSUME NEW t \in Tasks, IInv, op[t].at # "idle", Thrown(t) \/ Cancelled(t),
         UNCHANGED <<count, ledger, replied, queue, trig, poll, recovering, outVars, published, left>>,
         (op[t].at # "record" /\ UNCHANGED broken) \/ CutOff(t)
  PROVE  IInv' /\ Kept
<1>. USE ReviewAssumption
<1>0. TypeOK /\ TaskInv(t) /\ RowInv /\ IInv
  BY DEF IInv
<1>a. UNCHANGED <<count, ledger, replied, queue, trig, poll, recovering, change, posted,
                  answers, published, left>>
  BY DEF outVars
<1>b. /\ task' \in [Tasks -> Rows] /\ cycle' \in [Tasks -> Cycles] /\ op' \in [Tasks -> Passes]
      /\ \A u \in Tasks \ {t} : task'[u] = task[u] /\ cycle'[u] = cycle[u] /\ op'[u] = op[u]
      /\ OrdinaryMove(t) /\ task'[t].reviewed = task[t].reviewed
      /\ task'[t].state \in {task[t].state, "REVIEW_FAILED"}
      /\ cycle'[t].result = "failed" /\ op'[t].at = "idle"
  BY <1>0, ExitEffect
<1>c. /\ broken' \in [Tasks -> Nat] /\ \A u \in Tasks \ {t} : broken'[u] = broken[u]
      /\ broken'[t] = broken[t] + IF op[t].at = "record" THEN 1 ELSE 0
  <2>1. CASE op[t].at # "record" /\ UNCHANGED broken
    BY <1>0, <2>1 DEF TypeOK
  <2>2. CASE CutOff(t)
    BY <1>0, <2>2 DEF CutOff, TypeOK
  <2> QED
    BY <2>1, <2>2
<1>d. ~(t > count)
  BY <1>0 DEF TaskInv, Absent
<1>1. TypeOK'
  BY <1>a, <1>b, <1>c, <1>d, <1>0 DEF TypeOK
<1>2. \A u \in Tasks \ {t} : Same(u)
  BY <1>a, <1>b, <1>c, <1>d, <1>0 DEF Same
<1>3. OrdinaryMove(t)
  BY <1>a, <1>b, <1>c, <1>d, <1>0 DEF OrdinaryMove, State, Active, Terminal,
       Machine!Edges
<1>4. Absent(t)'
  BY <1>a, <1>b, <1>c, <1>d, <1>0 DEF Absent
<1>5. Publishes(t)'
  BY <1>a, <1>b, <1>c, <1>d, <1>0 DEF Publishes, TaskInv, State
<1>6. Stands(t)'
  BY <1>a, <1>b, <1>c, <1>d, <1>0 DEF Stands, TaskInv
<1>7. Once(t)'
  BY <1>a, <1>b, <1>c, <1>d, <1>0 DEF Once, TaskInv, TypeOK
<1>8. count' = count /\ \A g \in Triggers : trig'[g].at = "run" => trig'[g].task \in 1..count
  BY <1>a, <1>b, <1>c, <1>d, <1>0 DEF RowInv
<1> QED
  BY <1>1, <1>2, <1>3, <1>4, <1>5, <1>6, <1>7, <1>8, OneRow DEF TaskInv

\* A pass begins, unless the task is in another state.
LEMMA StartPassIInv ==
  ASSUME NEW t \in Tasks, IInv, StartPass(t)
  PROVE  IInv' /\ Kept
<1>. USE ReviewAssumption
<1>0. TypeOK /\ TaskInv(t) /\ RowInv /\ IInv
  BY DEF IInv
<1>p. ~(t > count)
  BY <1>0 DEF StartPass, TaskInv, Absent
<1>q. queue' \in [Tasks -> Seq(Items)] /\ \A u \in Tasks \ {t} : queue'[u] = queue[u]
  BY <1>0, TailEffect DEF StartPass
<1>m. CASE MayEnter(t, Head(queue[t]).resume)
  <2>a. UNCHANGED <<count, ledger, replied, trig, poll, recovering, change, posted,
       answers, published, broken, left>>
    BY <1>m DEF StartPass, vars, dbVars, outVars, histVars
  <2>b. /\ task' \in [Tasks -> Rows] /\ \A u \in Tasks \ {t} : task'[u] = task[u]
        /\ task'[t].state = "REVIEW_RUNNING" /\ task'[t].reviewed = task[t].reviewed
    <3>1. "REVIEW_RUNNING" \in Active \cup Terminal
      BY DEF Active
    <3> QED
      BY <1>0, <1>m, <3>1, MoveEffect DEF StartPass
  <2>c. /\ cycle' \in [Tasks -> Cycles] /\ \A u \in Tasks \ {t} : cycle'[u] = cycle[u]
        /\ cycle'[t].result = "running"
    <3>1. 0 \in 0..MaxPatchset
      OBVIOUS
    <3> QED
      BY <1>0, <1>m, <3>1, SaveEffect DEF StartPass
  <2>d. /\ op' \in [Tasks -> Passes] /\ \A u \in Tasks \ {t} : op'[u] = op[u]
        /\ op'[t].at = "slot" /\ op'[t].sent = {}
    <3>1. [Idle EXCEPT !.at = "slot"] \in Passes
      BY IdleType DEF Passes
    <3>2. [Idle EXCEPT !.at = "slot"].at = "slot" /\ [Idle EXCEPT !.at = "slot"].sent = {}
      BY DEF Idle
    <3> QED
      BY <1>0, <1>m, <3>1, <3>2, PassSet DEF StartPass
  <2>e. task[t].state \in {"REVIEW_PENDING", "REVIEW_WATCHING", "REVIEW_RUNNING"}
        /\ op[t].at = "idle"
    BY <1>m DEF StartPass, MayEnter, State
  <2>1. TypeOK'
    BY <1>p, <1>q, <2>a, <2>b, <2>c, <2>d, <2>e, <1>0 DEF TypeOK
  <2>2. \A u \in Tasks \ {t} : Same(u)
    BY <1>p, <1>q, <2>a, <2>b, <2>c, <2>d, <2>e, <1>0 DEF Same
  <2>3. OrdinaryMove(t)
    BY <1>p, <1>q, <2>a, <2>b, <2>c, <2>d, <2>e, <1>0 DEF OrdinaryMove, State, Active,
         Terminal, Machine!Edges
  <2>4. Absent(t)'
    BY <1>p, <1>q, <2>a, <2>b, <2>c, <2>d, <2>e, <1>0 DEF Absent
  <2>5. Publishes(t)'
    BY <1>p, <1>q, <2>a, <2>b, <2>c, <2>d, <2>e, <1>0 DEF Publishes, TaskInv, State
  <2>6. Stands(t)'
    BY <1>p, <1>q, <2>a, <2>b, <2>c, <2>d, <2>e, <1>0 DEF Stands, TaskInv
  <2>7. Once(t)'
    BY <1>p, <1>q, <2>a, <2>b, <2>c, <2>d, <2>e, <1>0 DEF Once, TaskInv, TypeOK
  <2>8. count' = count /\ \A g \in Triggers : trig'[g].at = "run" => trig'[g].task \in 1..count
    BY <1>p, <1>q, <2>a, <2>b, <2>c, <2>d, <2>e, <1>0 DEF RowInv
  <2> QED
    BY <2>1, <2>2, <2>3, <2>4, <2>5, <2>6, <2>7, <2>8, OneRow DEF TaskInv
<1>n. CASE ~MayEnter(t, Head(queue[t]).resume)
  <2>a. UNCHANGED <<count, task, cycle, ledger, replied, op, trig, poll, recovering,
       change, posted, answers, published, broken, left>>
    BY <1>n DEF StartPass, vars, dbVars, outVars, histVars
  <2>1. TypeOK'
    BY <1>p, <1>q, <2>a, <1>0 DEF TypeOK
  <2>2. \A u \in Tasks \ {t} : Same(u)
    BY <1>p, <1>q, <2>a, <1>0 DEF Same
  <2>3. OrdinaryMove(t)
    BY <1>p, <1>q, <2>a, <1>0 DEF OrdinaryMove, State, Active, Terminal, Machine!Edges
  <2>4. Absent(t)'
    BY <1>p, <1>q, <2>a, <1>0 DEF Absent
  <2>5. Publishes(t)'
    BY <1>p, <1>q, <2>a, <1>0 DEF Publishes, TaskInv, State
  <2>6. Stands(t)'
    BY <1>p, <1>q, <2>a, <1>0 DEF Stands, TaskInv
  <2>7. Once(t)'
    BY <1>p, <1>q, <2>a, <1>0 DEF Once, TaskInv, TypeOK
  <2>8. count' = count /\ \A g \in Triggers : trig'[g].at = "run" => trig'[g].task \in 1..count
    BY <1>p, <1>q, <2>a, <1>0 DEF RowInv
  <2> QED
    BY <2>1, <2>2, <2>3, <2>4, <2>5, <2>6, <2>7, <2>8, OneRow DEF TaskInv
<1> QED
  BY <1>m, <1>n

\* The slot is granted.
LEMMA AcquireSlotIInv ==
  ASSUME NEW t \in Tasks, IInv, AcquireSlot(t)
  PROVE  IInv' /\ Kept
<1>. USE ReviewAssumption
<1>0. TypeOK /\ TaskInv(t) /\ RowInv /\ IInv
  BY DEF IInv
<1>p. ~(t > count)
  BY <1>0 DEF AcquireSlot, TaskInv, Absent
<1>m. CASE StillActive(t)
  <2>a. UNCHANGED <<count, task, cycle, ledger, replied, queue, trig, poll,
       recovering, change, posted, answers, published, broken, left>>
    BY <1>m DEF AcquireSlot, vars, dbVars, outVars, histVars
  <2>d. op' \in [Tasks -> Passes] /\ (\A u \in Tasks \ {t} : op'[u] = op[u])
        /\ op'[t].at = "agent" /\ op'[t].ps = change.ps /\ op'[t].sent = op[t].sent
    <3> DEFINE p == [op[t] EXCEPT !.at = "agent", !.ps = change.ps]
    <3>1. op[t] \in Passes
      BY <1>0, Typed
    <3>2. change.ps \in 0..MaxPatchset
      BY <1>0, <3>1 DEF Passes, TypeOK
    <3>3. p \in Passes /\ p.at = "agent" /\ p.ps = change.ps /\ p.sent = op[t].sent
      BY <3>1, <3>2 DEF Passes
    <3>4. op' = [op EXCEPT ![t] = p]
      BY <1>0, <1>m DEF AcquireSlot, TypeOK
    <3> HIDE DEF p
    <3> QED
      BY <1>0, <3>3, <3>4, PassSet
  <2>e. op[t].at = "slot" /\ change.ps # 0
    BY <1>0 DEF AcquireSlot, TypeOK
  <2>1. TypeOK'
    BY <1>p, <2>a, <2>d, <2>e, <1>0 DEF TypeOK
  <2>2. \A u \in Tasks \ {t} : Same(u)
    BY <1>p, <2>a, <2>d, <2>e, <1>0 DEF Same
  <2>3. OrdinaryMove(t)
    BY <1>p, <2>a, <2>d, <2>e, <1>0 DEF OrdinaryMove, State, Active, Terminal,
         Machine!Edges
  <2>4. Absent(t)'
    BY <1>p, <2>a, <2>d, <2>e, <1>0 DEF Absent
  <2>5. Publishes(t)'
    BY <1>p, <2>a, <2>d, <2>e, <1>0 DEF Publishes, TaskInv, State
  <2>6. Stands(t)'
    BY <1>p, <2>a, <2>d, <2>e, <1>0 DEF Stands, TaskInv
  <2>7. Once(t)'
    BY <1>p, <2>a, <2>d, <2>e, <1>0 DEF Once, TaskInv, TypeOK
  <2>8. count' = count /\ \A g \in Triggers : trig'[g].at = "run" => trig'[g].task \in 1..count
    BY <1>p, <2>a, <2>d, <2>e, <1>0 DEF RowInv
  <2> QED
    BY <2>1, <2>2, <2>3, <2>4, <2>5, <2>6, <2>7, <2>8, OneRow DEF TaskInv
<1>n. CASE ~(StillActive(t))
    BY <1>0, <1>n, Exits DEF AcquireSlot, vars, dbVars, outVars, histVars
<1> QED
  BY <1>m, <1>n

\* A call outside ends with an error.
LEMMA PassThrowsIInv == ASSUME NEW t \in Tasks, IInv, PassThrows(t) PROVE IInv' /\ Kept
  BY Exits DEF PassThrows, histVars

\* The result is accepted.
LEMMA AgentReportsIInv ==
  ASSUME NEW t \in Tasks, IInv, AgentReports(t)
  PROVE  IInv' /\ Kept
<1>. USE ReviewAssumption
<1>0. TypeOK /\ TaskInv(t) /\ RowInv /\ IInv
  BY DEF IInv
<1>p. ~(t > count)
  BY <1>0 DEF AgentReports, TaskInv, Absent
<1>m. CASE StillActive(t)
  <2>a. UNCHANGED <<count, cycle, ledger, replied, queue, trig, poll, recovering,
       change, posted, answers, published, broken, left>>
    BY <1>m DEF AgentReports, vars, dbVars, outVars, histVars
  <2>b. /\ task' \in [Tasks -> Rows] /\ \A u \in Tasks \ {t} : task'[u] = task[u]
        /\ task'[t].state = "REVIEW_COMMENTING" /\ task'[t].reviewed = task[t].reviewed
    <3>1. "REVIEW_COMMENTING" \in Active \cup Terminal
      BY DEF Active, Terminal
    <3> QED
      BY <1>0, <1>m, <3>1, MoveEffect DEF AgentReports
  <2>c. PICK found \in SUBSET Findings, fixed \in SUBSET Prior(t), replies \in SUBSET Eligible(t) :
            op' = [op EXCEPT ![t].at = "posting", ![t].new = NewFindings(t, found, fixed),
                             ![t].fixed = fixed, ![t].replies = replies]
    BY <1>m DEF AgentReports
  <2>f. NewFindings(t, found, fixed) \cap ledger[t] \subseteq fixed
    BY DEF NewFindings
  <2>d. op' \in [Tasks -> Passes] /\ (\A u \in Tasks \ {t} : op'[u] = op[u])
        /\ op'[t].at = "posting" /\ op'[t].ps = op[t].ps /\ op'[t].sent = op[t].sent /\ op'[t].new = NewFindings(t, found, fixed) /\ op'[t].fixed = fixed
    <3> DEFINE p == [op[t] EXCEPT !.at = "posting", !.new = NewFindings(t, found, fixed),
                                   !.fixed = fixed, !.replies = replies]
    <3>1. op[t] \in Passes
      BY <1>0, Typed
    <3>2. /\ NewFindings(t, found, fixed) \in SUBSET Findings
           /\ fixed \in SUBSET Findings /\ replies \in SUBSET Messages
      BY <1>0, <3>1 DEF Passes, NewFindings, Prior, Eligible, TypeOK
    <3>3. p \in Passes /\ p.at = "posting" /\ p.ps = op[t].ps /\ p.sent = op[t].sent /\ p.new = NewFindings(t, found, fixed) /\ p.fixed = fixed
      BY <3>1, <3>2 DEF Passes
    <3>4. op' = [op EXCEPT ![t] = p]
      BY <1>0, <2>c DEF TypeOK
    <3> HIDE DEF p
    <3> QED
      BY <1>0, <3>3, <3>4, PassSet
  <2>e. op[t].at = "agent" /\ task[t].state \in {"REVIEW_RUNNING", "REVIEW_COMMENTING"}
    BY <1>m DEF AgentReports, StillActive, State
  <2>1. TypeOK'
    BY <1>p, <2>a, <2>b, <2>d, <2>e, <2>f, <1>0 DEF TypeOK
  <2>2. \A u \in Tasks \ {t} : Same(u)
    BY <1>p, <2>a, <2>b, <2>d, <2>e, <2>f, <1>0 DEF Same
  <2>3. OrdinaryMove(t)
    BY <1>p, <2>a, <2>b, <2>d, <2>e, <2>f, <1>0 DEF OrdinaryMove, State, Active,
         Terminal, Machine!Edges
  <2>4. Absent(t)'
    BY <1>p, <2>a, <2>b, <2>d, <2>e, <2>f, <1>0 DEF Absent
  <2>5. Publishes(t)'
    BY <1>p, <2>a, <2>b, <2>d, <2>e, <2>f, <1>0 DEF Publishes, TaskInv, State
  <2>6. Stands(t)'
    BY <1>p, <2>a, <2>b, <2>d, <2>e, <2>f, <1>0 DEF Stands, TaskInv
  <2>7. Once(t)'
    BY <1>p, <2>a, <2>b, <2>d, <2>e, <2>f, <1>0 DEF Once, TaskInv, TypeOK
  <2>8. count' = count /\ \A g \in Triggers : trig'[g].at = "run" => trig'[g].task \in 1..count
    BY <1>p, <2>a, <2>b, <2>d, <2>e, <2>f, <1>0 DEF RowInv
  <2> QED
    BY <2>1, <2>2, <2>3, <2>4, <2>5, <2>6, <2>7, <2>8, OneRow DEF TaskInv
<1>n. CASE ~(StillActive(t))
    BY <1>0, <1>n, Exits DEF AgentReports, vars, dbVars, outVars, histVars
<1> QED
  BY <1>m, <1>n

\* The change was closed meanwhile.
LEMMA AgentReportsClosedIInv ==
  ASSUME NEW t \in Tasks, IInv, AgentReportsClosed(t)
  PROVE  IInv' /\ Kept
<1>. USE ReviewAssumption
<1>0. TypeOK /\ TaskInv(t) /\ RowInv /\ IInv
  BY DEF IInv
<1>p. ~(t > count)
  BY <1>0 DEF AgentReportsClosed, TaskInv, Absent
<1>m. CASE StillActive(t)
  <2>a. UNCHANGED <<count, ledger, replied, queue, trig, poll, recovering, change,
       posted, answers, published, broken, left>>
    BY <1>m DEF AgentReportsClosed, vars, dbVars, outVars, histVars
  <2>b. /\ task' \in [Tasks -> Rows] /\ \A u \in Tasks \ {t} : task'[u] = task[u]
        /\ task'[t].state = "REVIEW_COMMENTING" /\ task'[t].reviewed = task[t].reviewed
    <3>1. "REVIEW_COMMENTING" \in Active \cup Terminal
      BY DEF Active, Terminal
    <3> QED
      BY <1>0, <1>m, <3>1, MoveEffect DEF AgentReportsClosed
  <2>c. /\ cycle' \in [Tasks -> Cycles] /\ \A u \in Tasks \ {t} : cycle'[u] = cycle[u]
        /\ cycle'[t].result = "closed" /\ cycle'[t].ps = op[t].ps
    <3>1. op[t].ps \in 0..MaxPatchset
      BY <1>0, Typed DEF Passes
    <3> QED
      BY <1>0, <1>m, <3>1, SaveEffect DEF AgentReportsClosed
  <2>d. /\ op' \in [Tasks -> Passes] /\ \A u \in Tasks \ {t} : op'[u] = op[u]
        /\ op'[t].at = "closing" /\ op'[t].ps = op[t].ps /\ op'[t].sent = op[t].sent
    BY <1>0, <1>m, GotoEffect DEF AgentReportsClosed
  <2>e. op[t].at = "agent" /\ task[t].state \in {"REVIEW_RUNNING", "REVIEW_COMMENTING"}
    BY <1>m DEF AgentReportsClosed, StillActive, State
  <2>1. TypeOK'
    BY <1>p, <2>a, <2>b, <2>c, <2>d, <2>e, <1>0 DEF TypeOK
  <2>2. \A u \in Tasks \ {t} : Same(u)
    BY <1>p, <2>a, <2>b, <2>c, <2>d, <2>e, <1>0 DEF Same
  <2>3. OrdinaryMove(t)
    BY <1>p, <2>a, <2>b, <2>c, <2>d, <2>e, <1>0 DEF OrdinaryMove, State, Active,
         Terminal, Machine!Edges
  <2>4. Absent(t)'
    BY <1>p, <2>a, <2>b, <2>c, <2>d, <2>e, <1>0 DEF Absent
  <2>5. Publishes(t)'
    BY <1>p, <2>a, <2>b, <2>c, <2>d, <2>e, <1>0 DEF Publishes, TaskInv, State
  <2>6. Stands(t)'
    BY <1>p, <2>a, <2>b, <2>c, <2>d, <2>e, <1>0 DEF Stands, TaskInv
  <2>7. Once(t)'
    BY <1>p, <2>a, <2>b, <2>c, <2>d, <2>e, <1>0 DEF Once, TaskInv, TypeOK
  <2>8. count' = count /\ \A g \in Triggers : trig'[g].at = "run" => trig'[g].task \in 1..count
    BY <1>p, <2>a, <2>b, <2>c, <2>d, <2>e, <1>0 DEF RowInv
  <2> QED
    BY <2>1, <2>2, <2>3, <2>4, <2>5, <2>6, <2>7, <2>8, OneRow DEF TaskInv
<1>n. CASE ~(StillActive(t))
    BY <1>0, <1>n, Exits DEF AgentReportsClosed, vars, dbVars, outVars, histVars
<1> QED
  BY <1>m, <1>n

\* The task of a closed change ends.
LEMMA CloseIInv ==
  ASSUME NEW t \in Tasks, IInv, Close(t)
  PROVE  IInv' /\ Kept
<1>. USE ReviewAssumption
<1>0. TypeOK /\ TaskInv(t) /\ RowInv /\ IInv
  BY DEF IInv
<1>p. ~(t > count)
  BY <1>0 DEF Close, TaskInv, Absent
<1>m. CASE Legal(t, "REVIEW_DONE")
  <2>a. UNCHANGED <<count, cycle, ledger, replied, queue, trig, poll, recovering,
       change, posted, answers, published, broken, left>>
    BY <1>m DEF Close, vars, dbVars, outVars, histVars
  <2>b. /\ task' \in [Tasks -> Rows] /\ \A u \in Tasks \ {t} : task'[u] = task[u]
        /\ task'[t].state = "REVIEW_DONE" /\ task'[t].reviewed = task[t].reviewed
    <3>1. "REVIEW_DONE" \in Active \cup Terminal
      BY DEF Active, Terminal
    <3> QED
      BY <1>0, <1>m, <3>1, MoveEffect DEF Close
  <2>d. /\ op' \in [Tasks -> Passes] /\ \A u \in Tasks \ {t} : op'[u] = op[u]
        /\ op'[t].at = "idle"
    BY <1>0, <1>m, StopEffect DEF Close
  <2>e. OrdinaryMove(t) /\ op[t].at = "closing"
    BY <1>m, <2>b DEF OrdinaryMove, State, Legal, Machine!Legal, Close
  <2>1. TypeOK'
    BY <1>p, <2>a, <2>b, <2>d, <2>e, <1>0 DEF TypeOK
  <2>2. \A u \in Tasks \ {t} : Same(u)
    BY <1>p, <2>a, <2>b, <2>d, <2>e, <1>0 DEF Same
  <2>3. OrdinaryMove(t)
    BY <2>e
  <2>4. Absent(t)'
    BY <1>p, <2>a, <2>b, <2>d, <2>e, <1>0 DEF Absent
  <2>5. Publishes(t)'
    BY <1>p, <2>a, <2>b, <2>d, <2>e, <1>0 DEF Publishes, TaskInv, State
  <2>6. Stands(t)'
    BY <1>p, <2>a, <2>b, <2>d, <2>e, <1>0 DEF Stands, TaskInv
  <2>7. Once(t)'
    BY <1>p, <2>a, <2>b, <2>d, <2>e, <1>0 DEF Once, TaskInv, TypeOK
  <2>8. count' = count /\ \A g \in Triggers : trig'[g].at = "run" => trig'[g].task \in 1..count
    BY <1>p, <2>a, <2>b, <2>d, <2>e, <1>0 DEF RowInv
  <2> QED
    BY <2>1, <2>2, <2>3, <2>4, <2>5, <2>6, <2>7, <2>8, OneRow DEF TaskInv
<1>n. CASE ~(Legal(t, "REVIEW_DONE"))
    BY <1>0, <1>n, Exits DEF Close, vars, dbVars, outVars, histVars
<1> QED
  BY <1>m, <1>n

\* The patchset was replaced.
LEMMA AgentReportsOldIInv ==
  ASSUME NEW t \in Tasks, IInv, AgentReportsOld(t)
  PROVE  IInv' /\ Kept
<1>. USE ReviewAssumption
<1>0. TypeOK /\ TaskInv(t) /\ RowInv /\ IInv
  BY DEF IInv
<1>p. ~(t > count)
  BY <1>0 DEF AgentReportsOld, TaskInv, Absent
<1>k. CASE op[t].retries >= MaxSuperseded
    BY <1>0, <1>k, Exits DEF AgentReportsOld, vars, dbVars, outVars, histVars
<1>m. CASE ~(op[t].retries >= MaxSuperseded) /\ StillActive(t)
  <2>a. UNCHANGED <<count, ledger, replied, queue, trig, poll, recovering, change,
       posted, answers, published, broken, left>>
    BY DEF AgentReportsOld, vars, dbVars, outVars, histVars
  <2>b. /\ task' \in [Tasks -> Rows] /\ \A u \in Tasks \ {t} : task'[u] = task[u]
        /\ task'[t].state = task[t].state /\ task'[t].reviewed = task[t].reviewed
    <3> DEFINE r == [task[t] EXCEPT !.cur = change.ps]
    <3>1. r \in Rows /\ r.state = task[t].state /\ r.reviewed = task[t].reviewed
      <4>1. change.ps \in 0..MaxPatchset /\ task[t] \in Rows
        BY <1>0, Typed DEF TypeOK
      <4> QED
        BY <4>1 DEF Rows
    <3>2. task' = [task EXCEPT ![t] = r]
      BY <1>0, <1>m DEF AgentReportsOld, TypeOK
    <3> HIDE DEF r
    <3> QED
      BY <1>0, <3>1, <3>2, RowSet
  <2>c. /\ cycle' \in [Tasks -> Cycles] /\ \A u \in Tasks \ {t} : cycle'[u] = cycle[u]
        /\ cycle'[t].result = "running" /\ cycle'[t].ps = 0
    <3>1. 0 \in 0..MaxPatchset
      BY <1>0, Typed DEF Passes
    <3> QED
      BY <1>0, <1>m, <3>1, SaveEffect DEF AgentReportsOld
  <2>d. op' \in [Tasks -> Passes] /\ (\A u \in Tasks \ {t} : op'[u] = op[u])
        /\ op'[t].at = "slot" /\ op'[t].ps = op[t].ps /\ op'[t].sent = op[t].sent
    <3> DEFINE p == [op[t] EXCEPT !.at = "slot", !.retries = @ + 1]
    <3>1. op[t] \in Passes
      BY <1>0, Typed
    <3>2. op[t].retries + 1 \in 0..MaxSuperseded
      BY <1>0, <3>1, <1>m DEF Passes
    <3>3. p \in Passes /\ p.at = "slot" /\ p.ps = op[t].ps /\ p.sent = op[t].sent
      BY <3>1, <3>2 DEF Passes
    <3>4. op' = [op EXCEPT ![t] = p]
      BY <1>0, <1>m DEF AgentReportsOld, TypeOK
    <3> HIDE DEF p
    <3> QED
      BY <1>0, <3>3, <3>4, PassSet
  <2>e. op[t].at = "agent"
    BY DEF AgentReportsOld
  <2>1. TypeOK'
    BY <1>p, <2>a, <2>b, <2>c, <2>d, <2>e, <1>0 DEF TypeOK
  <2>2. \A u \in Tasks \ {t} : Same(u)
    BY <1>p, <2>a, <2>b, <2>c, <2>d, <2>e, <1>0 DEF Same
  <2>3. OrdinaryMove(t)
    BY <1>p, <2>a, <2>b, <2>c, <2>d, <2>e, <1>0 DEF OrdinaryMove, State, Active,
         Terminal, Machine!Edges
  <2>4. Absent(t)'
    BY <1>p, <2>a, <2>b, <2>c, <2>d, <2>e, <1>0 DEF Absent
  <2>5. Publishes(t)'
    BY <1>p, <2>a, <2>b, <2>c, <2>d, <2>e, <1>0 DEF Publishes, TaskInv, State
  <2>6. Stands(t)'
    BY <1>p, <2>a, <2>b, <2>c, <2>d, <2>e, <1>0 DEF Stands, TaskInv
  <2>7. Once(t)'
    BY <1>p, <2>a, <2>b, <2>c, <2>d, <2>e, <1>0 DEF Once, TaskInv, TypeOK
  <2>8. count' = count /\ \A g \in Triggers : trig'[g].at = "run" => trig'[g].task \in 1..count
    BY <1>p, <2>a, <2>b, <2>c, <2>d, <2>e, <1>0 DEF RowInv
  <2> QED
    BY <2>1, <2>2, <2>3, <2>4, <2>5, <2>6, <2>7, <2>8, OneRow DEF TaskInv
<1>n. CASE ~(op[t].retries >= MaxSuperseded) /\ ~StillActive(t)
  <2>a. UNCHANGED <<count, ledger, replied, queue, trig, poll, recovering, change,
       posted, answers, published, broken, left>>
    BY DEF AgentReportsOld, vars, dbVars, outVars, histVars
  <2>b. /\ task' \in [Tasks -> Rows] /\ \A u \in Tasks \ {t} : task'[u] = task[u]
        /\ task'[t].state = task[t].state /\ task'[t].reviewed = task[t].reviewed
    <3> DEFINE r == [task[t] EXCEPT !.cur = change.ps]
    <3>1. r \in Rows /\ r.state = task[t].state /\ r.reviewed = task[t].reviewed
      <4>1. change.ps \in 0..MaxPatchset /\ task[t] \in Rows
        BY <1>0, Typed DEF TypeOK
      <4> QED
        BY <4>1 DEF Rows
    <3>2. task' = [task EXCEPT ![t] = r]
      BY <1>0, <1>n DEF AgentReportsOld, TypeOK
    <3> HIDE DEF r
    <3> QED
      BY <1>0, <3>1, <3>2, RowSet
  <2>c. /\ cycle' \in [Tasks -> Cycles] /\ \A u \in Tasks \ {t} : cycle'[u] = cycle[u]
        /\ cycle'[t].result = "superseded" /\ cycle'[t].ps = 0
    <3>1. 0 \in 0..MaxPatchset
      BY <1>0, Typed DEF Passes
    <3> QED
      BY <1>0, <1>n, <3>1, SaveEffect DEF AgentReportsOld
  <2>d. /\ op' \in [Tasks -> Passes] /\ \A u \in Tasks \ {t} : op'[u] = op[u]
        /\ op'[t].at = "idle"
    BY <1>0, <1>n, StopEffect DEF AgentReportsOld
  <2>e. op[t].at = "agent"
    BY DEF AgentReportsOld
  <2>1. TypeOK'
    BY <1>p, <2>a, <2>b, <2>c, <2>d, <2>e, <1>0 DEF TypeOK
  <2>2. \A u \in Tasks \ {t} : Same(u)
    BY <1>p, <2>a, <2>b, <2>c, <2>d, <2>e, <1>0 DEF Same
  <2>3. OrdinaryMove(t)
    BY <1>p, <2>a, <2>b, <2>c, <2>d, <2>e, <1>0 DEF OrdinaryMove, State, Active,
         Terminal, Machine!Edges
  <2>4. Absent(t)'
    BY <1>p, <2>a, <2>b, <2>c, <2>d, <2>e, <1>0 DEF Absent
  <2>5. Publishes(t)'
    BY <1>p, <2>a, <2>b, <2>c, <2>d, <2>e, <1>0 DEF Publishes, TaskInv, State
  <2>6. Stands(t)'
    BY <1>p, <2>a, <2>b, <2>c, <2>d, <2>e, <1>0 DEF Stands, TaskInv
  <2>7. Once(t)'
    BY <1>p, <2>a, <2>b, <2>c, <2>d, <2>e, <1>0 DEF Once, TaskInv, TypeOK
  <2>8. count' = count /\ \A g \in Triggers : trig'[g].at = "run" => trig'[g].task \in 1..count
    BY <1>p, <2>a, <2>b, <2>c, <2>d, <2>e, <1>0 DEF RowInv
  <2> QED
    BY <2>1, <2>2, <2>3, <2>4, <2>5, <2>6, <2>7, <2>8, OneRow DEF TaskInv
<1> QED
  BY <1>k, <1>m, <1>n

\* Findings are posted.
LEMMA PostFindingsIInv ==
  ASSUME NEW t \in Tasks, IInv, PostFindings(t)
  PROVE  IInv' /\ Kept
<1>. USE ReviewAssumption
<1>0. TypeOK /\ TaskInv(t) /\ RowInv /\ IInv
  BY DEF IInv
<1>p. ~(t > count)
  BY <1>0 DEF PostFindings, TaskInv, Absent
<1>a. UNCHANGED <<count, task, cycle, ledger, replied, queue, trig, poll, recovering,
     change, answers, published, broken, left>>
  BY DEF PostFindings, vars, dbVars, outVars, histVars
<1>m. PICK batch \in Batches(t) : Post(t, batch) /\ op' = [op EXCEPT ![t].at = "record", ![t].sent = batch]
  BY DEF PostFindings
<1>e. op[t].at = "posting" /\ op[t] \in Passes /\ op[t].sent = {}
  BY <1>0, Typed DEF PostFindings, TaskInv, Stands
<1>f. batch \subseteq op[t].new /\ op[t].new \subseteq Findings
  BY <1>e DEF Batches, Passes
<1>g. (\A f \in Findings : posted[t][f] \in Nat) /\ broken[t] \in Nat /\ ledger[t] \subseteq Findings
  BY <1>0 DEF TypeOK
<1>b. /\ posted' \in [Tasks -> [Findings -> Nat]] /\ \A u \in Tasks \ {t} : posted'[u] = posted[u]
      /\ \A f \in Findings :
           posted'[t][f] = IF f \notin batch THEN posted[t][f]
                           ELSE IF f \in op[t].fixed THEN 1 ELSE posted[t][f] + 1
  <2>1. posted[t] \in [Findings -> Nat]
    BY <1>0 DEF TypeOK
  <2>2. [f \in Findings |-> IF f \notin batch THEN posted[t][f]
                            ELSE IF f \in op[t].fixed THEN 1 ELSE posted[t][f] + 1]
          \in [Findings -> Nat]
    BY <2>1
  <2>3. posted' = [posted EXCEPT ![t] = [f \in Findings |->
                     IF f \notin batch THEN posted[t][f]
                     ELSE IF f \in op[t].fixed THEN 1 ELSE posted[t][f] + 1]]
    BY <1>0, <1>m DEF Post, TypeOK
  <2> QED
    BY <1>0, <2>2, <2>3 DEF TypeOK
<1>d. op' \in [Tasks -> Passes] /\ (\A u \in Tasks \ {t} : op'[u] = op[u])
      /\ op'[t].at = "record" /\ op'[t].ps = op[t].ps /\ op'[t].sent = batch /\ op'[t].new = op[t].new /\ op'[t].fixed = op[t].fixed
  <2> DEFINE p == [op[t] EXCEPT !.at = "record", !.sent = batch]
  <2>1. op[t] \in Passes
    BY <1>0, Typed
  <2>2. batch \in SUBSET (Findings \cup Messages)
    BY <1>0, <2>1, <1>f DEF Passes
  <2>3. p \in Passes /\ p.at = "record" /\ p.ps = op[t].ps /\ p.sent = batch /\ p.new = op[t].new /\ p.fixed = op[t].fixed
    BY <2>1, <2>2 DEF Passes
  <2>4. op' = [op EXCEPT ![t] = p]
    BY <1>0, <1>m DEF TypeOK
  <2> HIDE DEF p
  <2> QED
    BY <1>0, <2>3, <2>4, PassSet
<1>1. TypeOK'
  BY <1>p, <1>a, <1>b, <1>d, <1>e, <1>f, <1>g, <1>0 DEF TypeOK
<1>2. \A u \in Tasks \ {t} : Same(u)
  BY <1>p, <1>a, <1>b, <1>d, <1>e, <1>f, <1>g, <1>0 DEF Same
<1>3. OrdinaryMove(t)
  BY <1>p, <1>a, <1>b, <1>d, <1>e, <1>f, <1>g, <1>0 DEF OrdinaryMove, State, Active,
       Terminal, Machine!Edges
<1>4. Absent(t)'
  BY <1>p, <1>a, <1>b, <1>d, <1>e, <1>f, <1>g, <1>0 DEF Absent
<1>5. Publishes(t)'
  BY <1>p, <1>a, <1>b, <1>d, <1>e, <1>f, <1>g, <1>0 DEF Publishes, TaskInv, State
<1>6. Stands(t)'
  BY <1>p, <1>a, <1>b, <1>d, <1>e, <1>f, <1>g, <1>0 DEF Stands, TaskInv
<1>7. Once(t)'
  <2>1. ASSUME NEW f \in Findings
        PROVE  /\ posted[t][f] <= 1 + broken[t]
               /\ f \notin ledger[t] => posted[t][f] <= broken[t]
               /\ f \in batch /\ f \notin op[t].fixed => f \notin ledger[t]
    BY <1>0, <1>e, <1>f DEF Once, TaskInv
  <2>2. ASSUME NEW f \in Findings PROVE posted'[t][f] <= 1 + broken[t]
    BY <1>b, <1>g, <2>1
  <2>3. ASSUME NEW f \in Findings, f \notin batch PROVE posted'[t][f] = posted[t][f]
    BY <1>b, <2>3
  <2>4. op'[t].new \cap ledger[t] \subseteq op'[t].fixed
    BY <1>0, <1>d, <1>e DEF Once, TaskInv
  <2> QED
    BY <1>a, <1>d, <2>1, <2>2, <2>3, <2>4 DEF Once
<1>8. count' = count /\ \A g \in Triggers : trig'[g].at = "run" => trig'[g].task \in 1..count
  BY <1>p, <1>a, <1>b, <1>d, <1>e, <1>f, <1>g, <1>0 DEF RowInv
<1> QED
  BY <1>1, <1>2, <1>3, <1>4, <1>5, <1>6, <1>7, <1>8, OneRow DEF TaskInv

\* Findings are posted and the call throws.
LEMMA PostingLostIInv ==
  ASSUME NEW t \in Tasks, IInv, PostingLost(t)
  PROVE  IInv' /\ Kept
<1>. USE ReviewAssumption
<1>0. TypeOK /\ TaskInv(t) /\ RowInv /\ IInv
  BY DEF IInv
<1>p. ~(t > count)
  BY <1>0 DEF PostingLost, TaskInv, Absent
<1>a. UNCHANGED <<count, ledger, replied, queue, trig, poll, recovering, change,
     answers, published, left>>
  BY DEF PostingLost, vars, dbVars, outVars, histVars
<1>m. PICK batch \in Batches(t) : Post(t, batch)
  BY DEF PostingLost
<1>e. op[t].at = "posting" /\ op[t] \in Passes /\ op[t].sent = {}
  BY <1>0, Typed DEF PostingLost, TaskInv, Stands
<1>f. batch \subseteq op[t].new /\ op[t].new \subseteq Findings
  BY <1>e DEF Batches, Passes
<1>g. (\A f \in Findings : posted[t][f] \in Nat) /\ broken[t] \in Nat /\ ledger[t] \subseteq Findings
  BY <1>0 DEF TypeOK
<1>b. /\ posted' \in [Tasks -> [Findings -> Nat]] /\ \A u \in Tasks \ {t} : posted'[u] = posted[u]
      /\ \A f \in Findings :
           posted'[t][f] = IF f \notin batch THEN posted[t][f]
                           ELSE IF f \in op[t].fixed THEN 1 ELSE posted[t][f] + 1
  <2>1. posted[t] \in [Findings -> Nat]
    BY <1>0 DEF TypeOK
  <2>2. [f \in Findings |-> IF f \notin batch THEN posted[t][f]
                            ELSE IF f \in op[t].fixed THEN 1 ELSE posted[t][f] + 1]
          \in [Findings -> Nat]
    BY <2>1
  <2>3. posted' = [posted EXCEPT ![t] = [f \in Findings |->
                     IF f \notin batch THEN posted[t][f]
                     ELSE IF f \in op[t].fixed THEN 1 ELSE posted[t][f] + 1]]
    BY <1>0, <1>m DEF Post, TypeOK
  <2> QED
    BY <1>0, <2>2, <2>3 DEF TypeOK
<1>c. /\ broken' \in [Tasks -> Nat] /\ \A u \in Tasks \ {t} : broken'[u] = broken[u]
      /\ broken'[t] = broken[t] + 1
  BY <1>0 DEF PostingLost, TypeOK
<1>d. /\ task' \in [Tasks -> Rows] /\ cycle' \in [Tasks -> Cycles] /\ op' \in [Tasks -> Passes]
      /\ \A u \in Tasks \ {t} : task'[u] = task[u] /\ cycle'[u] = cycle[u] /\ op'[u] = op[u]
      /\ OrdinaryMove(t) /\ task'[t].reviewed = task[t].reviewed
      /\ task'[t].state \in {task[t].state, "REVIEW_FAILED"}
      /\ cycle'[t].result = "failed" /\ op'[t].at = "idle"
  BY <1>0, ExitEffect DEF PostingLost
<1>1. TypeOK'
  BY <1>p, <1>a, <1>b, <1>c, <1>d, <1>e, <1>f, <1>g, <1>0 DEF TypeOK
<1>2. \A u \in Tasks \ {t} : Same(u)
  BY <1>p, <1>a, <1>b, <1>c, <1>d, <1>e, <1>f, <1>g, <1>0 DEF Same
<1>3. OrdinaryMove(t)
  BY <1>d
<1>4. Absent(t)'
  BY <1>p, <1>a, <1>b, <1>c, <1>d, <1>e, <1>f, <1>g, <1>0 DEF Absent
<1>5. Publishes(t)'
  BY <1>p, <1>a, <1>b, <1>c, <1>d, <1>e, <1>f, <1>g, <1>0 DEF Publishes, TaskInv,
       State
<1>6. Stands(t)'
  BY <1>p, <1>a, <1>b, <1>c, <1>d, <1>e, <1>f, <1>g, <1>0 DEF Stands, TaskInv
<1>7. Once(t)'
  <2>1. ASSUME NEW f \in Findings
        PROVE  /\ posted[t][f] <= 1 + broken[t]
               /\ f \notin ledger[t] => posted[t][f] <= broken[t]
               /\ f \in batch /\ f \notin op[t].fixed => f \notin ledger[t]
    BY <1>0, <1>e, <1>f DEF Once, TaskInv
  <2>2. ASSUME NEW f \in Findings PROVE posted'[t][f] <= 1 + broken[t]
    BY <1>b, <1>g, <2>1
  <2>3. ASSUME NEW f \in Findings, f \notin batch PROVE posted'[t][f] = posted[t][f]
    BY <1>b, <2>3
  <2>4. ASSUME NEW f \in Findings PROVE posted'[t][f] <= broken'[t]
    BY <1>c, <1>g, <2>2
  <2>5. ASSUME NEW f \in Findings PROVE posted'[t][f] \in Nat
    BY <1>b
  <2> QED
    BY <1>c, <1>d, <1>g, <2>4, <2>5 DEF Once
<1>8. count' = count /\ \A g \in Triggers : trig'[g].at = "run" => trig'[g].task \in 1..count
  BY <1>p, <1>a, <1>b, <1>c, <1>d, <1>e, <1>f, <1>g, <1>0 DEF RowInv
<1> QED
  BY <1>1, <1>2, <1>3, <1>4, <1>5, <1>6, <1>7, <1>8, OneRow DEF TaskInv

\* What was posted is recorded.
LEMMA RecordFindingsIInv ==
  ASSUME NEW t \in Tasks, IInv, RecordFindings(t)
  PROVE  IInv' /\ Kept
<1>. USE ReviewAssumption
<1>0. TypeOK /\ TaskInv(t) /\ RowInv /\ IInv
  BY DEF IInv
<1>p. ~(t > count)
  BY <1>0 DEF RecordFindings, TaskInv, Absent
<1>e. op[t].at = "record" /\ op[t] \in Passes /\ op[t].sent \subseteq Findings
  BY <1>0, Typed DEF RecordFindings, TaskInv, Stands
<1>m. CASE StillActive(t) \/ (change.hosted /\ op[t].sent \cap op[t].fixed = {})
  <2>a. UNCHANGED <<count, task, cycle, replied, queue, trig, poll, recovering,
       change, posted, answers, published, broken, left>>
    BY <1>m DEF RecordFindings, vars, dbVars, outVars, histVars
  <2>b. /\ ledger' \in [Tasks -> SUBSET Findings] /\ \A u \in Tasks \ {t} : ledger'[u] = ledger[u]
        /\ ledger'[t] = ledger[t] \cup op[t].sent
    <3>1. ledger' = [ledger EXCEPT ![t] = ledger[t] \cup op[t].sent]
      BY <1>0, <1>m DEF RecordFindings, Recorded, TypeOK
    <3>2. ledger[t] \cup op[t].sent \in SUBSET Findings
      BY <1>0, <1>e DEF TypeOK
    <3> QED
      BY <1>0, <3>1, <3>2 DEF TypeOK
  <2>d. op' \in [Tasks -> Passes] /\ (\A u \in Tasks \ {t} : op'[u] = op[u])
        /\ op'[t].at = "posting" /\ op'[t].ps = op[t].ps /\ op'[t].sent = {} /\ op'[t].new = op[t].new \ op[t].sent /\ op'[t].fixed = op[t].fixed \ op[t].sent
    <3> DEFINE p == [op[t] EXCEPT !.at = "posting", !.new = @ \ op[t].sent,
                                   !.fixed = @ \ op[t].sent, !.sent = {}]
    <3>1. op[t] \in Passes
      BY <1>0, Typed
    <3>2. /\ op[t].new \ op[t].sent \in SUBSET Findings
           /\ op[t].fixed \ op[t].sent \in SUBSET Findings
      BY <1>0, <3>1 DEF Passes
    <3>3. p \in Passes /\ p.at = "posting" /\ p.ps = op[t].ps /\ p.sent = {} /\ p.new = op[t].new \ op[t].sent /\ p.fixed = op[t].fixed \ op[t].sent
      BY <3>1, <3>2 DEF Passes
    <3>4. op' = [op EXCEPT ![t] = p]
      BY <1>0, <1>m DEF RecordFindings, TypeOK
    <3> HIDE DEF p
    <3> QED
      BY <1>0, <3>3, <3>4, PassSet
  <2>1. TypeOK'
    BY <1>p, <1>e, <2>a, <2>b, <2>d, <1>0 DEF TypeOK
  <2>2. \A u \in Tasks \ {t} : Same(u)
    BY <1>p, <1>e, <2>a, <2>b, <2>d, <1>0 DEF Same
  <2>3. OrdinaryMove(t)
    BY <1>p, <1>e, <2>a, <2>b, <2>d, <1>0 DEF OrdinaryMove, State, Active, Terminal,
         Machine!Edges
  <2>4. Absent(t)'
    BY <1>p, <1>e, <2>a, <2>b, <2>d, <1>0 DEF Absent
  <2>5. Publishes(t)'
    BY <1>p, <1>e, <2>a, <2>b, <2>d, <1>0 DEF Publishes, TaskInv, State
  <2>6. Stands(t)'
    BY <1>p, <1>e, <2>a, <2>b, <2>d, <1>0 DEF Stands, TaskInv
  <2>7. Once(t)'
    BY <1>p, <1>e, <2>a, <2>b, <2>d, <1>0 DEF Once, TaskInv, TypeOK
  <2>8. count' = count /\ \A g \in Triggers : trig'[g].at = "run" => trig'[g].task \in 1..count
    BY <1>p, <1>e, <2>a, <2>b, <2>d, <1>0 DEF RowInv
  <2> QED
    BY <2>1, <2>2, <2>3, <2>4, <2>5, <2>6, <2>7, <2>8, OneRow DEF TaskInv
<1>n. CASE ~(StillActive(t) \/ (change.hosted /\ op[t].sent \cap op[t].fixed = {}))
    BY <1>0, <1>n, Exits DEF RecordFindings, vars, dbVars, outVars, histVars
<1> QED
  BY <1>m, <1>n

\* Everything is posted.
LEMMA PublicationEndsIInv ==
  ASSUME NEW t \in Tasks, IInv, PublicationEnds(t)
  PROVE  IInv' /\ Kept
<1>. USE ReviewAssumption
<1>0. TypeOK /\ TaskInv(t) /\ RowInv /\ IInv
  BY DEF IInv
<1>p. ~(t > count)
  BY <1>0 DEF PublicationEnds, TaskInv, Absent
<1>e. op[t].at = "posting" /\ op[t] \in Passes /\ op[t].ps # 0
  BY <1>0, Typed DEF PublicationEnds, TaskInv, Publishes
<1>m. CASE StillActive(t) \/ op[t].fixed = {}
  <2>a. UNCHANGED <<count, task, cycle, replied, queue, trig, poll, recovering,
       change, answers, broken, left>>
    BY <1>m DEF PublicationEnds, vars, dbVars, outVars, histVars
  <2>b. /\ ledger' \in [Tasks -> SUBSET Findings] /\ \A u \in Tasks \ {t} : ledger'[u] = ledger[u]
        /\ ledger'[t] = ledger[t] \ op[t].fixed
    <3>1. ledger' = [ledger EXCEPT ![t] = ledger[t] \ op[t].fixed]
      BY <1>0, <1>m DEF PublicationEnds, TypeOK
    <3>2. ledger[t] \ op[t].fixed \in SUBSET Findings
      BY <1>0 DEF TypeOK
    <3> QED
      BY <1>0, <3>1, <3>2 DEF TypeOK
  <2>c. /\ posted' \in [Tasks -> [Findings -> Nat]] /\ \A u \in Tasks \ {t} : posted'[u] = posted[u]
        /\ \A f \in Findings : posted'[t][f] = IF f \in op[t].fixed THEN 0 ELSE posted[t][f]
    <3>1. posted[t] \in [Findings -> Nat]
      BY <1>0 DEF TypeOK
    <3>2. [f \in Findings |-> IF f \in op[t].fixed THEN 0 ELSE posted[t][f]] \in [Findings -> Nat]
      BY <3>1
    <3>3. posted' = [posted EXCEPT ![t] = [f \in Findings |-> IF f \in op[t].fixed THEN 0
                                                             ELSE posted[t][f]]]
      BY <1>0, <1>m DEF PublicationEnds, TypeOK
    <3> QED
      BY <1>0, <3>2, <3>3 DEF TypeOK
  <2>f. /\ published' \in [Tasks -> SUBSET (1..MaxPatchset)]
        /\ \A u \in Tasks \ {t} : published'[u] = published[u]
        /\ published'[t] = published[t] \cup {op[t].ps}
    <3>1. published' = [published EXCEPT ![t] = published[t] \cup {op[t].ps}]
      BY <1>0, <1>m DEF PublicationEnds, TypeOK
    <3>2. op[t].ps \in 1..MaxPatchset
      BY <1>e DEF Passes
    <3>3. published[t] \cup {op[t].ps} \in SUBSET (1..MaxPatchset)
      BY <1>0, <3>2 DEF TypeOK
    <3> QED
      BY <1>0, <3>1, <3>3 DEF TypeOK
  <2>d. /\ op' \in [Tasks -> Passes] /\ \A u \in Tasks \ {t} : op'[u] = op[u]
        /\ op'[t].at = "replies" /\ op'[t].ps = op[t].ps /\ op'[t].sent = op[t].sent
    BY <1>0, <1>m, GotoEffect DEF PublicationEnds
  <2>e. op[t].sent = {}
    BY <1>0, <1>e DEF TaskInv, Stands
  <2>1. TypeOK'
    BY <1>p, <1>e, <2>a, <2>b, <2>c, <2>d, <2>e, <2>f, <1>0 DEF TypeOK
  <2>2. \A u \in Tasks \ {t} : Same(u)
    BY <1>p, <1>e, <2>a, <2>b, <2>c, <2>d, <2>e, <2>f, <1>0 DEF Same
  <2>3. OrdinaryMove(t)
    BY <1>p, <1>e, <2>a, <2>b, <2>c, <2>d, <2>e, <2>f, <1>0 DEF OrdinaryMove, State,
         Active, Terminal, Machine!Edges
  <2>4. Absent(t)'
    BY <1>p, <1>e, <2>a, <2>b, <2>c, <2>d, <2>e, <2>f, <1>0 DEF Absent
  <2>5. Publishes(t)'
    BY <1>p, <1>e, <2>a, <2>b, <2>c, <2>d, <2>e, <2>f, <1>0 DEF Publishes, TaskInv,
         State
  <2>6. Stands(t)'
    BY <1>p, <1>e, <2>a, <2>b, <2>c, <2>d, <2>e, <2>f, <1>0 DEF Stands, TaskInv
  <2>7. Once(t)'
    BY <1>p, <1>e, <2>a, <2>b, <2>c, <2>d, <2>e, <2>f, <1>0 DEF Once, TaskInv, TypeOK
  <2>8. count' = count /\ \A g \in Triggers : trig'[g].at = "run" => trig'[g].task \in 1..count
    BY <1>p, <1>e, <2>a, <2>b, <2>c, <2>d, <2>e, <2>f, <1>0 DEF RowInv
  <2> QED
    BY <2>1, <2>2, <2>3, <2>4, <2>5, <2>6, <2>7, <2>8, OneRow DEF TaskInv
<1>n. CASE ~(StillActive(t) \/ op[t].fixed = {})
    BY <1>0, <1>n, Exits DEF PublicationEnds, vars, dbVars, outVars, histVars
<1> QED
  BY <1>m, <1>n

\* A message is answered or skipped.
LEMMA ReplyIInv ==
  ASSUME NEW t \in Tasks, NEW m \in Messages, IInv, Reply(t, m)
  PROVE  IInv' /\ Kept
<1>. USE ReviewAssumption
<1>0. TypeOK /\ TaskInv(t) /\ RowInv /\ IInv
  BY DEF IInv
<1>p. ~(t > count)
  BY <1>0 DEF Reply, TaskInv, Absent
<1>e. op[t].at = "replies" /\ op[t] \in Passes /\ m \in Messages
  BY <1>0, Typed DEF Reply, Passes
<1>g. (\A n \in Messages : answers[t][n] \in Nat) /\ replied[t] \subseteq Messages
  BY <1>0 DEF TypeOK
<1>m. CASE /\ answers' = [answers EXCEPT ![t][m] = @ + 1]
           /\ op' = [op EXCEPT ![t].replies = @ \ {m}, ![t].sent = @ \cup {m}]
  <2>a. UNCHANGED <<count, task, cycle, ledger, replied, queue, trig, poll,
       recovering, change, posted, published, broken, left>>
    BY DEF Reply, vars, dbVars, outVars, histVars
  <2>b. /\ answers' \in [Tasks -> [Messages -> Nat]] /\ \A u \in Tasks \ {t} : answers'[u] = answers[u]
        /\ \A n \in Messages : answers'[t][n] = IF n = m THEN answers[t][n] + 1 ELSE answers[t][n]
    <3>1. answers[t] \in [Messages -> Nat]
      BY <1>0 DEF TypeOK
    <3>2. [answers[t] EXCEPT ![m] = @ + 1] \in [Messages -> Nat]
      BY <1>e, <3>1
    <3>3. answers' = [answers EXCEPT ![t] = [answers[t] EXCEPT ![m] = @ + 1]]
      BY <1>0, <1>m DEF TypeOK
    <3> QED
      BY <1>0, <1>e, <3>1, <3>2, <3>3 DEF TypeOK
  <2>d. op' \in [Tasks -> Passes] /\ (\A u \in Tasks \ {t} : op'[u] = op[u])
        /\ op'[t].at = "replies" /\ op'[t].ps = op[t].ps /\ op'[t].sent = op[t].sent \cup {m}
    <3> DEFINE p == [op[t] EXCEPT !.replies = @ \ {m}, !.sent = @ \cup {m}]
    <3>1. op[t] \in Passes
      BY <1>0, Typed
    <3>2. /\ op[t].replies \ {m} \in SUBSET Messages
           /\ op[t].sent \cup {m} \in SUBSET (Findings \cup Messages)
      BY <1>0, <3>1, <1>e DEF Passes
    <3>3. p \in Passes /\ p.at = "replies" /\ p.ps = op[t].ps /\ p.sent = op[t].sent \cup {m}
      BY <1>e, <3>1, <3>2 DEF Passes
    <3>4. op' = [op EXCEPT ![t] = p]
      BY <1>0, <1>m DEF TypeOK
    <3> HIDE DEF p
    <3> QED
      BY <1>0, <3>3, <3>4, PassSet
  <2>1. TypeOK'
    BY <1>p, <1>e, <1>g, <2>a, <2>b, <2>d, <1>0 DEF TypeOK
  <2>2. \A u \in Tasks \ {t} : Same(u)
    BY <1>p, <1>e, <1>g, <2>a, <2>b, <2>d, <1>0 DEF Same
  <2>3. OrdinaryMove(t)
    BY <1>p, <1>e, <1>g, <2>a, <2>b, <2>d, <1>0 DEF OrdinaryMove, State, Active,
         Terminal, Machine!Edges
  <2>4. Absent(t)'
    BY <1>p, <1>e, <1>g, <2>a, <2>b, <2>d, <1>0 DEF Absent
  <2>5. Publishes(t)'
    BY <1>p, <1>e, <1>g, <2>a, <2>b, <2>d, <1>0 DEF Publishes, TaskInv, State
  <2>6. Stands(t)'
    BY <1>p, <1>e, <1>g, <2>a, <2>b, <2>d, <1>0 DEF Stands, TaskInv
  <2>7. Once(t)'
    BY <1>p, <1>e, <1>g, <2>a, <2>b, <2>d, <1>0 DEF Once, TaskInv, TypeOK
  <2>8. count' = count /\ \A g \in Triggers : trig'[g].at = "run" => trig'[g].task \in 1..count
    BY <1>p, <1>e, <1>g, <2>a, <2>b, <2>d, <1>0 DEF RowInv
  <2> QED
    BY <2>1, <2>2, <2>3, <2>4, <2>5, <2>6, <2>7, <2>8, OneRow DEF TaskInv
<1>n. CASE UNCHANGED answers /\ op' = [op EXCEPT ![t].replies = @ \ {m}]
  <2>a. UNCHANGED <<count, task, cycle, ledger, replied, queue, trig, poll,
       recovering, change, posted, answers, published, broken, left>>
    BY <1>n DEF Reply, vars, dbVars, outVars, histVars
  <2>d. op' \in [Tasks -> Passes] /\ (\A u \in Tasks \ {t} : op'[u] = op[u])
        /\ op'[t].at = "replies" /\ op'[t].ps = op[t].ps /\ op'[t].sent = op[t].sent
    <3> DEFINE p == [op[t] EXCEPT !.replies = @ \ {m}]
    <3>1. op[t] \in Passes
      BY <1>0, Typed
    <3>2. op[t].replies \ {m} \in SUBSET Messages
      BY <1>0, <3>1, <1>e DEF Passes
    <3>3. p \in Passes /\ p.at = "replies" /\ p.ps = op[t].ps /\ p.sent = op[t].sent
      BY <1>e, <3>1, <3>2 DEF Passes
    <3>4. op' = [op EXCEPT ![t] = p]
      BY <1>0, <1>n DEF TypeOK
    <3> HIDE DEF p
    <3> QED
      BY <1>0, <3>3, <3>4, PassSet
  <2>1. TypeOK'
    BY <1>p, <1>e, <2>a, <2>d, <1>0 DEF TypeOK
  <2>2. \A u \in Tasks \ {t} : Same(u)
    BY <1>p, <1>e, <2>a, <2>d, <1>0 DEF Same
  <2>3. OrdinaryMove(t)
    BY <1>p, <1>e, <2>a, <2>d, <1>0 DEF OrdinaryMove, State, Active, Terminal,
         Machine!Edges
  <2>4. Absent(t)'
    BY <1>p, <1>e, <2>a, <2>d, <1>0 DEF Absent
  <2>5. Publishes(t)'
    BY <1>p, <1>e, <2>a, <2>d, <1>0 DEF Publishes, TaskInv, State
  <2>6. Stands(t)'
    BY <1>p, <1>e, <2>a, <2>d, <1>0 DEF Stands, TaskInv
  <2>7. Once(t)'
    BY <1>p, <1>e, <2>a, <2>d, <1>0 DEF Once, TaskInv, TypeOK
  <2>8. count' = count /\ \A g \in Triggers : trig'[g].at = "run" => trig'[g].task \in 1..count
    BY <1>p, <1>e, <2>a, <2>d, <1>0 DEF RowInv
  <2> QED
    BY <2>1, <2>2, <2>3, <2>4, <2>5, <2>6, <2>7, <2>8, OneRow DEF TaskInv
<1> QED
  BY <1>m, <1>n DEF Reply

\* The replies are recorded.
LEMMA RecordRepliesIInv ==
  ASSUME NEW t \in Tasks, IInv, RecordReplies(t)
  PROVE  IInv' /\ Kept
<1>. USE ReviewAssumption
<1>0. TypeOK /\ TaskInv(t) /\ RowInv /\ IInv
  BY DEF IInv
<1>p. ~(t > count)
  BY <1>0 DEF RecordReplies, TaskInv, Absent
<1>e. op[t].at = "replies" /\ op[t] \in Passes /\ op[t].sent \subseteq Messages
  BY <1>0, Typed DEF RecordReplies, TaskInv, Stands
<1>m. CASE StillActive(t) \/ op[t].sent = {}
  <2>a. UNCHANGED <<count, task, cycle, ledger, queue, trig, poll, recovering, change,
       posted, answers, published, broken, left>>
    BY <1>m DEF RecordReplies, vars, dbVars, outVars, histVars
  <2>b. /\ replied' \in [Tasks -> SUBSET Messages] /\ \A u \in Tasks \ {t} : replied'[u] = replied[u]
        /\ replied'[t] = replied[t] \cup op[t].sent
    <3>1. replied' = [replied EXCEPT ![t] = replied[t] \cup op[t].sent]
      BY <1>0, <1>m DEF RecordReplies, TypeOK
    <3>2. replied[t] \cup op[t].sent \in SUBSET Messages
      BY <1>0, <1>e DEF TypeOK
    <3> QED
      BY <1>0, <3>1, <3>2 DEF TypeOK
  <2>d. op' \in [Tasks -> Passes] /\ (\A u \in Tasks \ {t} : op'[u] = op[u])
        /\ op'[t].at = "finish" /\ op'[t].ps = op[t].ps /\ op'[t].sent = {}
    <3> DEFINE p == [op[t] EXCEPT !.at = "finish", !.sent = {}]
    <3>1. op[t] \in Passes
      BY <1>0, Typed
    <3>2. {} \in SUBSET (Findings \cup Messages)
      BY <1>0, <3>1 DEF Passes
    <3>3. p \in Passes /\ p.at = "finish" /\ p.ps = op[t].ps /\ p.sent = {}
      BY <3>1, <3>2 DEF Passes
    <3>4. op' = [op EXCEPT ![t] = p]
      BY <1>0, <1>m DEF RecordReplies, TypeOK
    <3> HIDE DEF p
    <3> QED
      BY <1>0, <3>3, <3>4, PassSet
  <2>1. TypeOK'
    BY <1>p, <1>e, <2>a, <2>b, <2>d, <1>0 DEF TypeOK
  <2>2. \A u \in Tasks \ {t} : Same(u)
    BY <1>p, <1>e, <2>a, <2>b, <2>d, <1>0 DEF Same
  <2>3. OrdinaryMove(t)
    BY <1>p, <1>e, <2>a, <2>b, <2>d, <1>0 DEF OrdinaryMove, State, Active, Terminal,
         Machine!Edges
  <2>4. Absent(t)'
    BY <1>p, <1>e, <2>a, <2>b, <2>d, <1>0 DEF Absent
  <2>5. Publishes(t)'
    BY <1>p, <1>e, <2>a, <2>b, <2>d, <1>0 DEF Publishes, TaskInv, State
  <2>6. Stands(t)'
    BY <1>p, <1>e, <2>a, <2>b, <2>d, <1>0 DEF Stands, TaskInv
  <2>7. Once(t)'
    BY <1>p, <1>e, <2>a, <2>b, <2>d, <1>0 DEF Once, TaskInv, TypeOK
  <2>8. count' = count /\ \A g \in Triggers : trig'[g].at = "run" => trig'[g].task \in 1..count
    BY <1>p, <1>e, <2>a, <2>b, <2>d, <1>0 DEF RowInv
  <2> QED
    BY <2>1, <2>2, <2>3, <2>4, <2>5, <2>6, <2>7, <2>8, OneRow DEF TaskInv
<1>n. CASE ~(StillActive(t) \/ op[t].sent = {})
    BY <1>0, <1>n, Exits DEF RecordReplies, vars, dbVars, outVars, histVars
<1> QED
  BY <1>m, <1>n

\* The patchset is reviewed.
LEMMA SetReviewedIInv ==
  ASSUME NEW t \in Tasks, IInv, SetReviewed(t)
  PROVE  IInv' /\ Kept
<1>. USE ReviewAssumption
<1>0. TypeOK /\ TaskInv(t) /\ RowInv /\ IInv
  BY DEF IInv
<1>p. ~(t > count)
  BY <1>0 DEF SetReviewed, TaskInv, Absent
<1>e. op[t].at = "finish" /\ op[t] \in Passes /\ op[t].ps # 0 /\ op[t].ps \in published[t]
  BY <1>0, Typed DEF SetReviewed, TaskInv, Publishes
<1>m. CASE StillActive(t)
  <2>a. UNCHANGED <<count, cycle, ledger, replied, queue, trig, poll, recovering,
       change, posted, answers, published, broken, left>>
    BY <1>m DEF SetReviewed, vars, dbVars, outVars, histVars
  <2>b. /\ task' \in [Tasks -> Rows] /\ \A u \in Tasks \ {t} : task'[u] = task[u]
        /\ task'[t].state = task[t].state /\ task'[t].reviewed = op[t].ps
    <3> DEFINE r == [task[t] EXCEPT !.reviewed = op[t].ps]
    <3>0. op[t].ps \in 0..MaxPatchset /\ task[t] \in Rows
      BY <1>0, <1>e, Typed DEF Passes
    <3>1. r \in Rows /\ r.state = task[t].state /\ r.reviewed = op[t].ps
      BY <3>0 DEF Rows
    <3>2. task' = [task EXCEPT ![t] = r]
      BY <1>0, <1>m DEF SetReviewed, TypeOK
    <3> HIDE DEF r
    <3> QED
      BY <1>0, <3>1, <3>2, RowSet
  <2>d. /\ op' \in [Tasks -> Passes] /\ \A u \in Tasks \ {t} : op'[u] = op[u]
        /\ op'[t].at = "save" /\ op'[t].ps = op[t].ps /\ op'[t].sent = op[t].sent
    BY <1>0, <1>m, GotoEffect DEF SetReviewed
  <2>1. TypeOK'
    BY <1>p, <1>e, <2>a, <2>b, <2>d, <1>0 DEF TypeOK
  <2>2. \A u \in Tasks \ {t} : Same(u)
    BY <1>p, <1>e, <2>a, <2>b, <2>d, <1>0 DEF Same
  <2>3. OrdinaryMove(t)
    BY <1>p, <1>e, <2>a, <2>b, <2>d, <1>0 DEF OrdinaryMove, State, Active, Terminal,
         Machine!Edges
  <2>4. Absent(t)'
    BY <1>p, <1>e, <2>a, <2>b, <2>d, <1>0 DEF Absent
  <2>5. Publishes(t)'
    BY <1>p, <1>e, <2>a, <2>b, <2>d, <1>0 DEF Publishes, TaskInv, State
  <2>6. Stands(t)'
    BY <1>p, <1>e, <2>a, <2>b, <2>d, <1>0 DEF Stands, TaskInv
  <2>7. Once(t)'
    BY <1>p, <1>e, <2>a, <2>b, <2>d, <1>0 DEF Once, TaskInv, TypeOK
  <2>8. count' = count /\ \A g \in Triggers : trig'[g].at = "run" => trig'[g].task \in 1..count
    BY <1>p, <1>e, <2>a, <2>b, <2>d, <1>0 DEF RowInv
  <2> QED
    BY <2>1, <2>2, <2>3, <2>4, <2>5, <2>6, <2>7, <2>8, OneRow DEF TaskInv
<1>n. CASE ~(StillActive(t))
    BY <1>0, <1>n, Exits DEF SetReviewed, vars, dbVars, outVars, histVars
<1> QED
  BY <1>m, <1>n

\* The cycle is complete.
LEMMA SaveCycleIInv ==
  ASSUME NEW t \in Tasks, IInv, SaveCycle(t)
  PROVE  IInv' /\ Kept
<1>. USE ReviewAssumption
<1>0. TypeOK /\ TaskInv(t) /\ RowInv /\ IInv
  BY DEF IInv
<1>p. ~(t > count)
  BY <1>0 DEF SaveCycle, TaskInv, Absent
<1>e. op[t].at = "save" /\ op[t] \in Passes /\ op[t].ps # 0
  BY <1>0, Typed DEF SaveCycle, TaskInv, Publishes
<1>a. UNCHANGED <<count, task, ledger, replied, queue, trig, poll, recovering, change,
     posted, answers, published, broken, left>>
  BY DEF SaveCycle, vars, dbVars, outVars, histVars
<1>c. /\ cycle' \in [Tasks -> Cycles] /\ \A u \in Tasks \ {t} : cycle'[u] = cycle[u]
      /\ cycle'[t].result = "success" /\ cycle'[t].ps = op[t].ps
  <2>1. op[t].ps \in 0..MaxPatchset
    BY <1>0, Typed DEF Passes
  <2> QED
    BY <1>0, <1>e, <2>1, SaveEffect DEF SaveCycle
<1>d. /\ op' \in [Tasks -> Passes] /\ \A u \in Tasks \ {t} : op'[u] = op[u]
      /\ op'[t].at = "refresh" /\ op'[t].ps = op[t].ps /\ op'[t].sent = op[t].sent
  BY <1>0, <1>e, GotoEffect DEF SaveCycle
<1>1. TypeOK'
  BY <1>p, <1>a, <1>c, <1>d, <1>e, <1>0 DEF TypeOK
<1>2. \A u \in Tasks \ {t} : Same(u)
  BY <1>p, <1>a, <1>c, <1>d, <1>e, <1>0 DEF Same
<1>3. OrdinaryMove(t)
  BY <1>p, <1>a, <1>c, <1>d, <1>e, <1>0 DEF OrdinaryMove, State, Active, Terminal,
       Machine!Edges
<1>4. Absent(t)'
  BY <1>p, <1>a, <1>c, <1>d, <1>e, <1>0 DEF Absent
<1>5. Publishes(t)'
  BY <1>p, <1>a, <1>c, <1>d, <1>e, <1>0 DEF Publishes, TaskInv, State
<1>6. Stands(t)'
  BY <1>p, <1>a, <1>c, <1>d, <1>e, <1>0 DEF Stands, TaskInv
<1>7. Once(t)'
  BY <1>p, <1>a, <1>c, <1>d, <1>e, <1>0 DEF Once, TaskInv, TypeOK
<1>8. count' = count /\ \A g \in Triggers : trig'[g].at = "run" => trig'[g].task \in 1..count
  BY <1>p, <1>a, <1>c, <1>d, <1>e, <1>0 DEF RowInv
<1> QED
  BY <1>1, <1>2, <1>3, <1>4, <1>5, <1>6, <1>7, <1>8, OneRow DEF TaskInv

\* The task watches its change, or ends with it.
LEMMA FinishPassIInv ==
  ASSUME NEW t \in Tasks, IInv, FinishPass(t)
  PROVE  IInv' /\ Kept
<1>. USE ReviewAssumption
<1>0. TypeOK /\ TaskInv(t) /\ RowInv /\ IInv
  BY DEF IInv
<1>p. ~(t > count)
  BY <1>0 DEF FinishPass, TaskInv, Absent
<1>e. op[t].at = "refresh" /\ task[t].reviewed # 0
  BY <1>0 DEF FinishPass, TaskInv, Publishes
<1>m. CASE Legal(t, Watched)
  <2>a. UNCHANGED <<count, cycle, ledger, replied, queue, trig, poll, recovering,
       change, posted, answers, published, broken, left>>
    BY <1>m DEF FinishPass, vars, dbVars, outVars, histVars
  <2>b. /\ task' \in [Tasks -> Rows] /\ \A u \in Tasks \ {t} : task'[u] = task[u]
        /\ task'[t].state = Watched /\ task'[t].reviewed = task[t].reviewed
    <3>1. Watched \in Active \cup Terminal
      BY DEF Active, Terminal, Watched
    <3> QED
      BY <1>0, <1>m, <3>1, MoveEffect DEF FinishPass
  <2>d. /\ op' \in [Tasks -> Passes] /\ \A u \in Tasks \ {t} : op'[u] = op[u]
        /\ op'[t].at = "idle"
    BY <1>0, <1>m, StopEffect DEF FinishPass
  <2>e. OrdinaryMove(t)
    BY <1>m, <2>b DEF OrdinaryMove, State, Legal, Machine!Legal
  <2>1. TypeOK'
    BY <1>p, <1>e, <2>a, <2>b, <2>d, <1>0 DEF TypeOK
  <2>2. \A u \in Tasks \ {t} : Same(u)
    BY <1>p, <1>e, <2>a, <2>b, <2>d, <1>0 DEF Same
  <2>3. OrdinaryMove(t)
    BY <2>e
  <2>4. Absent(t)'
    BY <1>p, <1>e, <2>a, <2>b, <2>d, <1>0 DEF Absent
  <2>5. Publishes(t)'
    BY <1>p, <1>e, <2>a, <2>b, <2>d, <1>0 DEF Publishes, TaskInv, State
  <2>6. Stands(t)'
    BY <1>p, <1>e, <2>a, <2>b, <2>d, <1>0 DEF Stands, TaskInv
  <2>7. Once(t)'
    BY <1>p, <1>e, <2>a, <2>b, <2>d, <1>0 DEF Once, TaskInv, TypeOK
  <2>8. count' = count /\ \A g \in Triggers : trig'[g].at = "run" => trig'[g].task \in 1..count
    BY <1>p, <1>e, <2>a, <2>b, <2>d, <1>0 DEF RowInv
  <2> QED
    BY <2>1, <2>2, <2>3, <2>4, <2>5, <2>6, <2>7, <2>8, OneRow DEF TaskInv
<1>n. CASE ~(Legal(t, Watched))
    BY <1>0, <1>n, Exits DEF FinishPass, vars, dbVars, outVars, histVars
<1> QED
  BY <1>m, <1>n

\* A poll reads the status.
LEMMA PollReadsIInv ==
  ASSUME NEW t \in Tasks, IInv, PollReads(t)
  PROVE  IInv' /\ Kept
<1>. USE ReviewAssumption
<1>0. TypeOK /\ TaskInv(t) /\ RowInv /\ IInv
  BY DEF IInv
<1>p. ~(t > count)
  BY <1>0 DEF PollReads, TypeOK, Tasks
<1>a. UNCHANGED <<count, task, cycle, ledger, replied, queue, op, trig, recovering,
     change, posted, answers, published, broken, left>>
  BY DEF PollReads, vars, dbVars, outVars, histVars
<1>b. /\ poll' \in [Tasks -> {"none", "MERGED", "ABANDONED"}]
      /\ \A u \in Tasks \ {t} : poll'[u] = poll[u]
  <2>1. change.status \in {"MERGED", "ABANDONED"}
    BY <1>0 DEF PollReads, TypeOK
  <2> QED
    BY <1>0, <2>1 DEF PollReads, TypeOK
<1>1. TypeOK'
  BY <1>p, <1>a, <1>b, <1>0 DEF TypeOK
<1>2. \A u \in Tasks \ {t} : Same(u)
  BY <1>p, <1>a, <1>b, <1>0 DEF Same
<1>3. OrdinaryMove(t)
  BY <1>p, <1>a, <1>b, <1>0 DEF OrdinaryMove, State, Active, Terminal, Machine!Edges
<1>4. Absent(t)'
  BY <1>p, <1>a, <1>b, <1>0 DEF Absent
<1>5. Publishes(t)'
  BY <1>p, <1>a, <1>b, <1>0 DEF Publishes, TaskInv, State
<1>6. Stands(t)'
  BY <1>p, <1>a, <1>b, <1>0 DEF Stands, TaskInv
<1>7. Once(t)'
  BY <1>p, <1>a, <1>b, <1>0 DEF Once, TaskInv, TypeOK
<1>8. count' = count /\ \A g \in Triggers : trig'[g].at = "run" => trig'[g].task \in 1..count
  BY <1>p, <1>a, <1>b, <1>0 DEF RowInv
<1> QED
  BY <1>1, <1>2, <1>3, <1>4, <1>5, <1>6, <1>7, <1>8, OneRow DEF TaskInv

\* A poll acts on the status it has read.
LEMMA PollActsIInv ==
  ASSUME NEW t \in Tasks, IInv, PollActs(t)
  PROVE  IInv' /\ Kept
<1>. USE ReviewAssumption
<1>0. TypeOK /\ TaskInv(t) /\ RowInv /\ IInv
  BY DEF IInv
<1>p. ~(t > count)
  BY <1>0 DEF PollActs, TaskInv, Absent
<1>a. UNCHANGED <<count, cycle, ledger, replied, queue, op, trig, recovering, change,
     posted, answers, published, broken, left>>
  BY DEF PollActs, vars, dbVars, outVars, histVars
<1>b. /\ poll' \in [Tasks -> {"none", "MERGED", "ABANDONED"}]
      /\ \A u \in Tasks \ {t} : poll'[u] = poll[u]
  BY <1>0 DEF PollActs, TypeOK
<1>c. /\ task' \in [Tasks -> Rows] /\ \A u \in Tasks \ {t} : task'[u] = task[u]
      /\ task'[t].reviewed = task[t].reviewed /\ OrdinaryMove(t)
      /\ task'[t].state \in {task[t].state, "ABANDONED", "REVIEW_DONE"}
  <2>1. CASE task' = task
    BY <1>0, <2>1 DEF TypeOK, OrdinaryMove, State
  <2>2. CASE Move(t, "ABANDONED") /\ State(t) \notin Terminal
    <3>1. "ABANDONED" \in Active \cup Terminal
      BY DEF Active, Terminal
    <3>2. /\ task' \in [Tasks -> Rows] /\ \A u \in Tasks \ {t} : task'[u] = task[u]
          /\ task'[t].state = "ABANDONED" /\ task'[t].reviewed = task[t].reviewed
      BY <1>0, <2>2, <3>1, MoveEffect
    <3>3. OrdinaryMove(t)
      BY <2>2, <3>2 DEF OrdinaryMove, State, Legal, Machine!Legal, Machine!Edges
    <3> QED
      BY <3>2, <3>3
  <2>3. CASE Move(t, "REVIEW_DONE") /\ Legal(t, "REVIEW_DONE")
    <3>1. "REVIEW_DONE" \in Active \cup Terminal
      BY DEF Active, Terminal
    <3>2. /\ task' \in [Tasks -> Rows] /\ \A u \in Tasks \ {t} : task'[u] = task[u]
          /\ task'[t].state = "REVIEW_DONE" /\ task'[t].reviewed = task[t].reviewed
      BY <1>0, <2>3, <3>1, MoveEffect
    <3>3. OrdinaryMove(t)
      BY <2>3, <3>2 DEF OrdinaryMove, State, Legal, Machine!Legal, Machine!Edges
    <3> QED
      BY <3>2, <3>3
  <2> QED
    BY <2>1, <2>2, <2>3 DEF PollActs, Abandon
<1>1. TypeOK'
  BY <1>p, <1>a, <1>b, <1>c, <1>0 DEF TypeOK
<1>2. \A u \in Tasks \ {t} : Same(u)
  BY <1>p, <1>a, <1>b, <1>c, <1>0 DEF Same
<1>3. OrdinaryMove(t)
  BY <1>c
<1>4. Absent(t)'
  BY <1>p, <1>a, <1>b, <1>c, <1>0 DEF Absent
<1>5. Publishes(t)'
  BY <1>p, <1>a, <1>b, <1>c, <1>0 DEF Publishes, TaskInv, State
<1>6. Stands(t)'
  BY <1>p, <1>a, <1>b, <1>c, <1>0 DEF Stands, TaskInv
<1>7. Once(t)'
  BY <1>p, <1>a, <1>b, <1>c, <1>0 DEF Once, TaskInv, TypeOK
<1>8. count' = count /\ \A g \in Triggers : trig'[g].at = "run" => trig'[g].task \in 1..count
  BY <1>p, <1>a, <1>b, <1>c, <1>0 DEF RowInv
<1> QED
  BY <1>1, <1>2, <1>3, <1>4, <1>5, <1>6, <1>7, <1>8, OneRow DEF TaskInv

\* A webhook queues up.
LEMMA WebhookIInv ==
  ASSUME NEW t \in Tasks, IInv, Webhook(t)
  PROVE  IInv' /\ Kept
<1>. USE ReviewAssumption
<1>0. TypeOK /\ TaskInv(t) /\ RowInv /\ IInv
  BY DEF IInv
<1>p. ~(t > count)
  BY <1>0 DEF Webhook, TypeOK, Tasks
<1>a. UNCHANGED <<count, task, cycle, ledger, replied, op, trig, poll, recovering,
     change, posted, answers, published, broken, left>>
  BY DEF Webhook, vars, dbVars, outVars, histVars
<1>b. queue' \in [Tasks -> Seq(Items)] /\ \A u \in Tasks \ {t} : queue'[u] = queue[u]
  <2>1. [kind |-> change.status] \in Items
    BY <1>0 DEF Webhook, Items, TypeOK
  <2> QED
    BY <1>0, <2>1, EnqueueEffect DEF Webhook
<1>1. TypeOK'
  BY <1>p, <1>a, <1>b, <1>0 DEF TypeOK
<1>2. \A u \in Tasks \ {t} : Same(u)
  BY <1>p, <1>a, <1>b, <1>0 DEF Same
<1>3. OrdinaryMove(t)
  BY <1>p, <1>a, <1>b, <1>0 DEF OrdinaryMove, State, Active, Terminal, Machine!Edges
<1>4. Absent(t)'
  BY <1>p, <1>a, <1>b, <1>0 DEF Absent
<1>5. Publishes(t)'
  BY <1>p, <1>a, <1>b, <1>0 DEF Publishes, TaskInv, State
<1>6. Stands(t)'
  BY <1>p, <1>a, <1>b, <1>0 DEF Stands, TaskInv
<1>7. Once(t)'
  BY <1>p, <1>a, <1>b, <1>0 DEF Once, TaskInv, TypeOK
<1>8. count' = count /\ \A g \in Triggers : trig'[g].at = "run" => trig'[g].task \in 1..count
  BY <1>p, <1>a, <1>b, <1>0 DEF RowInv
<1> QED
  BY <1>1, <1>2, <1>3, <1>4, <1>5, <1>6, <1>7, <1>8, OneRow DEF TaskInv

\* A merge is noted.
LEMMA HandleMergedIInv ==
  ASSUME NEW t \in Tasks, IInv, HandleMerged(t)
  PROVE  IInv' /\ Kept
<1>. USE ReviewAssumption
<1>0. TypeOK /\ TaskInv(t) /\ RowInv /\ IInv
  BY DEF IInv
<1>p. ~(t > count)
  BY <1>0 DEF HandleMerged, TaskInv, Absent
<1>a. UNCHANGED <<count, cycle, ledger, replied, op, trig, poll, recovering, change,
     posted, answers, published, broken, left>>
  BY DEF HandleMerged, vars, dbVars, outVars, histVars
<1>b. queue' \in [Tasks -> Seq(Items)] /\ \A u \in Tasks \ {t} : queue'[u] = queue[u]
  BY <1>0, TailEffect DEF HandleMerged
<1>c. /\ task' \in [Tasks -> Rows] /\ \A u \in Tasks \ {t} : task'[u] = task[u]
      /\ task'[t].reviewed = task[t].reviewed /\ OrdinaryMove(t)
      /\ task'[t].state \in {task[t].state, "REVIEW_DONE"}
  <2>1. CASE task' = task
    BY <1>0, <2>1 DEF TypeOK, OrdinaryMove, State
  <2>2. CASE Move(t, "REVIEW_DONE") /\ State(t) = "REVIEW_WATCHING"
    <3>1. "REVIEW_DONE" \in Active \cup Terminal
      BY DEF Active, Terminal
    <3>2. /\ task' \in [Tasks -> Rows] /\ \A u \in Tasks \ {t} : task'[u] = task[u]
          /\ task'[t].state = "REVIEW_DONE" /\ task'[t].reviewed = task[t].reviewed
      BY <1>0, <2>2, <3>1, MoveEffect
    <3>3. OrdinaryMove(t)
      BY <2>2, <3>2 DEF OrdinaryMove, State, Legal, Machine!Legal, Machine!Edges
    <3> QED
      BY <3>2, <3>3
  <2> QED
    BY <2>1, <2>2 DEF HandleMerged
<1>1. TypeOK'
  BY <1>p, <1>a, <1>b, <1>c, <1>0 DEF TypeOK
<1>2. \A u \in Tasks \ {t} : Same(u)
  BY <1>p, <1>a, <1>b, <1>c, <1>0 DEF Same
<1>3. OrdinaryMove(t)
  BY <1>c
<1>4. Absent(t)'
  BY <1>p, <1>a, <1>b, <1>c, <1>0 DEF Absent
<1>5. Publishes(t)'
  BY <1>p, <1>a, <1>b, <1>c, <1>0 DEF Publishes, TaskInv, State
<1>6. Stands(t)'
  BY <1>p, <1>a, <1>b, <1>c, <1>0 DEF Stands, TaskInv
<1>7. Once(t)'
  BY <1>p, <1>a, <1>b, <1>c, <1>0 DEF Once, TaskInv, TypeOK
<1>8. count' = count /\ \A g \in Triggers : trig'[g].at = "run" => trig'[g].task \in 1..count
  BY <1>p, <1>a, <1>b, <1>c, <1>0 DEF RowInv
<1> QED
  BY <1>1, <1>2, <1>3, <1>4, <1>5, <1>6, <1>7, <1>8, OneRow DEF TaskInv

\* An abandonment is carried out.
LEMMA HandleAbandonedIInv ==
  ASSUME NEW t \in Tasks, IInv, HandleAbandoned(t)
  PROVE  IInv' /\ Kept
<1>. USE ReviewAssumption
<1>0. TypeOK /\ TaskInv(t) /\ RowInv /\ IInv
  BY DEF IInv
<1>p. ~(t > count)
  BY <1>0 DEF HandleAbandoned, TaskInv, Absent
<1>a. UNCHANGED <<count, cycle, ledger, replied, op, trig, poll, recovering, change,
     posted, answers, published, broken, left>>
  BY DEF HandleAbandoned, vars, dbVars, outVars, histVars
<1>b. queue' \in [Tasks -> Seq(Items)] /\ \A u \in Tasks \ {t} : queue'[u] = queue[u]
  BY <1>0, TailEffect DEF HandleAbandoned
<1>c. /\ task' \in [Tasks -> Rows] /\ \A u \in Tasks \ {t} : task'[u] = task[u]
      /\ task'[t].reviewed = task[t].reviewed /\ OrdinaryMove(t)
      /\ task'[t].state \in {task[t].state, "ABANDONED"}
  <2>1. CASE task' = task
    BY <1>0, <2>1 DEF TypeOK, OrdinaryMove, State
  <2>2. CASE Move(t, "ABANDONED") /\ State(t) \notin Terminal
    <3>1. "ABANDONED" \in Active \cup Terminal
      BY DEF Active, Terminal
    <3>2. /\ task' \in [Tasks -> Rows] /\ \A u \in Tasks \ {t} : task'[u] = task[u]
          /\ task'[t].state = "ABANDONED" /\ task'[t].reviewed = task[t].reviewed
      BY <1>0, <2>2, <3>1, MoveEffect
    <3>3. OrdinaryMove(t)
      BY <2>2, <3>2 DEF OrdinaryMove, State, Legal, Machine!Legal, Machine!Edges
    <3> QED
      BY <3>2, <3>3
  <2> QED
    BY <2>1, <2>2 DEF HandleAbandoned, Abandon
<1>1. TypeOK'
  BY <1>p, <1>a, <1>b, <1>c, <1>0 DEF TypeOK
<1>2. \A u \in Tasks \ {t} : Same(u)
  BY <1>p, <1>a, <1>b, <1>c, <1>0 DEF Same
<1>3. OrdinaryMove(t)
  BY <1>c
<1>4. Absent(t)'
  BY <1>p, <1>a, <1>b, <1>c, <1>0 DEF Absent
<1>5. Publishes(t)'
  BY <1>p, <1>a, <1>b, <1>c, <1>0 DEF Publishes, TaskInv, State
<1>6. Stands(t)'
  BY <1>p, <1>a, <1>b, <1>c, <1>0 DEF Stands, TaskInv
<1>7. Once(t)'
  BY <1>p, <1>a, <1>b, <1>c, <1>0 DEF Once, TaskInv, TypeOK
<1>8. count' = count /\ \A g \in Triggers : trig'[g].at = "run" => trig'[g].task \in 1..count
  BY <1>p, <1>a, <1>b, <1>c, <1>0 DEF RowInv
<1> QED
  BY <1>1, <1>2, <1>3, <1>4, <1>5, <1>6, <1>7, <1>8, OneRow DEF TaskInv

\* The operator abandons the task.
LEMMA AbandonTaskIInv ==
  ASSUME NEW t \in Tasks, IInv, AbandonTask(t)
  PROVE  IInv' /\ Kept
<1>. USE ReviewAssumption
<1>0. TypeOK /\ TaskInv(t) /\ RowInv /\ IInv
  BY DEF IInv
<1>p. ~(t > count)
  BY <1>0 DEF AbandonTask, TypeOK, Tasks
<1>a. UNCHANGED <<count, task, cycle, ledger, replied, trig, poll, recovering, change,
     posted, answers, published, broken>>
  BY DEF AbandonTask, vars, dbVars, outVars, histVars
<1>b. queue' \in [Tasks -> Seq(Items)] /\ \A u \in Tasks \ {t} : queue'[u] = queue[u]
  <2>1. [kind |-> "ABANDONED"] \in Items
    BY DEF Items
  <2> QED
    BY <1>0, <2>1, EnqueueEffect DEF AbandonTask
<1>c. left' \in [trigger : Nat, event : Nat]
  <2>1. left \in [trigger : Nat, event : Nat] /\ left.event > 0
    BY <1>0 DEF TypeOK, AbandonTask
  <2>2. left' = [left EXCEPT !.event = left.event - 1]
    BY DEF AbandonTask
  <2> QED
    BY <2>1, <2>2
<1>d. /\ op' \in [Tasks -> Passes] /\ \A u \in Tasks \ {t} : op'[u] = op[u]
      /\ op'[t].at = op[t].at /\ op'[t].ps = op[t].ps /\ op'[t].sent = op[t].sent
      /\ op'[t].new = op[t].new /\ op'[t].fixed = op[t].fixed
  <2> DEFINE p == [op[t] EXCEPT !.aborted = TRUE]
  <2>1. op[t] \in Passes
    BY <1>0, Typed
  <2>2. p \in Passes /\ p.at = op[t].at /\ p.ps = op[t].ps /\ p.sent = op[t].sent
        /\ p.new = op[t].new /\ p.fixed = op[t].fixed
    BY <2>1 DEF Passes
  <2>3. op' = op \/ op' = [op EXCEPT ![t] = p]
    BY <1>0 DEF AbandonTask, TypeOK
  <2> HIDE DEF p
  <2>4. CASE op' = op
    BY <1>0, <2>4 DEF TypeOK
  <2>5. CASE op' = [op EXCEPT ![t] = p]
    BY <1>0, <2>2, <2>5, PassSet
  <2> QED
    BY <2>3, <2>4, <2>5
<1>1. TypeOK'
  BY <1>p, <1>a, <1>b, <1>c, <1>d, <1>0 DEF TypeOK
<1>2. \A u \in Tasks \ {t} : Same(u)
  BY <1>p, <1>a, <1>b, <1>c, <1>d, <1>0 DEF Same
<1>3. OrdinaryMove(t)
  BY <1>p, <1>a, <1>b, <1>c, <1>d, <1>0 DEF OrdinaryMove, State, Active, Terminal,
       Machine!Edges
<1>4. Absent(t)'
  BY <1>p, <1>a, <1>b, <1>c, <1>d, <1>0 DEF Absent
<1>5. Publishes(t)'
  BY <1>p, <1>a, <1>b, <1>c, <1>d, <1>0 DEF Publishes, TaskInv, State
<1>6. Stands(t)'
  BY <1>p, <1>a, <1>b, <1>c, <1>d, <1>0 DEF Stands, TaskInv
<1>7. Once(t)'
  BY <1>p, <1>a, <1>b, <1>c, <1>d, <1>0 DEF Once, TaskInv, TypeOK
<1>8. count' = count /\ \A g \in Triggers : trig'[g].at = "run" => trig'[g].task \in 1..count
  BY <1>p, <1>a, <1>b, <1>c, <1>d, <1>0 DEF RowInv
<1> QED
  BY <1>1, <1>2, <1>3, <1>4, <1>5, <1>6, <1>7, <1>8, OneRow DEF TaskInv

\* A restart looks at a task.
LEMMA RecoverIInv ==
  ASSUME NEW t \in Tasks, IInv, Recover(t)
  PROVE  IInv' /\ Kept
<1>. USE ReviewAssumption
<1>0. TypeOK /\ TaskInv(t) /\ RowInv /\ IInv
  BY DEF IInv
<1>p. ~(t > count)
  BY <1>0 DEF Recover, TaskInv, Absent
<1>a. UNCHANGED <<count, cycle, ledger, replied, op, trig, poll, change, posted,
     answers, published, broken, left>>
  BY DEF Recover, vars, dbVars, outVars, histVars
<1>b. queue' \in [Tasks -> Seq(Items)] /\ \A u \in Tasks \ {t} : queue'[u] = queue[u]
  <2>1. CASE queue' = queue
    BY <1>0, <2>1 DEF TypeOK
  <2>2. CASE Enqueue(t, [kind |-> "pass", resume |-> State(t) = "REVIEW_RUNNING"])
    <3>1. (State(t) = "REVIEW_RUNNING") \in BOOLEAN
      OBVIOUS
    <3>2. [kind |-> "pass", resume |-> State(t) = "REVIEW_RUNNING"] \in Items
      BY <3>1 DEF Items
    <3> QED
      BY <1>0, <2>2, <3>2, EnqueueEffect
  <2> QED
    BY <2>1, <2>2 DEF Recover
<1>d. /\ recovering' \in [Tasks -> {"no", "boot", "start", "refresh"}]
      /\ \A u \in Tasks \ {t} : recovering'[u] = recovering[u]
      /\ recovering'[t] = "refresh" => Completed(t)
  BY <1>0 DEF Recover, TypeOK
<1>e. Completed(t) => task[t].reviewed # 0
  BY <1>0 DEF Completed, TaskInv, Publishes
<1>c. /\ task' \in [Tasks -> Rows] /\ \A u \in Tasks \ {t} : task'[u] = task[u]
      /\ task'[t].reviewed = task[t].reviewed /\ OrdinaryMove(t)
      /\ task'[t].state \in {task[t].state, "REVIEW_DONE", "REVIEW_FAILED"}
  <2>1. CASE task' = task
    BY <1>0, <2>1 DEF TypeOK, OrdinaryMove, State
  <2>2. CASE Move(t, "REVIEW_DONE") /\ State(t) = "REVIEW_COMMENTING"
    <3>1. "REVIEW_DONE" \in Active \cup Terminal
      BY DEF Active, Terminal
    <3>2. /\ task' \in [Tasks -> Rows] /\ \A u \in Tasks \ {t} : task'[u] = task[u]
          /\ task'[t].state = "REVIEW_DONE" /\ task'[t].reviewed = task[t].reviewed
      BY <1>0, <2>2, <3>1, MoveEffect
    <3>3. OrdinaryMove(t)
      BY <2>2, <3>2 DEF OrdinaryMove, State, Legal, Machine!Legal, Machine!Edges
    <3> QED
      BY <3>2, <3>3
  <2>3. CASE Move(t, "REVIEW_FAILED") /\ State(t) = "REVIEW_COMMENTING"
    <3>1. "REVIEW_FAILED" \in Active \cup Terminal
      BY DEF Active, Terminal
    <3>2. /\ task' \in [Tasks -> Rows] /\ \A u \in Tasks \ {t} : task'[u] = task[u]
          /\ task'[t].state = "REVIEW_FAILED" /\ task'[t].reviewed = task[t].reviewed
      BY <1>0, <2>3, <3>1, MoveEffect
    <3>3. OrdinaryMove(t)
      BY <2>3, <3>2 DEF OrdinaryMove, State, Legal, Machine!Legal, Machine!Edges
    <3> QED
      BY <3>2, <3>3
  <2> QED
    BY <2>1, <2>2, <2>3 DEF Recover
<1>1. TypeOK'
  BY <1>p, <1>a, <1>b, <1>c, <1>d, <1>e, <1>0 DEF TypeOK
<1>2. \A u \in Tasks \ {t} : Same(u)
  BY <1>p, <1>a, <1>b, <1>c, <1>d, <1>e, <1>0 DEF Same
<1>3. OrdinaryMove(t)
  BY <1>c
<1>4. Absent(t)'
  BY <1>p, <1>a, <1>b, <1>c, <1>d, <1>e, <1>0 DEF Absent
<1>5. Publishes(t)'
  BY <1>p, <1>a, <1>b, <1>c, <1>d, <1>e, <1>0 DEF Publishes, TaskInv, State
<1>6. Stands(t)'
  BY <1>p, <1>a, <1>b, <1>c, <1>d, <1>e, <1>0 DEF Stands, TaskInv
<1>7. Once(t)'
  BY <1>p, <1>a, <1>b, <1>c, <1>d, <1>e, <1>0 DEF Once, TaskInv, TypeOK
<1>8. count' = count /\ \A g \in Triggers : trig'[g].at = "run" => trig'[g].task \in 1..count
  BY <1>p, <1>a, <1>b, <1>c, <1>d, <1>e, <1>0 DEF RowInv
<1> QED
  BY <1>1, <1>2, <1>3, <1>4, <1>5, <1>6, <1>7, <1>8, OneRow DEF TaskInv

\* The recovery knows the change.
LEMMA RecoverEndsIInv ==
  ASSUME NEW t \in Tasks, IInv, RecoverEnds(t)
  PROVE  IInv' /\ Kept
<1>. USE ReviewAssumption
<1>0. TypeOK /\ TaskInv(t) /\ RowInv /\ IInv
  BY DEF IInv
<1>p. ~(t > count)
  BY <1>0 DEF RecoverEnds, TaskInv, Absent
<1>a. UNCHANGED <<count, cycle, ledger, replied, queue, op, trig, poll, change,
     posted, answers, published, broken, left>>
  BY DEF RecoverEnds, vars, dbVars, outVars, histVars
<1>d. /\ recovering' \in [Tasks -> {"no", "boot", "start", "refresh"}]
      /\ \A u \in Tasks \ {t} : recovering'[u] = recovering[u]
      /\ recovering'[t] = "no"
  BY <1>0 DEF RecoverEnds, TypeOK
<1>e. task[t].reviewed # 0
  BY <1>0 DEF RecoverEnds, TaskInv, Publishes
<1>c. /\ task' \in [Tasks -> Rows] /\ \A u \in Tasks \ {t} : task'[u] = task[u]
      /\ task'[t].reviewed = task[t].reviewed /\ OrdinaryMove(t)
      /\ task'[t].state \in {task[t].state, Watched}
  <2>1. CASE task' = task
    BY <1>0, <2>1 DEF TypeOK, OrdinaryMove, State
  <2>2. CASE Move(t, Watched) /\ Legal(t, Watched)
    <3>1. Watched \in Active \cup Terminal
      BY DEF Active, Terminal, Watched
    <3>2. /\ task' \in [Tasks -> Rows] /\ \A u \in Tasks \ {t} : task'[u] = task[u]
          /\ task'[t].state = Watched /\ task'[t].reviewed = task[t].reviewed
      BY <1>0, <2>2, <3>1, MoveEffect
    <3>3. OrdinaryMove(t)
      BY <2>2, <3>2 DEF OrdinaryMove, State, Legal, Machine!Legal, Machine!Edges
    <3> QED
      BY <3>2, <3>3
  <2> QED
    BY <2>1, <2>2 DEF RecoverEnds
<1>1. TypeOK'
  BY <1>p, <1>a, <1>c, <1>d, <1>e, <1>0 DEF TypeOK
<1>2. \A u \in Tasks \ {t} : Same(u)
  BY <1>p, <1>a, <1>c, <1>d, <1>e, <1>0 DEF Same
<1>3. OrdinaryMove(t)
  BY <1>c
<1>4. Absent(t)'
  BY <1>p, <1>a, <1>c, <1>d, <1>e, <1>0 DEF Absent
<1>5. Publishes(t)'
  BY <1>p, <1>a, <1>c, <1>d, <1>e, <1>0 DEF Publishes, TaskInv, State
<1>6. Stands(t)'
  BY <1>p, <1>a, <1>c, <1>d, <1>e, <1>0 DEF Stands, TaskInv
<1>7. Once(t)'
  BY <1>p, <1>a, <1>c, <1>d, <1>e, <1>0 DEF Once, TaskInv, TypeOK
<1>8. count' = count /\ \A g \in Triggers : trig'[g].at = "run" => trig'[g].task \in 1..count
  BY <1>p, <1>a, <1>c, <1>d, <1>e, <1>0 DEF RowInv
<1> QED
  BY <1>1, <1>2, <1>3, <1>4, <1>5, <1>6, <1>7, <1>8, OneRow DEF TaskInv

-----------------------------------------------------------------------------
\* A step of no row.
LEMMA NoRow ==
  ASSUME IInv, TypeOK', \A u \in Tasks : Same(u), count' = count,
         \A g \in Triggers : trig'[g].at = "run" => trig'[g].task \in 1..count
  PROVE  IInv' /\ Kept
<1>1. 1 \in Tasks
  BY ReviewAssumption DEF Tasks
<1>2. TaskInv(1)'
  BY <1>1, SameInv DEF IInv
<1>3. OrdinaryMove(1)
  BY <1>1 DEF Same, OrdinaryMove, State
<1> QED
  BY <1>1, <1>2, <1>3, OneRow

LEMMA CountTasks == ASSUME TypeOK PROVE 1..count \subseteq Tasks /\ count \in Nat
  BY ReviewAssumption DEF TypeOK, Tasks

LEMMA TrigSet ==
  ASSUME TypeOK, NEW g \in Triggers, NEW at \in {"idle", "evaluate", "run"},
         NEW ps \in 0..MaxPatchset, NEW force \in BOOLEAN, NEW t \in 0..NTasks,
         trig' = [trig EXCEPT ![g] = [at |-> at, ps |-> ps, force |-> force, task |-> t]]
  PROVE  /\ trig' \in [Triggers -> [at : {"idle", "evaluate", "run"}, ps : 0..MaxPatchset,
                                    force : BOOLEAN, task : 0..NTasks]]
         /\ trig'[g].at = at /\ trig'[g].task = t
         /\ \A h \in Triggers \ {g} : trig'[h] = trig[h]
  BY DEF TypeOK

LEMMA TriggerEndsEffect ==
  ASSUME TypeOK, NEW g \in Triggers, TriggerEnds(g)
  PROVE  /\ trig' \in [Triggers -> [at : {"idle", "evaluate", "run"}, ps : 0..MaxPatchset,
                                    force : BOOLEAN, task : 0..NTasks]]
         /\ trig'[g].at = "idle" /\ \A h \in Triggers \ {g} : trig'[h] = trig[h]
<1>1. 0 \in 0..MaxPatchset /\ 0 \in 0..NTasks
  BY ReviewAssumption
<1> QED
  BY <1>1, TrigSet DEF TriggerEnds, NoTrigger

LEMMA TriggerReturnsEffect ==
  ASSUME TypeOK, NEW g \in Triggers, NEW t \in 0..NTasks, TriggerReturns(g, t)
  PROVE  /\ trig' \in [Triggers -> [at : {"idle", "evaluate", "run"}, ps : 0..MaxPatchset,
                                    force : BOOLEAN, task : 0..NTasks]]
         /\ trig'[g].at = "run" /\ trig'[g].task = t
         /\ \A h \in Triggers \ {g} : trig'[h] = trig[h]
<1> DEFINE r == [trig[g] EXCEPT !.at = "run", !.task = t]
<1>1. trig[g] \in [at : {"idle", "evaluate", "run"}, ps : 0..MaxPatchset,
                   force : BOOLEAN, task : 0..NTasks]
  BY DEF TypeOK
<1>2. /\ r \in [at : {"idle", "evaluate", "run"}, ps : 0..MaxPatchset,
               force : BOOLEAN, task : 0..NTasks]
      /\ r.at = "run" /\ r.task = t
  BY <1>1
<1>3. trig' = [trig EXCEPT ![g] = r]
  BY DEF TriggerReturns, TypeOK
<1> HIDE DEF r
<1> QED
  BY <1>2, <1>3 DEF TypeOK

\* A trigger reads the change.
LEMMA TriggerReadsChangeIInv ==
  ASSUME NEW g \in Triggers, NEW force \in BOOLEAN, IInv, TriggerReadsChange(g, force)
  PROVE  IInv' /\ Kept
<1>. USE ReviewAssumption
<1>0. TypeOK /\ RowInv
  BY DEF IInv
<1>a. UNCHANGED <<count, task, cycle, ledger, replied, queue, op, poll, recovering,
     change, posted, answers, published, broken>>
  BY DEF TriggerReadsChange, vars, dbVars, outVars, histVars
<1>b. /\ trig' \in [Triggers -> [at : {"idle", "evaluate", "run"}, ps : 0..MaxPatchset,
                                 force : BOOLEAN, task : 0..NTasks]]
      /\ trig'[g].at = "evaluate" /\ \A h \in Triggers \ {g} : trig'[h] = trig[h]
  <2>1. change.ps \in 0..MaxPatchset /\ 0 \in 0..NTasks
    BY <1>0 DEF TypeOK
  <2> QED
    BY <1>0, <2>1, TrigSet DEF TriggerReadsChange
<1>c. left' \in [trigger : Nat, event : Nat]
  <2>1. left \in [trigger : Nat, event : Nat] /\ left.trigger > 0
    BY <1>0 DEF TypeOK, TriggerReadsChange
  <2>2. left' = [left EXCEPT !.trigger = left.trigger - 1]
    BY DEF TriggerReadsChange
  <2> QED
    BY <2>1, <2>2
<1>1. TypeOK'
  BY <1>0, <1>a, <1>b, <1>c DEF TypeOK
<1>2. \A u \in Tasks : Same(u)
  BY <1>a DEF Same
<1>3. \A h \in Triggers : trig'[h].at = "run" => trig'[h].task \in 1..count
  BY <1>0, <1>b DEF RowInv
<1> QED
  BY <1>1, <1>2, <1>3, <1>a, NoRow

\* A trigger's pass queues up.
LEMMA TriggerRunsIInv ==
  ASSUME NEW g \in Triggers, IInv, TriggerRuns(g)
  PROVE  IInv' /\ Kept
<1>. USE ReviewAssumption
<1>t. PICK t \in Tasks : t = trig[g].task /\ ~(t > count)
  BY CountTasks DEF IInv, RowInv, TriggerRuns
<1>0. TypeOK /\ TaskInv(t) /\ RowInv /\ IInv
  BY DEF IInv
<1>a. UNCHANGED <<count, task, cycle, ledger, replied, op, poll, recovering, change,
     posted, answers, published, broken, left>>
  BY DEF TriggerRuns, vars, dbVars, outVars, histVars
<1>b. queue' \in [Tasks -> Seq(Items)] /\ \A u \in Tasks \ {t} : queue'[u] = queue[u]
  <2>1. [kind |-> "pass", resume |-> FALSE] \in Items
    BY DEF Items
  <2> QED
    BY <1>0, <1>t, <2>1, EnqueueEffect DEF TriggerRuns
<1>c. /\ trig' \in [Triggers -> [at : {"idle", "evaluate", "run"}, ps : 0..MaxPatchset,
                                 force : BOOLEAN, task : 0..NTasks]]
      /\ trig'[g].at = "idle" /\ \A h \in Triggers \ {g} : trig'[h] = trig[h]
  BY <1>0, TriggerEndsEffect DEF TriggerRuns
<1>1. TypeOK'
  BY <1>a, <1>b, <1>c, <1>t, <1>0 DEF TypeOK
<1>2. \A u \in Tasks \ {t} : Same(u)
  BY <1>a, <1>b, <1>c, <1>t, <1>0 DEF Same
<1>3. OrdinaryMove(t)
  BY <1>a, <1>b, <1>c, <1>t, <1>0 DEF OrdinaryMove, State, Active, Terminal, Machine!Edges
<1>4. Absent(t)'
  BY <1>a, <1>b, <1>c, <1>t, <1>0 DEF Absent
<1>5. Publishes(t)'
  BY <1>a, <1>b, <1>c, <1>t, <1>0 DEF Publishes, TaskInv, State
<1>6. Stands(t)'
  BY <1>a, <1>b, <1>c, <1>t, <1>0 DEF Stands, TaskInv
<1>7. Once(t)'
  BY <1>a, <1>b, <1>c, <1>t, <1>0 DEF Once, TaskInv, TypeOK
<1>8. count' = count /\ \A h \in Triggers : trig'[h].at = "run" => trig'[h].task \in 1..count
  BY <1>a, <1>b, <1>c, <1>t, <1>0 DEF RowInv
<1> QED
  BY <1>1, <1>2, <1>3, <1>4, <1>5, <1>6, <1>7, <1>8, OneRow DEF TaskInv

\* A new row: every other row of the change has ended.
LEMMA NewRowIInv ==
  ASSUME NEW g \in Triggers, IInv, count + 1 \in Tasks, MayBeActive(count + 1),
         count' = count + 1, task' = [task EXCEPT ![count + 1] = NewRow(trig[g].ps)],
         TriggerReturns(g, count + 1),
         UNCHANGED <<cycle, ledger, replied, queue, op, poll, recovering, outVars, histVars, left>>
  PROVE  IInv' /\ Kept
<1>. USE ReviewAssumption
<1>n. PICK n \in Tasks : n = count + 1
  OBVIOUS
<1>0. TypeOK /\ RowInv /\ IInv /\ TaskInv(n) /\ count \in Nat /\ n \in Tasks /\ n \in 0..NTasks
  BY <1>n, CountTasks DEF IInv, Tasks
<1>a. UNCHANGED <<cycle, ledger, replied, queue, op, poll, recovering, change, posted,
                  answers, published, broken, left>>
  BY DEF outVars, histVars
<1>b. /\ task' \in [Tasks -> Rows] /\ \A u \in Tasks \ {n} : task'[u] = task[u]
      /\ task'[n].state = "REVIEW_PENDING" /\ task'[n].reviewed = 0
  <2>1. trig[g].ps \in 0..MaxPatchset /\ 0 \in 0..MaxPatchset /\ "REVIEW_PENDING" \in Active \cup Terminal
    BY <1>n, <1>0 DEF TypeOK, Active
  <2>2. NewRow(trig[g].ps) \in Rows
    BY <2>1 DEF NewRow, Rows
  <2>3. NewRow(trig[g].ps).state = "REVIEW_PENDING" /\ NewRow(trig[g].ps).reviewed = 0
    BY DEF NewRow
  <2> QED
    BY <1>n, <1>0, <2>2, <2>3, RowSet
<1>c. /\ trig' \in [Triggers -> [at : {"idle", "evaluate", "run"}, ps : 0..MaxPatchset,
                                 force : BOOLEAN, task : 0..NTasks]]
      /\ trig'[g].at = "run" /\ trig'[g].task = n /\ \A h \in Triggers \ {g} : trig'[h] = trig[h]
  BY <1>n, <1>0, TriggerReturnsEffect
<1>d. task[n].state = "REVIEW_PENDING" /\ op[n].at = "idle" /\ queue[n] = <<>>
      /\ poll[n] = "none" /\ recovering[n] \in {"no", "boot"}
  BY <1>n, <1>0 DEF TaskInv, Absent, State
<1>1. TypeOK'
  BY <1>n, <1>0, <1>a, <1>b, <1>c DEF TypeOK
<1>2. ASSUME NEW u \in Tasks \ {n} PROVE TaskInv(u)'
  <2>1. TaskInv(u)
    BY DEF IInv
  <2>2. Absent(u)'
    BY <1>n, <1>0, <1>a, <1>b, <2>1 DEF TaskInv, Absent, State, Tasks
  <2>3. Publishes(u)' /\ Stands(u)' /\ Once(u)'
    BY <1>n, <1>a, <1>b, <2>1 DEF TaskInv, Publishes, Stands, Once, State
  <2> QED
    BY <2>2, <2>3 DEF TaskInv
<1>3. TaskInv(n)'
  <2>1. TaskInv(n) /\ State(n)' # "REVIEW_WATCHING"
    BY <1>n, <1>0, <1>b DEF State
  <2>2. Absent(n)'
    BY <1>n, <1>0 DEF Absent
  <2>3. Publishes(n)'
    BY <1>n, <1>a, <1>b, <1>d, <2>1 DEF TaskInv, Publishes
  <2>4. Stands(n)' /\ Once(n)'
    BY <1>n, <1>a, <2>1 DEF TaskInv, Stands, Once
  <2> QED
    BY <2>2, <2>3, <2>4 DEF TaskInv
<1>4. \A u \in 1..count : State(u) \in Terminal
  BY <1>n, <1>0 DEF MayBeActive
<1>5. RowInv'
  <2>1. \A u \in 1..n : State(u)' \in Active => u = n
    <3>1. \A u \in 1..count : u \in Tasks \ {n}
      BY <1>n, <1>0, CountTasks
    <3>2. \A u \in 1..n : u # n => u \in 1..count
      BY <1>n, <1>0
    <3> QED
      BY <1>n, <1>b, <1>4, <3>1, <3>2 DEF State, Active, Terminal
  <2>2. \A h \in Triggers : trig'[h].at = "run" => trig'[h].task \in 1..n
    BY <1>n, <1>0, <1>c DEF RowInv
  <2> QED
    BY <1>n, <2>1, <2>2 DEF RowInv
<1>6. Kept
  BY <1>n, <1>b, <1>d DEF Kept
<1> QED
  BY <1>1, <1>2, <1>3, <1>5, <1>6 DEF IInv

\* A trigger acts on the newest row, or adds one.
LEMMA TriggerActsIInv ==
  ASSUME NEW g \in Triggers, IInv, TriggerActs(g)
  PROVE  IInv' /\ Kept
<1>. USE ReviewAssumption
<1>0. TypeOK /\ RowInv /\ IInv /\ count \in Nat /\ count \in 0..NTasks
  BY CountTasks DEF IInv, TypeOK
<1>a. UNCHANGED <<cycle, ledger, replied, queue, op, poll, recovering, change, posted,
                  answers, published, broken, left>>
  BY DEF TriggerActs, outVars, histVars
<1>1. CASE (TriggerEnds(g) \/ (TriggerReturns(g, count) /\ count # 0)) /\ UNCHANGED <<count, task>>
  <2>1. /\ trig' \in [Triggers -> [at : {"idle", "evaluate", "run"}, ps : 0..MaxPatchset,
                                   force : BOOLEAN, task : 0..NTasks]]
        /\ trig'[g].at = "run" => trig'[g].task = count /\ count # 0
        /\ \A h \in Triggers \ {g} : trig'[h] = trig[h]
    BY <1>0, <1>1, TriggerEndsEffect, TriggerReturnsEffect
  <2>2. TypeOK'
    BY <1>0, <1>1, <1>a, <2>1 DEF TypeOK
  <2>3. \A u \in Tasks : Same(u)
    BY <1>1, <1>a DEF Same
  <2>4. \A h \in Triggers : trig'[h].at = "run" => trig'[h].task \in 1..count
    BY <1>0, <2>1 DEF RowInv
  <2> QED
    BY <1>1, <2>2, <2>3, <2>4, NoRow
<1>2. CASE /\ TriggerEnds(g) \/ TriggerReturns(g, count)
           /\ count # 0 /\ task' = [task EXCEPT ![count].cur = trig[g].ps] /\ UNCHANGED count
  <2>t. PICK t \in Tasks : t = count
    BY <1>0, <1>2, CountTasks
  <2>0. t \in Tasks /\ ~(t > count) /\ TaskInv(t)
    BY <1>0, <2>t DEF IInv
  <2>1. /\ trig' \in [Triggers -> [at : {"idle", "evaluate", "run"}, ps : 0..MaxPatchset,
                                   force : BOOLEAN, task : 0..NTasks]]
        /\ trig'[g].at = "run" => trig'[g].task = count /\ count # 0
        /\ \A h \in Triggers \ {g} : trig'[h] = trig[h]
    BY <1>0, <1>2, TriggerEndsEffect, TriggerReturnsEffect
  <2>b. /\ task' \in [Tasks -> Rows] /\ \A u \in Tasks \ {t} : task'[u] = task[u]
        /\ task'[t].state = task[t].state /\ task'[t].reviewed = task[t].reviewed
    <3> DEFINE r == [task[t] EXCEPT !.cur = trig[g].ps]
    <3>1. trig[g].ps \in 0..MaxPatchset /\ task[t] \in Rows
      BY <1>0, <2>0, Typed DEF TypeOK
    <3>2. r \in Rows /\ r.state = task[t].state /\ r.reviewed = task[t].reviewed
      BY <3>1 DEF Rows
    <3>3. task' = [task EXCEPT ![t] = r]
      BY <1>0, <1>2, <2>t DEF TypeOK
    <3> HIDE DEF r
    <3> QED
      BY <1>0, <2>0, <3>2, <3>3, RowSet
  <2>2. TypeOK'
    BY <1>0, <1>2, <1>a, <2>1, <2>b DEF TypeOK
  <2>3. \A u \in Tasks \ {t} : Same(u)
    BY <1>a, <2>b DEF Same
  <2>4. \A h \in Triggers : trig'[h].at = "run" => trig'[h].task \in 1..count
    BY <1>0, <2>1 DEF RowInv
  <2>5. OrdinaryMove(t) /\ TaskInv(t)'
    BY <1>2, <1>a, <2>0, <2>b DEF OrdinaryMove, State, TaskInv, Absent, Publishes, Stands, Once
  <2> QED
    BY <1>0, <1>2, <2>0, <2>2, <2>3, <2>4, <2>5, OneRow
<1>3. CASE /\ count + 1 \in Tasks /\ MayBeActive(count + 1)
           /\ count' = count + 1 /\ task' = [task EXCEPT ![count + 1] = NewRow(trig[g].ps)]
           /\ TriggerReturns(g, count + 1)
  BY <1>3, NewRowIInv DEF TriggerActs
<1>4. \/ (TriggerEnds(g) \/ (TriggerReturns(g, count) /\ count # 0)) /\ UNCHANGED <<count, task>>
      \/ /\ TriggerEnds(g) \/ TriggerReturns(g, count)
         /\ count # 0 /\ task' = [task EXCEPT ![count].cur = trig[g].ps] /\ UNCHANGED count
      \/ /\ count + 1 \in Tasks /\ MayBeActive(count + 1)
         /\ count' = count + 1 /\ task' = [task EXCEPT ![count + 1] = NewRow(trig[g].ps)]
         /\ TriggerReturns(g, count + 1)
  <2> DEFINE action == IF count = 0 THEN "fallthrough"
                       ELSE Evaluate(task[count], trig[g].ps, trig[g].force)
  <2>1. action # "fallthrough" => count # 0
    OBVIOUS
  <2> HIDE DEF action
  <2>2. \/ action # "fallthrough" /\ TriggerEnds(g) /\ UNCHANGED <<count, task>>
        \/ action # "fallthrough" /\ TriggerReturns(g, count) /\ UNCHANGED <<count, task>>
        \/ /\ action # "fallthrough" /\ task' = [task EXCEPT ![count].cur = trig[g].ps]
           /\ TriggerReturns(g, count) /\ UNCHANGED count
        \/ /\ action # "fallthrough" /\ task' = [task EXCEPT ![count].cur = trig[g].ps]
           /\ TriggerEnds(g) /\ UNCHANGED count
        \/ /\ count + 1 \in Tasks /\ MayBeActive(count + 1)
           /\ count' = count + 1 /\ task' = [task EXCEPT ![count + 1] = NewRow(trig[g].ps)]
           /\ TriggerReturns(g, count + 1)
        \/ TriggerEnds(g) /\ UNCHANGED <<count, task>>
    BY DEF TriggerActs, action
  <2> QED
    BY <2>1, <2>2
<1> QED
  BY <1>1, <1>2, <1>3, <1>4

\* The operator retries a task: no other row is active.
LEMMA RetryTaskIInv ==
  ASSUME NEW t \in Tasks, IInv, RetryTask(t)
  PROVE  IInv' /\ Kept
<1>. USE ReviewAssumption
<1>0. TypeOK /\ TaskInv(t) /\ RowInv /\ ~(t > count)
  BY DEF IInv, RetryTask, TypeOK, Tasks
<1>a. UNCHANGED <<count, cycle, ledger, replied, op, trig, poll, recovering, change,
     posted, answers, published, broken>>
  BY DEF RetryTask, vars, dbVars, outVars, histVars
<1>b. queue' \in [Tasks -> Seq(Items)] /\ \A u \in Tasks \ {t} : queue'[u] = queue[u]
  <2>1. [kind |-> "pass", resume |-> FALSE] \in Items
    BY DEF Items
  <2> QED
    BY <1>0, <2>1, EnqueueEffect DEF RetryTask
<1>c. left' \in [trigger : Nat, event : Nat]
  <2>1. left \in [trigger : Nat, event : Nat] /\ left.event > 0
    BY <1>0 DEF TypeOK, RetryTask
  <2>2. left' = [left EXCEPT !.event = left.event - 1]
    BY DEF RetryTask
  <2> QED
    BY <2>1, <2>2
<1>d. /\ task' \in [Tasks -> Rows] /\ \A u \in Tasks \ {t} : task'[u] = task[u]
      /\ task'[t].state = "REVIEW_PENDING" /\ task'[t].reviewed = task[t].reviewed
  <2>1. "REVIEW_PENDING" \in Active \cup Terminal
    BY DEF Active
  <2> QED
    BY <1>0, <2>1, MoveEffect DEF RetryTask, ResetState
<1>1. TypeOK'
  BY <1>0, <1>a, <1>b, <1>c, <1>d DEF TypeOK
<1>2. ASSUME NEW u \in Tasks \ {t} PROVE TaskInv(u)'
  <2>1. TaskInv(u)
    BY DEF IInv
  <2>2. Same(u)
    BY <1>a, <1>b, <1>d DEF Same
  <2> QED
    BY <1>a, <2>1, <2>2, SameInv
<1>3. TaskInv(t)'
  BY <1>0, <1>a, <1>d DEF TaskInv, Absent, Publishes, Stands, Once, State
<1>4. RowInv'
  <2>1. \A u \in 1..count \ {t} : State(u)' \in Terminal
    BY <1>0, <1>d, CountTasks DEF RetryTask, MayBeActive, State
  <2>2. \A u \in 1..count : State(u)' \in Active => u = t
    BY <2>1 DEF Active, Terminal
  <2> QED
    BY <1>0, <1>a, <2>2 DEF RowInv, State
<1>5. Kept
  <2>1. ASSUME NEW u \in Tasks PROVE [Machine(u)!Next]_(task[u].state)
    <3>1. CASE u # t
      BY <1>d, <3>1
    <3>2. CASE u = t
      BY <1>d, <3>2 DEF Machine!Next, Machine!retryTask, Machine!Initial
    <3> QED
      BY <3>1, <3>2
  <2> QED
    BY <2>1 DEF Kept
<1> QED
  BY <1>1, <1>2, <1>3, <1>4, <1>5 DEF IInv

\* What the boot does to a row: an edge of the table, or nothing.
LEMMA OrphanMoves ==
  ASSUME TypeOK, Restart
  PROVE  /\ task' \in [Tasks -> Rows]
         /\ \A t \in Tasks : /\ task'[t].reviewed = task[t].reviewed
                             /\ t > count => task'[t] = task[t]
                             /\ \/ State(t)' = State(t)
                                \/ State(t) = "REVIEW_RUNNING" /\ State(t)' = "REVIEW_FAILED"
<1>. USE ReviewAssumption
<1>1. task' = [t \in Tasks |-> Orphan(t)]
  BY DEF Restart
<1>2. ASSUME NEW t \in Tasks
      PROVE  /\ Orphan(t) \in Rows /\ Orphan(t).reviewed = task[t].reviewed
             /\ t > count => Orphan(t) = task[t]
             /\ Orphan(t).state = State(t) \/ (State(t) = "REVIEW_RUNNING" /\ Orphan(t).state = "REVIEW_FAILED")
  <2>1. task[t] \in Rows /\ "REVIEW_FAILED" \in Active \cup Terminal /\ (t > count => ~(t <= count))
    BY Typed DEF TypeOK, Terminal, Tasks
  <2>2. CASE t <= count /\ State(t) = "REVIEW_RUNNING"
    <3>1. Orphan(t) = [task[t] EXCEPT !.state = "REVIEW_FAILED"]
      BY <2>2 DEF Orphan
    <3> QED BY <2>1, <2>2, <3>1 DEF Rows
  <2>3. CASE ~(t <= count /\ State(t) = "REVIEW_RUNNING")
    BY <2>1, <2>3 DEF Orphan, State
  <2> QED BY <2>2, <2>3
<1> QED BY <1>1, <1>2 DEF State

\* The process restarts.
LEMMA RestartIInv ==
  ASSUME IInv, Restart
  PROVE  IInv' /\ Kept
<1>. USE ReviewAssumption
<1>0. TypeOK /\ RowInv
  BY DEF IInv
<1>a. UNCHANGED <<count, cycle, ledger, replied, change, posted, answers, published>>
  BY DEF Restart, outVars
<1>b. \A t \in Tasks : /\ queue'[t] = <<>> /\ op'[t].at = "idle" /\ poll'[t] = "none"
                       /\ recovering'[t] = "boot"
                       /\ broken'[t] = broken[t] + IF op[t].at = "record" THEN 1 ELSE 0
  BY IdleType DEF Restart
<1>c. /\ queue' \in [Tasks -> Seq(Items)] /\ op' \in [Tasks -> Passes]
      /\ poll' \in [Tasks -> {"none", "MERGED", "ABANDONED"}]
      /\ recovering' \in [Tasks -> {"no", "boot", "start", "refresh"}]
  BY IdleType DEF Restart
<1>d. broken' \in [Tasks -> Nat]
  BY <1>0 DEF Restart, TypeOK
<1>e. /\ trig' \in [Triggers -> [at : {"idle", "evaluate", "run"}, ps : 0..MaxPatchset,
                                 force : BOOLEAN, task : 0..NTasks]]
      /\ \A g \in Triggers : trig'[g].at = "idle"
  BY DEF Restart, NoTrigger
<1>f. left' \in [trigger : Nat, event : Nat]
  <2>1. left \in [trigger : Nat, event : Nat] /\ left.event > 0
    BY <1>0 DEF TypeOK, Restart
  <2>2. left' = [left EXCEPT !.event = left.event - 1]
    BY DEF Restart
  <2> QED
    BY <2>1, <2>2
<1>g. /\ task' \in [Tasks -> Rows]
      /\ \A t \in Tasks : /\ task'[t].reviewed = task[t].reviewed
                          /\ t > count => task'[t] = task[t]
                          /\ \/ State(t)' = State(t)
                             \/ State(t) = "REVIEW_RUNNING" /\ State(t)' = "REVIEW_FAILED"
  BY <1>0, OrphanMoves
<1>1. TypeOK'
  BY <1>0, <1>a, <1>c, <1>d, <1>e, <1>f, <1>g DEF TypeOK
<1>2. ASSUME NEW t \in Tasks PROVE TaskInv(t)'
  <2>1. TaskInv(t)
    BY DEF IInv
  <2>2. Absent(t)'
    BY <1>a, <1>b, <1>g, <2>1 DEF TaskInv, Absent, State
  <2>3. Publishes(t)' /\ Stands(t)'
    BY <1>a, <1>b, <1>g, <2>1 DEF TaskInv, Publishes, Stands
  <2>4. Once(t)'
    <3>1. broken[t] \in Nat /\ \A f \in Findings : posted[t][f] \in Nat
      BY <1>0 DEF TypeOK
    <3> QED
      BY <1>a, <1>b, <2>1, <3>1 DEF TaskInv, Once
  <2> QED
    BY <2>2, <2>3, <2>4 DEF TaskInv
<1>3. RowInv'
  <2>1. 1..count \subseteq Tasks
    BY <1>0, CountTasks
  <2>2. \A t \in Tasks : State(t)' \in Active => State(t) \in Active
    BY <1>g DEF Active
  <2> QED
    BY <1>0, <1>a, <1>e, <2>1, <2>2 DEF RowInv
<1>4. Kept
  <2>1. ASSUME NEW t \in Tasks PROVE OrdinaryMove(t)
    <3>1. State(t) = "REVIEW_RUNNING" => "REVIEW_FAILED" \in Machine(t)!Edges[State(t)]
      BY DEF Machine!Edges
    <3> QED BY <1>g, <3>1 DEF OrdinaryMove
  <2> QED BY <1>0, <1>1, <2>1, OrdinaryKept DEF Kept
<1> QED
  BY <1>1, <1>2, <1>3, <1>4 DEF IInv

\* The recovery lists the active tasks.
LEMMA RecoveryReadsIInv ==
  ASSUME IInv, RecoveryReads
  PROVE  IInv' /\ Kept
<1>. USE ReviewAssumption
<1>0. TypeOK /\ RowInv
  BY DEF IInv
<1>a. UNCHANGED <<count, task, cycle, ledger, replied, queue, op, trig, poll, change, posted,
     answers, published, broken, left>>
  BY DEF RecoveryReads, dbVars, outVars, histVars
<1>b. /\ recovering' \in [Tasks -> {"no", "boot", "start", "refresh"}]
      /\ \A t \in Tasks : /\ recovering'[t] # "refresh"
                          /\ t > count => recovering'[t] = "no"
  <2>1. recovering' = [t \in Tasks |-> IF t <= count /\ State(t) \in Active THEN "start" ELSE "no"]
    BY DEF RecoveryReads
  <2>2. \A t \in Tasks : t > count => ~(t <= count)
    BY <1>0 DEF TypeOK, Tasks
  <2> QED BY <2>1, <2>2
<1>1. TypeOK'
  BY <1>0, <1>a, <1>b DEF TypeOK
<1>2. ASSUME NEW t \in Tasks PROVE TaskInv(t)'
  BY <1>a, <1>b DEF IInv, TaskInv, Absent, Publishes, Stands, Once, State
<1>3. RowInv'
  BY <1>0, <1>a DEF RowInv, State
<1>4. Kept
  BY <1>a DEF Kept
<1> QED
  BY <1>1, <1>2, <1>3, <1>4 DEF IInv

\* The review system changes on its own.
LEMMA ChangeIInv ==
  ASSUME IInv, NewPatchset \/ CloseChange \/ UNCHANGED vars
  PROVE  IInv' /\ Kept
<1>. USE ReviewAssumption
<1>0. TypeOK /\ RowInv
  BY DEF IInv
<1>a. UNCHANGED <<count, task, cycle, ledger, replied, queue, op, trig, poll,
     recovering, posted, answers, published, broken, left>>
  BY DEF NewPatchset, CloseChange, vars, dbVars, outVars, histVars
<1>b. change' \in [status : {"OPEN", "MERGED", "ABANDONED"}, ps : 1..MaxPatchset, hosted : BOOLEAN]
  <2>0. change \in [status : {"OPEN", "MERGED", "ABANDONED"}, ps : 1..MaxPatchset, hosted : BOOLEAN]
    BY <1>0 DEF TypeOK
  <2>1. CASE NewPatchset
    <3>1. change.ps + 1 \in 1..MaxPatchset
      BY <2>0, <2>1 DEF NewPatchset
    <3>2. change' = [change EXCEPT !.ps = change.ps + 1]
      BY <2>1 DEF NewPatchset
    <3> QED
      BY <2>0, <3>1, <3>2
  <2>2. CASE CloseChange
    BY <2>0, <2>2 DEF CloseChange
  <2>3. CASE UNCHANGED vars
    BY <2>0, <2>3 DEF vars, outVars
  <2> QED
    BY <2>1, <2>2, <2>3
<1>1. TypeOK'
  BY <1>0, <1>a, <1>b DEF TypeOK
<1>2. \A u \in Tasks : Same(u)
  BY <1>a DEF Same
<1>3. \A h \in Triggers : trig'[h].at = "run" => trig'[h].task \in 1..count
  BY <1>0, <1>a DEF RowInv
<1> QED
  BY <1>1, <1>2, <1>3, <1>a, NoRow

-----------------------------------------------------------------------------
LEMMA InitIInv == Init => IInv /\ \A t \in Tasks : Machine(t)!Init
<1>. USE ReviewAssumption
<1> SUFFICES ASSUME Init PROVE IInv /\ \A t \in Tasks : Machine(t)!Init
  OBVIOUS
<1>1. task \in [Tasks -> Rows] /\ \A t \in Tasks : task[t].state = "REVIEW_PENDING" /\ task[t].reviewed = 0
  <2>1. NewRow(0) \in Rows /\ NewRow(0).state = "REVIEW_PENDING" /\ NewRow(0).reviewed = 0
    BY DEF NewRow, Rows, Active
  <2> QED
    BY <2>1 DEF Init
<1>2. cycle \in [Tasks -> Cycles] /\ \A t \in Tasks : cycle[t].result = "none"
  BY DEF Init, Cycles
<1>3. op \in [Tasks -> Passes] /\ \A t \in Tasks : op[t].at = "idle"
  BY IdleType DEF Init
<1>4. trig \in [Triggers -> [at : {"idle", "evaluate", "run"}, ps : 0..MaxPatchset,
                             force : BOOLEAN, task : 0..NTasks]]
      /\ \A g \in Triggers : trig[g].at = "idle"
  BY DEF Init, NoTrigger
<1>5. TypeOK
  BY <1>1, <1>2, <1>3, <1>4 DEF Init, TypeOK
<1>6. ASSUME NEW t \in Tasks PROVE TaskInv(t)
  <2>1. /\ ledger[t] = {} /\ replied[t] = {} /\ queue[t] = <<>> /\ poll[t] = "none"
        /\ recovering[t] = "no" /\ broken[t] = 0 /\ \A f \in Findings : posted[t][f] = 0
    BY DEF Init
  <2>2. /\ task[t].state = "REVIEW_PENDING" /\ task[t].reviewed = 0
        /\ op[t] = Idle /\ cycle[t].result = "none"
    BY <1>1, <1>2 DEF Init
  <2>3. op[t].at = "idle"
    BY <2>2, IdleType
  <2>4. Absent(t) /\ Publishes(t)
    BY <2>1, <2>2, <2>3 DEF Absent, Publishes, State
  <2>5. Stands(t) /\ Once(t)
    BY <2>1, <2>3 DEF Stands, Once
  <2> QED
    BY <2>4, <2>5 DEF TaskInv
<1>7. RowInv
  BY <1>4 DEF Init, RowInv
<1>8. \A t \in Tasks : Machine(t)!Init
  BY <1>1 DEF Machine!Init, Machine!Initial
<1> QED
  BY <1>5, <1>6, <1>7, <1>8 DEF IInv

LEMMA StepIInv == IInv /\ [Next]_vars => IInv' /\ Kept
<1> SUFFICES ASSUME IInv, [Next]_vars PROVE IInv' /\ Kept
  OBVIOUS
<1>1. ASSUME NEW t \in Tasks, PassStep(t) PROVE IInv' /\ Kept
  BY <1>1, StartPassIInv, AcquireSlotIInv, PassThrowsIInv, AgentReportsIInv,
     AgentReportsClosedIInv, CloseIInv, AgentReportsOldIInv, PostFindingsIInv,
     PostingLostIInv, RecordFindingsIInv, PublicationEndsIInv, ReplyIInv, RecordRepliesIInv,
     SetReviewedIInv, SaveCycleIInv, FinishPassIInv, HandleMergedIInv, HandleAbandonedIInv
     DEF PassStep
<1>2. ASSUME NEW t \in Tasks, RecoverStep(t) \/ PollStep(t) \/ Webhook(t) \/ AbandonTask(t) \/ RetryTask(t)
      PROVE  IInv' /\ Kept
  BY <1>2, RecoverIInv, RecoverEndsIInv, PollReadsIInv, PollActsIInv, WebhookIInv,
     AbandonTaskIInv, RetryTaskIInv DEF RecoverStep, PollStep
<1>3. ASSUME NEW g \in Triggers, TriggerStep(g) \/ \E force \in BOOLEAN : TriggerReadsChange(g, force)
      PROVE  IInv' /\ Kept
  BY <1>3, TriggerActsIInv, TriggerRunsIInv, TriggerReadsChangeIInv DEF TriggerStep
<1>4. CASE Restart
  BY <1>4, RestartIInv
<1>5. CASE NewPatchset \/ CloseChange \/ UNCHANGED vars
  BY <1>5, ChangeIInv
<1>6. CASE RecoveryReads
  BY <1>6, RecoveryReadsIInv
<1> QED
  BY <1>1, <1>2, <1>3, <1>4, <1>5, <1>6 DEF Next

LEMMA SpecIInv == Spec => []IInv
<1>1. Init => IInv
  BY InitIInv
<1>2. IInv /\ [Next]_vars => IInv'
  BY StepIInv
<1> QED
  BY <1>1, <1>2, PTL DEF Spec

-----------------------------------------------------------------------------
\* Every variable keeps its type (reviewOrchestrator.ts).
THEOREM TypeCorrect == Spec => []TypeOK
<1>1. IInv => TypeOK
  BY DEF IInv
<1> QED
  BY <1>1, SpecIInv, PTL

\* A finding stands on the review system once, but for publications that were
\* cut off (publishReviewResult, posted_review_comments).
THEOREM FindingsPostedOnce == Spec => []PostedOnce
<1>1. IInv => PostedOnce
  BY DEF IInv, TaskInv, Once, PostedOnce
<1> QED
  BY <1>1, SpecIInv, PTL

\* The ledgers hold only what people can see (reviewDedupStore.ts).
THEOREM LedgersBehind == Spec => []LedgersAreBehind
<1>1. IInv => LedgersAreBehind
  BY DEF IInv, TaskInv, Stands, LedgersAreBehind
<1> QED
  BY <1>1, SpecIInv, PTL

\* reviewedPatchset names a patchset whose publication was finished
\* (setReviewedPatchset, recoverReview).
THEOREM ReviewedPublished == Spec => []ReviewedIsPublished
<1>1. IInv => ReviewedIsPublished
  BY DEF IInv, TaskInv, Publishes, ReviewedIsPublished
<1> QED
  BY <1>1, SpecIInv, PTL

\* One row of a change is active (startReviewTask, retryTask,
\* idx_tasks_active_ticket_id).
THEOREM OneRowActive == Spec => []OneActiveRow
<1>1. IInv => OneActiveRow
  <2> SUFFICES ASSUME IInv PROVE OneActiveRow
    OBVIOUS
  <2> DEFINE S == {t \in 1..count : State(t) \in Active}
  <2>1. \A t, u \in S : t = u
    BY DEF IInv, RowInv
  <2>2. CASE S = {}
    BY <2>2, FS_EmptySet DEF OneActiveRow
  <2>3. CASE S # {}
    <3>1. PICK x : x \in S
      BY <2>3
    <3>2. S = {x}
      BY <2>1, <3>1
    <3> HIDE DEF S
    <3>3. Cardinality(S) = 1
      BY <3>2, FS_Singleton
    <3> QED
      BY <3>3 DEF OneActiveRow, S
  <2> QED
    BY <2>2, <2>3
<1> QED
  BY <1>1, SpecIInv, PTL

\* Every row implements the state machine of the store, from its creation on
\* (transition, abandonTask, retryTask).
THEOREM ImplementsMachine == Spec => KeepsToMachine
<1>1. Init => \A t \in Tasks : Machine(t)!Init
  BY InitIInv
<1>2. IInv /\ [Next]_vars => [\A t \in Tasks : [Machine(t)!Next]_(task[t].state)]_task
  BY StepIInv DEF Kept
<1> QED
  BY <1>1, <1>2, SpecIInv, PTL DEF Spec, KeepsToMachine

-----------------------------------------------------------------------------
(* Who turns to a task next.                                               *)

Abandoned(x) == x.kind = "ABANDONED"
Passing(x)   == x.kind = "pass"
Resuming(x)  == x.kind = "pass" /\ x.resume

\* An item for which P holds waits behind the pass of t.
AbandonmentQueued(t) == \E i \in DOMAIN queue[t] : Abandoned(queue[t][i])
PassQueued(t)        == \E i \in DOMAIN queue[t] : Passing(queue[t][i])
ResumptionQueued(t)  == \E i \in DOMAIN queue[t] : Resuming(queue[t][i])

Held(t) ==
  /\ op[t].aborted => AbandonmentQueued(t)
  /\ State(t) = "REVIEW_PENDING" => PendingHeld(t)
  /\ State(t) = "REVIEW_RUNNING" => RunningHeld(t)
  /\ op[t].at = "idle" => ~op[t].aborted

Guided ==
  /\ \A t \in 1..count : Held(t)
  /\ \A t \in Tasks : t > count => ~op[t].aborted

\* Triggers that are about to run the task still are.
TriggersKept(t) ==
  \A g \in Triggers : trig[g].at = "run" /\ trig[g].task = t
                      => trig'[g].at = "run" /\ trig'[g].task = t

\* What waits for a task goes on waiting.
QueueKept(t) == \A i \in DOMAIN queue[t] : i \in DOMAIN queue'[t] /\ queue'[t][i] = queue[t][i]

\* Nothing is taken from a task.
HeldSame(u) ==
  /\ State(u)' = State(u) /\ op'[u] = op[u] /\ QueueKept(u) /\ recovering'[u] = recovering[u]
  /\ TriggersKept(u)

LEMMA QueuedStay ==
  ASSUME NEW t \in Tasks, QueueKept(t)
  PROVE  /\ AbandonmentQueued(t) => AbandonmentQueued(t)'
         /\ PassQueued(t) => PassQueued(t)'
         /\ ResumptionQueued(t) => ResumptionQueued(t)'
  BY DEF QueueKept, AbandonmentQueued, PassQueued, ResumptionQueued, Abandoned, Passing, Resuming

LEMMA HeldBy ==
  ASSUME NEW t \in Tasks
  PROVE  /\ PendingHeld(t) <=> \/ recovering[t] \in {"boot", "start"} \/ PassQueued(t)
                               \/ \E g \in Triggers : trig[g].at = "run" /\ trig[g].task = t
         /\ RunningHeld(t) <=> \/ recovering[t] \in {"boot", "start"} \/ op[t].at \in {"slot", "agent"}
                               \/ ResumptionQueued(t) \/ AbandonmentQueued(t)
  BY DEF PendingHeld, RunningHeld, PassQueued, ResumptionQueued, AbandonmentQueued,
     Abandoned, Passing, Resuming

LEMMA SameHeld ==
  ASSUME NEW u \in Tasks, Held(u), HeldSame(u)
  PROVE  Held(u)'
<1>1. /\ AbandonmentQueued(u) => AbandonmentQueued(u)'
      /\ PassQueued(u) => PassQueued(u)'
      /\ ResumptionQueued(u) => ResumptionQueued(u)'
  BY QueuedStay DEF HeldSame
<1>2. PendingHeld(u) => PendingHeld(u)'
  BY <1>1, HeldBy DEF HeldSame, TriggersKept, PendingHeld, PassQueued, Passing
<1>3. RunningHeld(u) => RunningHeld(u)'
  BY <1>1 DEF HeldSame, RunningHeld, ResumptionQueued, AbandonmentQueued, Abandoned, Resuming
<1> QED BY <1>1, <1>2, <1>3 DEF Held, HeldSame

\* Rows at which something happens have been created.
LEMMA RowExists ==
  ASSUME IInv, NEW t \in Tasks,
         op[t].at # "idle" \/ queue[t] # <<>> \/ poll[t] # "none" \/ t <= count
           \/ recovering[t] \notin {"no", "boot"}
  PROVE  t \in 1..count
<1>1. t \in Nat /\ 1 <= t /\ count \in Nat
  BY CountTasks, ReviewAssumption DEF Tasks, IInv
<1>2. ~(t > count)
  BY <1>1 DEF IInv, TaskInv, Absent
<1> QED BY <1>1, <1>2

\* A step of one task.
LEMMA OneHeld ==
  ASSUME TypeOK, Guided, NEW t \in 1..count, count' = count,
         \A u \in Tasks \ {t} : HeldSame(u), Held(t)'
  PROVE  Guided'
<1>1. 1..count \subseteq Tasks /\ count \in Nat
  BY CountTasks
<1>2. \A u \in 1..count : Held(u)'
  BY <1>1, SameHeld DEF Guided
<1>3. \A u \in Tasks : u > count => u # t
  BY <1>1
<1>4. \A u \in Tasks : u > count => ~op'[u].aborted
  BY <1>3 DEF HeldSame, Guided
<1> QED BY <1>2, <1>4 DEF Guided

LEMMA EnqueueKeeps ==
  ASSUME TypeOK, NEW t \in Tasks, NEW item \in Items, Enqueue(t, item)
  PROVE  /\ \A u \in Tasks : QueueKept(u)
         /\ \E i \in DOMAIN queue'[t] : queue'[t][i] = item
<1>1. queue \in [Tasks -> Seq(Items)] /\ queue[t] \in Seq(Items)
  BY DEF TypeOK
<1>2. queue'[t] = Append(queue[t], item) /\ \A u \in Tasks \ {t} : queue'[u] = queue[u]
  BY <1>1 DEF Enqueue
<1> DEFINE q == queue[t]
<1>3. /\ Len(q) \in Nat /\ DOMAIN q = 1..Len(q)
      /\ DOMAIN Append(q, item) = 1..(Len(q) + 1)
      /\ Append(q, item)[Len(q) + 1] = item
      /\ \A i \in 1..Len(q) : Append(q, item)[i] = q[i]
  BY <1>1
<1>4. QueueKept(t)
  BY <1>2, <1>3 DEF QueueKept
<1>5. \A u \in Tasks \ {t} : QueueKept(u)
  BY <1>2 DEF QueueKept
<1>6. Len(q) + 1 \in DOMAIN queue'[t] /\ queue'[t][Len(q) + 1] = item
  BY <1>2, <1>3
<1> QED BY <1>4, <1>5, <1>6

\* The first item is taken; the others stay.
LEMMA TailKeeps ==
  ASSUME TypeOK, NEW t \in Tasks, queue[t] # <<>>, queue' = [queue EXCEPT ![t] = Tail(@)]
  PROVE  /\ \A u \in Tasks \ {t} : QueueKept(u)
         /\ AbandonmentQueued(t) => AbandonmentQueued(t)' \/ Abandoned(Head(queue[t]))
         /\ PassQueued(t) => PassQueued(t)' \/ Passing(Head(queue[t]))
         /\ ResumptionQueued(t) => ResumptionQueued(t)' \/ Resuming(Head(queue[t]))
<1>1. queue \in [Tasks -> Seq(Items)] /\ queue[t] \in Seq(Items)
  BY DEF TypeOK
<1>2. queue'[t] = Tail(queue[t]) /\ \A u \in Tasks \ {t} : queue'[u] = queue[u]
  BY <1>1
<1> DEFINE q == queue[t]
<1>3. /\ Len(q) \in Nat /\ Len(q) # 0 /\ DOMAIN q = 1..Len(q) /\ Head(q) = q[1]
      /\ DOMAIN Tail(q) = 1..(Len(q) - 1)
      /\ \A i \in 1..(Len(q) - 1) : Tail(q)[i] = q[i + 1]
  BY <1>1
<1>4. \A i \in DOMAIN q : i # 1 => i - 1 \in DOMAIN queue'[t] /\ queue'[t][i - 1] = q[i]
  <2> SUFFICES ASSUME NEW i \in DOMAIN q, i # 1 PROVE i - 1 \in DOMAIN queue'[t] /\ queue'[t][i - 1] = q[i]
    OBVIOUS
  <2>1. i - 1 \in 1..(Len(q) - 1) /\ (i - 1) + 1 = i
    BY <1>3
  <2> QED BY <1>2, <1>3, <2>1
<1> HIDE DEF q
<1>5. \A u \in Tasks \ {t} : QueueKept(u)
  BY <1>2 DEF QueueKept
<1>6. \A i \in DOMAIN q : q[i] = Head(q) \/ \E j \in DOMAIN queue'[t] : queue'[t][j] = q[i]
  BY <1>3, <1>4
<1>7. AbandonmentQueued(t) => AbandonmentQueued(t)' \/ Abandoned(Head(queue[t]))
  BY <1>6 DEF AbandonmentQueued, Abandoned, q
<1>8. PassQueued(t) => PassQueued(t)' \/ Passing(Head(queue[t]))
  BY <1>6 DEF PassQueued, Passing, q
<1>9. ResumptionQueued(t) => ResumptionQueued(t)' \/ Resuming(Head(queue[t]))
  BY <1>6 DEF ResumptionQueued, Resuming, q
<1> QED BY <1>5, <1>7, <1>8, <1>9

-----------------------------------------------------------------------------
(* The steps of a pass that runs.                                          *)

\* The pass goes on or ends; from an agent's run it leads on in REVIEW_RUNNING
\* only to another, or to an end that an abort has brought.
PassMove(t) ==
  /\ op[t].at # "idle"
  /\ \A u \in Tasks \ {t} : op'[u] = op[u] /\ State(u)' = State(u)
  /\ \/ op'[t].at = "idle" /\ ~op'[t].aborted
     \/ op'[t].at # "idle" /\ op'[t].aborted = op[t].aborted
  /\ State(t)' = "REVIEW_PENDING" => State(t) = "REVIEW_PENDING"
  /\ State(t)' = "REVIEW_RUNNING" =>
       /\ State(t) = "REVIEW_RUNNING"
       /\ op[t].at \in {"slot", "agent"} => op'[t].at \in {"slot", "agent"} \/ op[t].aborted

LEMMA PassMoveHeld ==
  ASSUME IInv, Guided, NEW t \in Tasks, PassMove(t),
         count' = count, trig' = trig, queue' = queue, recovering' = recovering
  PROVE  Guided'
<1>0. TypeOK /\ t \in 1..count
  BY RowExists DEF IInv, PassMove
<1>1. \A u \in Tasks : TriggersKept(u)
  BY DEF TriggersKept
<1>2. \A u \in Tasks : QueueKept(u)
  BY DEF QueueKept
<1>3. \A u \in Tasks \ {t} : HeldSame(u)
  BY <1>1, <1>2 DEF HeldSame, PassMove
<1>4. Held(t)'
  <2>1. Held(t)
    BY <1>0 DEF Guided
  <2>2. /\ AbandonmentQueued(t) => AbandonmentQueued(t)'
        /\ ResumptionQueued(t) => ResumptionQueued(t)'
    BY <1>2, QueuedStay
  <2>3. op'[t].aborted => AbandonmentQueued(t)'
    BY <2>1, <2>2 DEF Held, PassMove
  <2>4. State(t)' = "REVIEW_PENDING" => PendingHeld(t)'
    BY <2>1 DEF Held, PassMove, PendingHeld
  <2>5. State(t)' = "REVIEW_RUNNING" => RunningHeld(t)'
    <3> SUFFICES ASSUME State(t)' = "REVIEW_RUNNING" PROVE RunningHeld(t)'
      OBVIOUS
    <3>1. /\ recovering[t] \in {"boot", "start"} \/ op[t].at \in {"slot", "agent"}
             \/ ResumptionQueued(t) \/ AbandonmentQueued(t)
          /\ op[t].at \in {"slot", "agent"} => op'[t].at \in {"slot", "agent"} \/ AbandonmentQueued(t)
      BY <2>1, HeldBy DEF Held, PassMove
    <3>2. recovering'[t] \in {"boot", "start"} \/ op'[t].at \in {"slot", "agent"}
             \/ ResumptionQueued(t)' \/ AbandonmentQueued(t)'
      BY <2>2, <3>1
    <3> QED BY <3>2 DEF RunningHeld, ResumptionQueued, AbandonmentQueued, Abandoned, Resuming
  <2>6. op'[t].at = "idle" => ~op'[t].aborted
    BY DEF PassMove
  <2> QED BY <2>3, <2>4, <2>5, <2>6 DEF Held
<1> QED BY <1>0, <1>3, <1>4, OneHeld

\* How a pass ends early.
LEMMA ExitMoves ==
  ASSUME TypeOK, NEW t \in Tasks, op[t].at # "idle",
         Thrown(t) \/ (Cancelled(t) /\ State(t) # "REVIEW_RUNNING")
  PROVE  PassMove(t)
<1>0. task[t] \in Rows /\ op[t] \in Passes
  BY Typed
<1>1. Stop(t)
  BY DEF Thrown, Cancelled, Failed
<1>2. op'[t] = Idle /\ \A u \in Tasks \ {t} : op'[u] = op[u]
  BY <1>1 DEF Stop, TypeOK
<1>3. op'[t].at = "idle" /\ ~op'[t].aborted
  BY <1>2 DEF Idle
<1>4. CASE task' = task /\ (State(t) = "REVIEW_RUNNING" => op[t].aborted)
  BY <1>2, <1>3, <1>4 DEF PassMove, State
<1>5. CASE Move(t, "REVIEW_FAILED")
  <2>1. "REVIEW_FAILED" \in Active \cup Terminal
    BY DEF Terminal
  <2>2. task'[t].state = "REVIEW_FAILED" /\ \A u \in Tasks \ {t} : task'[u] = task[u]
    BY <1>5, <2>1, MoveEffect
  <2> QED BY <1>2, <1>3, <2>2 DEF PassMove, State
<1>6. State(t) = "REVIEW_RUNNING" => Legal(t, "REVIEW_FAILED")
  BY DEF Legal, Machine!Legal, Machine!Edges
<1> QED BY <1>4, <1>5, <1>6 DEF Thrown, Cancelled, Failed

\* How it goes on.
OpGoesOn(t, l) ==
  /\ op'[t].at = l /\ op'[t].aborted = op[t].aborted
  /\ \A u \in Tasks \ {t} : op'[u] = op[u]

LEMMA GoesOn ==
  ASSUME TypeOK, NEW t \in Tasks, NEW l, op[t].at # "idle", l # "idle", OpGoesOn(t, l),
         \/ \A u \in Tasks : State(u)' = State(u)
         \/ Move(t, "REVIEW_COMMENTING"),
         op[t].at \in {"slot", "agent"} /\ l \notin {"slot", "agent"} => State(t)' # "REVIEW_RUNNING"
  PROVE  PassMove(t)
<1>1. CASE \A u \in Tasks : State(u)' = State(u)
  BY <1>1 DEF PassMove, OpGoesOn
<1>2. CASE Move(t, "REVIEW_COMMENTING")
  <2>1. "REVIEW_COMMENTING" \in Active \cup Terminal
    BY DEF Active
  <2>2. task'[t].state = "REVIEW_COMMENTING" /\ \A u \in Tasks \ {t} : task'[u] = task[u]
    BY <1>2, <2>1, MoveEffect
  <2> QED BY <2>2 DEF PassMove, OpGoesOn, State
<1> QED BY <1>1, <1>2

LEMMA OpGoto ==
  ASSUME TypeOK, NEW t \in Tasks, NEW l, Goto(t, l)
  PROVE  OpGoesOn(t, l)
<1>1. op \in [Tasks -> Passes] /\ op[t] \in Passes
  BY DEF TypeOK
<1> QED BY <1>1 DEF Goto, OpGoesOn, Passes

\* A pass whose task is no longer its own is cancelled.
LEMMA CancelMoves ==
  ASSUME TypeOK, NEW t \in Tasks, op[t].at # "idle", Cancelled(t), ~StillActive(t)
  PROVE  PassMove(t)
  BY ExitMoves DEF StillActive

LEMMA Unmoved == task' = task => \A u \in Tasks : State(u)' = State(u)
  BY DEF State

LEMMA CommentingNotRunning ==
  ASSUME TypeOK, NEW t \in Tasks, Move(t, "REVIEW_COMMENTING")
  PROVE  State(t)' # "REVIEW_RUNNING"
<1>1. "REVIEW_COMMENTING" \in Active \cup Terminal
  BY DEF Active
<1> QED BY <1>1, MoveEffect DEF State

LEMMA AgentReportsMoves ==
  ASSUME NEW t \in Tasks, TypeOK, AgentReports(t)
  PROVE  PassMove(t)
<1>0. op \in [Tasks -> Passes] /\ op[t] \in Passes
  BY DEF TypeOK
<1>1. op[t].at = "agent"
  BY Zenon DEF AgentReports
<1>2. CASE StillActive(t)
  <2>1. PICK found \in SUBSET Findings, fixed \in SUBSET Prior(t), replies \in SUBSET Eligible(t) :
          op' = [op EXCEPT ![t].at = "posting", ![t].new = NewFindings(t, found, fixed),
                           ![t].fixed = fixed, ![t].replies = replies]
    BY <1>2, Zenon DEF AgentReports
  <2>2. OpGoesOn(t, "posting")
    BY <1>0, <2>1 DEF OpGoesOn, Passes
  <2>3. Move(t, "REVIEW_COMMENTING")
    BY <1>2, Zenon DEF AgentReports
  <2> QED BY <1>1, <2>2, <2>3, GoesOn, CommentingNotRunning
<1>3. CASE ~StillActive(t)
  BY <1>1, <1>3, CancelMoves DEF AgentReports
<1> QED BY <1>2, <1>3

\* The agent's part of the pass.
LEMMA AgentMoves ==
  ASSUME TypeOK, NEW t \in Tasks,
         \/ AcquireSlot(t) \/ PassThrows(t) \/ AgentReports(t) \/ AgentReportsClosed(t) \/ AgentReportsOld(t)
  PROVE  PassMove(t)
<1>0. op \in [Tasks -> Passes] /\ op[t] \in Passes /\ task \in [Tasks -> Rows] /\ task[t] \in Rows
  BY DEF TypeOK
<1>1. CASE AcquireSlot(t)
  <2>1. op[t].at = "slot"
    BY <1>1 DEF AcquireSlot
  <2>2. CASE StillActive(t)
    <3>1. OpGoesOn(t, "agent") /\ task' = task
      BY <1>0, <1>1, <2>2 DEF AcquireSlot, OpGoesOn, Passes
    <3> QED BY <2>1, <3>1, GoesOn, Unmoved
  <2>3. CASE ~StillActive(t)
    BY <1>1, <2>1, <2>3, CancelMoves DEF AcquireSlot
  <2> QED BY <2>2, <2>3
<1>2. CASE PassThrows(t)
  BY <1>2, ExitMoves DEF PassThrows
<1>3. CASE AgentReports(t)
  BY <1>3, AgentReportsMoves
<1>4. CASE AgentReportsClosed(t)
  <2>1. op[t].at = "agent"
    BY <1>4 DEF AgentReportsClosed
  <2>2. CASE StillActive(t)
    <3>1. OpGoesOn(t, "closing") /\ Move(t, "REVIEW_COMMENTING")
      BY <1>4, <2>2, OpGoto DEF AgentReportsClosed
    <3> QED BY <2>1, <3>1, GoesOn, CommentingNotRunning
  <2>3. CASE ~StillActive(t)
    BY <1>4, <2>1, <2>3, CancelMoves DEF AgentReportsClosed
  <2> QED BY <2>2, <2>3
<1>5. CASE AgentReportsOld(t)
  <2>1. op[t].at = "agent"
    BY <1>5 DEF AgentReportsOld
  <2>2. CASE op[t].retries >= MaxSuperseded
    BY <1>5, <2>1, <2>2, ExitMoves DEF AgentReportsOld
  <2>3. CASE ~(op[t].retries >= MaxSuperseded)
    <3>1. \A u \in Tasks : State(u)' = State(u)
      BY <1>0, <1>5, <2>3 DEF AgentReportsOld, State, Rows
    <3>2. CASE StillActive(t)
      <4>1. OpGoesOn(t, "slot")
        BY <1>0, <1>5, <2>3, <3>2 DEF AgentReportsOld, OpGoesOn, Passes
      <4> QED BY <2>1, <3>1, <4>1, GoesOn
    <3>3. CASE ~StillActive(t)
      <4>1. op'[t] = Idle /\ \A u \in Tasks \ {t} : op'[u] = op[u]
        BY <1>0, <1>5, <2>3, <3>3 DEF AgentReportsOld, Stop
      <4>2. op'[t].at = "idle" /\ ~op'[t].aborted
        BY <4>1 DEF Idle
      <4> QED BY <2>1, <3>1, <3>3, <4>1, <4>2 DEF PassMove, StillActive
    <3> QED BY <3>2, <3>3
  <2> QED BY <2>2, <2>3
<1> QED BY <1>1, <1>2, <1>3, <1>4, <1>5

\* The publication and the end of the pass.
LEMMA PublicationMoves ==
  ASSUME TypeOK, NEW t \in Tasks,
         \/ PostFindings(t) \/ PostingLost(t) \/ RecordFindings(t) \/ PublicationEnds(t)
         \/ (\E m \in Messages : Reply(t, m)) \/ RecordReplies(t)
  PROVE  PassMove(t)
<1>0. op \in [Tasks -> Passes] /\ op[t] \in Passes
  BY DEF TypeOK
<1>g. ASSUME NEW l, op[t].at \in {"posting", "record", "replies"}, l # "idle", OpGoesOn(t, l), task' = task
      PROVE  PassMove(t)
  BY <1>g, GoesOn, Unmoved
<1>1. CASE PostFindings(t)
  <2>1. PICK batch : op' = [op EXCEPT ![t].at = "record", ![t].sent = batch]
    BY <1>1 DEF PostFindings
  <2>2. OpGoesOn(t, "record")
    BY <1>0, <2>1 DEF OpGoesOn, Passes
  <2> QED BY <1>1, <1>g, <2>2 DEF PostFindings, dbVars
<1>2. CASE PostingLost(t)
  BY <1>2, ExitMoves DEF PostingLost
<1>3. CASE RecordFindings(t)
  <2>1. op[t].at = "record"
    BY <1>3 DEF RecordFindings
  <2>2. CASE Cancelled(t) /\ ~StillActive(t)
    BY <2>1, <2>2, CancelMoves
  <2>3. CASE StillActive(t) \/ (change.hosted /\ op[t].sent \cap op[t].fixed = {})
    <3>1. op' = [op EXCEPT ![t].at = "posting", ![t].new = @ \ op[t].sent,
                           ![t].fixed = @ \ op[t].sent, ![t].sent = {}]
          /\ task' = task
      BY <1>3, <2>3 DEF RecordFindings
    <3>2. OpGoesOn(t, "posting")
      BY <1>0, <3>1 DEF OpGoesOn, Passes
    <3> QED BY <1>g, <2>1, <3>1, <3>2
  <2> QED BY <1>3, <2>2, <2>3 DEF RecordFindings
<1>4. CASE PublicationEnds(t)
  <2>1. op[t].at = "posting"
    BY <1>4 DEF PublicationEnds
  <2>2. CASE Cancelled(t) /\ ~StillActive(t)
    BY <2>1, <2>2, CancelMoves
  <2>3. CASE Goto(t, "replies") /\ task' = task
    BY <1>g, <2>1, <2>3, OpGoto
  <2> QED BY <1>4, <2>2, <2>3 DEF PublicationEnds
<1>5. ASSUME NEW m \in Messages, Reply(t, m) PROVE PassMove(t)
  <2>1. op[t].at = "replies" /\ task' = task
    BY <1>5 DEF Reply, dbVars
  <2>2. \/ op' = [op EXCEPT ![t].replies = @ \ {m}, ![t].sent = @ \cup {m}]
        \/ op' = [op EXCEPT ![t].replies = @ \ {m}]
    BY <1>5 DEF Reply
  <2>3. OpGoesOn(t, "replies")
    BY <1>0, <2>1, <2>2 DEF OpGoesOn, Passes
  <2> QED BY <1>g, <2>1, <2>3
<1>6. CASE RecordReplies(t)
  <2>1. op[t].at = "replies"
    BY <1>6 DEF RecordReplies
  <2>2. CASE Cancelled(t) /\ ~StillActive(t)
    BY <2>1, <2>2, CancelMoves
  <2>3. CASE op' = [op EXCEPT ![t].at = "finish", ![t].sent = {}] /\ task' = task
    <3>1. OpGoesOn(t, "finish")
      BY <1>0, <2>3 DEF OpGoesOn, Passes
    <3> QED BY <1>g, <2>1, <2>3, <3>1
  <2> QED BY <1>6, <2>2, <2>3 DEF RecordReplies
<1> QED BY <1>1, <1>2, <1>3, <1>4, <1>5, <1>6

LEMMA EndMoves ==
  ASSUME TypeOK, NEW t \in Tasks, Close(t) \/ SetReviewed(t) \/ SaveCycle(t) \/ FinishPass(t)
  PROVE  PassMove(t)
<1>0. op \in [Tasks -> Passes] /\ op[t] \in Passes /\ task \in [Tasks -> Rows] /\ task[t] \in Rows
  BY DEF TypeOK
<1>s. ASSUME NEW to \in {"REVIEW_DONE", "REVIEW_WATCHING"}, op[t].at # "idle", Move(t, to), Stop(t)
      PROVE  PassMove(t)
  <2>1. to \in Active \cup Terminal
    BY DEF Active, Terminal
  <2>2. task'[t].state = to /\ \A u \in Tasks \ {t} : task'[u] = task[u]
    BY <1>s, <2>1, MoveEffect
  <2>3. op'[t] = Idle /\ \A u \in Tasks \ {t} : op'[u] = op[u]
    BY <1>0, <1>s DEF Stop
  <2>4. op'[t].at = "idle" /\ ~op'[t].aborted
    BY <2>3 DEF Idle
  <2> QED BY <1>s, <2>2, <2>3, <2>4 DEF PassMove, State
<1>1. CASE Close(t)
  BY <1>1, <1>s, ExitMoves DEF Close
<1>2. CASE SetReviewed(t)
  <2>1. op[t].at = "finish"
    BY <1>2 DEF SetReviewed
  <2>2. CASE StillActive(t)
    <3>1. OpGoesOn(t, "save")
      BY <1>2, <2>2, OpGoto DEF SetReviewed
    <3>2. \A u \in Tasks : State(u)' = State(u)
      BY <1>0, <1>2, <2>2 DEF SetReviewed, State, Rows
    <3> QED BY <2>1, <3>1, <3>2, GoesOn
  <2>3. CASE ~StillActive(t)
    BY <1>2, <2>1, <2>3, CancelMoves DEF SetReviewed
  <2> QED BY <2>2, <2>3
<1>3. CASE SaveCycle(t)
  <2>1. op[t].at = "save" /\ OpGoesOn(t, "refresh") /\ task' = task
    BY <1>3, OpGoto DEF SaveCycle
  <2> QED BY <2>1, GoesOn, Unmoved
<1>4. CASE FinishPass(t)
  <2>1. Watched \in {"REVIEW_DONE", "REVIEW_WATCHING"} /\ op[t].at = "refresh"
    BY <1>4 DEF Watched, FinishPass
  <2> QED BY <1>4, <1>s, <2>1, ExitMoves DEF FinishPass
<1> QED BY <1>1, <1>2, <1>3, <1>4

-----------------------------------------------------------------------------
(* The other steps.                                                        *)

LEMMA PassGuided ==
  ASSUME IInv, Guided, NEW t \in Tasks,
         \/ AcquireSlot(t) \/ PassThrows(t) \/ AgentReports(t) \/ AgentReportsClosed(t) \/ AgentReportsOld(t)
         \/ PostFindings(t) \/ PostingLost(t) \/ RecordFindings(t) \/ PublicationEnds(t)
         \/ (\E m \in Messages : Reply(t, m)) \/ RecordReplies(t)
         \/ Close(t) \/ SetReviewed(t) \/ SaveCycle(t) \/ FinishPass(t)
  PROVE  Guided'
<1>0. TypeOK
  BY DEF IInv
<1> DEFINE Kept4 == count' = count /\ trig' = trig /\ queue' = queue /\ recovering' = recovering
<1>1. ASSUME AcquireSlot(t) \/ PassThrows(t) \/ AgentReportsClosed(t) \/ AgentReportsOld(t) PROVE Kept4
  BY <1>1 DEF AcquireSlot, PassThrows, AgentReportsClosed, AgentReportsOld
<1>2. ASSUME AgentReports(t) PROVE Kept4
  BY <1>2, Zenon DEF AgentReports
<1>3. ASSUME PostFindings(t) \/ PostingLost(t) \/ RecordFindings(t) \/ PublicationEnds(t) PROVE Kept4
  BY <1>3 DEF PostFindings, PostingLost, RecordFindings, PublicationEnds, dbVars
<1>4. ASSUME NEW m \in Messages, Reply(t, m) PROVE Kept4
  BY <1>4 DEF Reply, dbVars
<1>5. ASSUME RecordReplies(t) \/ Close(t) \/ SetReviewed(t) \/ SaveCycle(t) \/ FinishPass(t) PROVE Kept4
  BY <1>5 DEF RecordReplies, Close, SetReviewed, SaveCycle, FinishPass
<1>6. PassMove(t)
  BY <1>0, AgentMoves, PublicationMoves, EndMoves
<1> QED BY <1>1, <1>2, <1>3, <1>4, <1>5, <1>6, PassMoveHeld

\* An operation of the chain begins.
LEMMA BeginGuided ==
  ASSUME IInv, Guided, NEW t \in Tasks, StartPass(t) \/ HandleMerged(t) \/ HandleAbandoned(t)
  PROVE  Guided'
<1>t. TypeOK
  BY DEF IInv
<1>0. /\ op \in [Tasks -> Passes] /\ op[t] \in Passes /\ task \in [Tasks -> Rows]
      /\ State(t) \in Active \cup Terminal
  BY <1>t, StateType DEF TypeOK
<1>1. /\ queue[t] # <<>> /\ queue' = [queue EXCEPT ![t] = Tail(@)] /\ op[t].at = "idle"
      /\ count' = count /\ trig' = trig /\ recovering' = recovering
  BY DEF StartPass, HandleMerged, HandleAbandoned
<1>2. t \in 1..count /\ \A u \in Tasks : TriggersKept(u)
  BY <1>1, RowExists DEF TriggersKept
<1>3. /\ \A u \in Tasks \ {t} : QueueKept(u)
      /\ AbandonmentQueued(t) => AbandonmentQueued(t)' \/ Abandoned(Head(queue[t]))
      /\ PassQueued(t) => PassQueued(t)' \/ Passing(Head(queue[t]))
      /\ ResumptionQueued(t) => ResumptionQueued(t)' \/ Resuming(Head(queue[t]))
  BY <1>t, <1>1, TailKeeps
<1>h. /\ AbandonmentQueued(t)' => RunningHeld(t)'
      /\ ResumptionQueued(t)' => RunningHeld(t)'
      /\ PassQueued(t)' => PendingHeld(t)'
  BY DEF RunningHeld, PendingHeld, AbandonmentQueued, ResumptionQueued, PassQueued,
     Abandoned, Resuming, Passing
\* Steps that leave the row, or end it.
<1>m. ASSUME op' = op, \A u \in Tasks \ {t} : State(u)' = State(u),
             \/ State(t)' \notin {"REVIEW_PENDING", "REVIEW_RUNNING"}
             \/ /\ State(t)' = State(t)
                /\ ~Abandoned(Head(queue[t]))
                /\ Passing(Head(queue[t])) => State(t) # "REVIEW_PENDING"
                /\ Resuming(Head(queue[t])) => State(t) # "REVIEW_RUNNING"
      PROVE  Guided'
  <2>1. \A u \in Tasks \ {t} : HeldSame(u)
    BY <1>1, <1>2, <1>3, <1>m DEF HeldSame
  <2>2. Held(t)'
    <3>1. Held(t) /\ ~op[t].aborted
      BY <1>1, <1>2 DEF Guided, Held
    <3>2. State(t)' = "REVIEW_PENDING" => PendingHeld(t)'
      BY <1>1, <1>3, <1>h, <1>m, <3>1, HeldBy DEF Held, PendingHeld
    <3>3. State(t)' = "REVIEW_RUNNING" => RunningHeld(t)'
      BY <1>1, <1>3, <1>h, <1>m, <3>1, HeldBy DEF Held, RunningHeld
    <3> QED BY <1>m, <3>1, <3>2, <3>3 DEF Held
  <2> QED BY <1>t, <1>1, <1>2, <2>1, <2>2, OneHeld
<1>4. CASE StartPass(t)
  <2>1. Head(queue[t]).kind = "pass"
    BY <1>4 DEF StartPass
  <2>2. CASE MayEnter(t, Head(queue[t]).resume)
    <3>1. Move(t, "REVIEW_RUNNING") /\ op' = [op EXCEPT ![t] = [Idle EXCEPT !.at = "slot"]]
      BY <1>4, <2>2 DEF StartPass
    <3>2. op'[t].at = "slot" /\ ~op'[t].aborted /\ \A u \in Tasks \ {t} : op'[u] = op[u]
      BY <1>0, <3>1 DEF Idle
    <3>3. "REVIEW_RUNNING" \in Active \cup Terminal
      BY DEF Active
    <3>4. State(t)' = "REVIEW_RUNNING" /\ \A u \in Tasks \ {t} : State(u)' = State(u)
      BY <3>1, <3>3, <1>t, MoveEffect DEF State
    <3>5. Held(t)'
      BY <3>2, <3>4 DEF Held, RunningHeld
    <3>6. \A u \in Tasks \ {t} : HeldSame(u)
      BY <1>1, <1>2, <1>3, <3>2, <3>4 DEF HeldSame
    <3> QED BY <1>t, <1>1, <1>2, <3>5, <3>6, OneHeld
  <2>3. CASE ~MayEnter(t, Head(queue[t]).resume)
    <3>1. op' = op /\ task' = task
      BY <1>4, <2>3 DEF StartPass
    <3>2. /\ State(t) # "REVIEW_PENDING"
          /\ Resuming(Head(queue[t])) => State(t) # "REVIEW_RUNNING"
      BY <2>3 DEF MayEnter, Resuming
    <3> QED BY <1>m, <2>1, <3>1, <3>2, Unmoved DEF Abandoned
  <2> QED BY <2>2, <2>3
<1>5. CASE HandleMerged(t)
  <2>1. op' = op /\ Head(queue[t]).kind = "MERGED"
    BY <1>5 DEF HandleMerged
  <2>2. CASE task' = task
    BY <1>m, <2>1, <2>2, Unmoved DEF Abandoned, Passing, Resuming
  <2>3. CASE Move(t, "REVIEW_DONE")
    <3>1. "REVIEW_DONE" \in Active \cup Terminal
      BY DEF Terminal
    <3>2. State(t)' = "REVIEW_DONE" /\ \A u \in Tasks \ {t} : State(u)' = State(u)
      BY <2>3, <3>1, <1>t, MoveEffect DEF State
    <3> QED BY <1>m, <2>1, <3>2
  <2> QED BY <1>5, <2>2, <2>3 DEF HandleMerged
<1>6. CASE HandleAbandoned(t)
  <2>1. op' = op /\ Abandon(t)
    BY <1>6 DEF HandleAbandoned
  <2>2. CASE State(t) \in Terminal /\ task' = task
    <3>1. State(t)' = State(t) /\ State(t) \notin {"REVIEW_PENDING", "REVIEW_RUNNING"}
      BY <2>2, Unmoved DEF Terminal
    <3> QED BY <1>m, <2>1, <2>2, <3>1, Unmoved
  <2>3. CASE Move(t, "ABANDONED")
    <3>1. "ABANDONED" \in Active \cup Terminal
      BY DEF Terminal
    <3>2. State(t)' = "ABANDONED" /\ \A u \in Tasks \ {t} : State(u)' = State(u)
      BY <2>3, <3>1, <1>t, MoveEffect DEF State
    <3> QED BY <1>m, <2>1, <3>2
  <2> QED BY <2>1, <2>2, <2>3 DEF Abandon
<1> QED BY <1>4, <1>5, <1>6

\* Steps that leave every row and its operation as they are, or end the row.
LEMMA SideStepGuided ==
  ASSUME IInv, Guided, NEW t \in Tasks, t \in 1..count,
         op' = op, count' = count, \A u \in Tasks : QueueKept(u) /\ TriggersKept(u),
         \A u \in Tasks \ {t} : State(u)' = State(u) /\ recovering'[u] = recovering[u],
         recovering'[t] = recovering[t] \/ recovering[t] \notin {"boot", "start"},
         State(t)' = State(t) \/ State(t)' \notin {"REVIEW_PENDING", "REVIEW_RUNNING"}
  PROVE  Guided'
<1>1. \A u \in Tasks \ {t} : HeldSame(u)
  BY DEF HeldSame
<1>2. /\ AbandonmentQueued(t) => AbandonmentQueued(t)'
      /\ PassQueued(t) => PassQueued(t)'
      /\ ResumptionQueued(t) => ResumptionQueued(t)'
  BY QueuedStay
<1>3. Held(t)
  BY DEF Guided
<1>4. PendingHeld(t) => PendingHeld(t)'
  BY <1>2, HeldBy DEF TriggersKept, PendingHeld, PassQueued, Passing
<1>5. RunningHeld(t) => RunningHeld(t)'
  BY <1>2, HeldBy DEF RunningHeld, ResumptionQueued, AbandonmentQueued, Abandoned, Resuming
<1>6. Held(t)'
  BY <1>2, <1>3, <1>4, <1>5 DEF Held
<1> QED BY <1>1, <1>6, OneHeld DEF IInv

LEMMA NothingTaken ==
  /\ queue' = queue => \A u \in Tasks : QueueKept(u)
  /\ trig' = trig => \A u \in Tasks : TriggersKept(u)
  BY DEF QueueKept, TriggersKept

LEMMA ItemTypes ==
  /\ \A b \in BOOLEAN : [kind |-> "pass", resume |-> b] \in Items
  /\ \A s \in {"MERGED", "ABANDONED"} : [kind |-> s] \in Items
  BY DEF Items

\* A state that asks for nobody.
LEMMA Ends ==
  ASSUME TypeOK, NEW t \in Tasks, NEW to \in {"REVIEW_DONE", "REVIEW_WATCHING", "REVIEW_FAILED", "ABANDONED"},
         Move(t, to)
  PROVE  /\ State(t)' = to /\ to \notin {"REVIEW_PENDING", "REVIEW_RUNNING"}
         /\ \A u \in Tasks \ {t} : State(u)' = State(u)
<1>1. to \in Active \cup Terminal
  BY DEF Active, Terminal
<1> QED BY <1>1, MoveEffect DEF State

\* What polls and webhooks do.
LEMMA PollGuided ==
  ASSUME IInv, Guided, NEW t \in Tasks, PollReads(t) \/ PollActs(t) \/ Webhook(t)
  PROVE  Guided'
<1>t. TypeOK
  BY DEF IInv
<1>1. CASE PollReads(t)
  <2>1. /\ t \in 1..count /\ op' = op /\ count' = count /\ queue' = queue /\ trig' = trig
        /\ task' = task /\ recovering' = recovering
    BY <1>1, RowExists DEF PollReads, dbVars
  <2> QED BY <2>1, NothingTaken, Unmoved, SideStepGuided
<1>2. CASE PollActs(t)
  <2>1. /\ t \in 1..count /\ op' = op /\ count' = count /\ queue' = queue /\ trig' = trig
        /\ recovering' = recovering
    BY <1>2, RowExists DEF PollActs
  <2>2. task' = task \/ Move(t, "ABANDONED") \/ Move(t, "REVIEW_DONE")
    BY <1>2 DEF PollActs, Abandon
  <2>3. /\ \A u \in Tasks \ {t} : State(u)' = State(u)
        /\ State(t)' = State(t) \/ State(t)' \notin {"REVIEW_PENDING", "REVIEW_RUNNING"}
    BY <1>t, <2>2, Unmoved, Ends
  <2> QED BY <2>1, <2>3, NothingTaken, SideStepGuided
<1>3. CASE Webhook(t)
  <2>1. /\ t \in 1..count /\ op' = op /\ count' = count /\ trig' = trig
        /\ task' = task /\ recovering' = recovering
    BY <1>3, RowExists DEF Webhook, dbVars
  <2>2. change.status \in {"MERGED", "ABANDONED"}
    BY <1>t, <1>3 DEF Webhook, TypeOK
  <2>3. \A u \in Tasks : QueueKept(u)
    BY <1>t, <1>3, <2>2, ItemTypes, EnqueueKeeps DEF Webhook
  <2> QED BY <2>1, <2>3, NothingTaken, Unmoved, SideStepGuided
<1> QED BY <1>1, <1>2, <1>3

\* The operator.
LEMMA OperatorGuided ==
  ASSUME IInv, Guided, NEW t \in Tasks, AbandonTask(t) \/ RetryTask(t)
  PROVE  Guided'
<1>0. TypeOK /\ op \in [Tasks -> Passes] /\ op[t] \in Passes
  BY DEF IInv, TypeOK
<1>1. /\ t \in 1..count /\ Held(t) /\ count' = count /\ trig' = trig /\ recovering' = recovering
      /\ \A u \in Tasks : TriggersKept(u)
  BY RowExists, NothingTaken DEF AbandonTask, RetryTask, dbVars, Guided
<1>2. CASE AbandonTask(t)
  <2>1. task' = task /\ Enqueue(t, [kind |-> "ABANDONED"])
    BY <1>2 DEF AbandonTask, dbVars
  <2>2. (\A u \in Tasks : QueueKept(u)) /\ \E i \in DOMAIN queue'[t] : queue'[t][i] = [kind |-> "ABANDONED"]
    BY <1>0, <2>1, ItemTypes, EnqueueKeeps
  <2>3. AbandonmentQueued(t)' /\ (PassQueued(t) => PassQueued(t)')
    BY <2>2, QueuedStay DEF AbandonmentQueued, Abandoned
  <2>4. /\ op'[t].at = op[t].at /\ \A u \in Tasks \ {t} : op'[u] = op[u]
        /\ op[t].at = "idle" => op'[t] = op[t]
    BY <1>0, <1>2 DEF AbandonTask, Passes
  <2>5. Held(t)'
    <3>1. State(t)' = State(t) /\ (PendingHeld(t) => PendingHeld(t)')
      BY <1>1, <2>1, <2>3, HeldBy DEF State, PendingHeld, PassQueued, Passing
    <3>2. RunningHeld(t)'
      BY <2>3 DEF RunningHeld, AbandonmentQueued, Abandoned
    <3> QED BY <1>1, <2>3, <2>4, <3>1, <3>2 DEF Held
  <2>6. \A u \in Tasks \ {t} : HeldSame(u)
    BY <1>1, <2>1, <2>2, <2>4, Unmoved DEF HeldSame
  <2> QED BY <1>0, <1>1, <2>5, <2>6, OneHeld
<1>3. CASE RetryTask(t)
  <2>1. Move(t, "REVIEW_PENDING") /\ op' = op /\ Enqueue(t, [kind |-> "pass", resume |-> FALSE])
    BY <1>3 DEF RetryTask, ResetState
  <2>2. (\A u \in Tasks : QueueKept(u))
        /\ \E i \in DOMAIN queue'[t] : queue'[t][i] = [kind |-> "pass", resume |-> FALSE]
    BY <1>0, <2>1, ItemTypes, EnqueueKeeps
  <2>3. "REVIEW_PENDING" \in Active \cup Terminal
    BY DEF Active
  <2>4. State(t)' = "REVIEW_PENDING" /\ \A u \in Tasks \ {t} : State(u)' = State(u)
    BY <1>0, <2>1, <2>3, MoveEffect DEF State
  <2>5. PendingHeld(t)' /\ (AbandonmentQueued(t) => AbandonmentQueued(t)')
    BY <2>2, QueuedStay DEF PendingHeld
  <2>6. Held(t)'
    BY <1>1, <2>1, <2>4, <2>5 DEF Held
  <2>7. \A u \in Tasks \ {t} : HeldSame(u)
    BY <1>1, <2>1, <2>2, <2>4 DEF HeldSame
  <2> QED BY <1>0, <1>1, <2>6, <2>7, OneHeld
<1> QED BY <1>2, <1>3

\* The recovery calls for a pass, or finds nothing to wait for.
LEMMA RecoverGuided ==
  ASSUME IInv, Guided, NEW t \in Tasks, RecoverStep(t)
  PROVE  Guided'
<1>0. TypeOK /\ recovering \in [Tasks -> {"no", "boot", "start", "refresh"}]
  BY DEF IInv, TypeOK
<1>1. CASE RecoverEnds(t)
  <2>1. /\ t \in 1..count /\ op' = op /\ count' = count /\ trig' = trig /\ queue' = queue
        /\ recovering[t] \notin {"boot", "start"} /\ \A u \in Tasks \ {t} : recovering'[u] = recovering[u]
    BY <1>0, <1>1, RowExists DEF RecoverEnds
  <2>2. Watched \in {"REVIEW_DONE", "REVIEW_WATCHING"} /\ (task' = task \/ Move(t, Watched))
    BY <1>1 DEF RecoverEnds, Watched
  <2>3. /\ \A u \in Tasks \ {t} : State(u)' = State(u)
        /\ State(t)' = State(t) \/ State(t)' \notin {"REVIEW_PENDING", "REVIEW_RUNNING"}
    BY <1>0, <2>2, Unmoved, Ends
  <2> QED BY <2>1, <2>3, NothingTaken, SideStepGuided
<1>2. CASE Recover(t)
  <2>1. /\ t \in 1..count /\ Held(t) /\ op' = op /\ count' = count /\ trig' = trig
        /\ \A u \in Tasks \ {t} : recovering'[u] = recovering[u]
        /\ \A u \in Tasks : TriggersKept(u)
    BY <1>0, <1>2, RowExists, NothingTaken DEF Recover, Guided
  <2> DEFINE item == [kind |-> "pass", resume |-> State(t) = "REVIEW_RUNNING"]
  <2>2. CASE State(t) \in {"REVIEW_PENDING", "REVIEW_RUNNING"}
    <3>1. Enqueue(t, item) /\ task' = task
      BY <1>2, <2>2 DEF Recover
    <3>2. (\A u \in Tasks : QueueKept(u)) /\ \E i \in DOMAIN queue'[t] : queue'[t][i] = item
      BY <1>0, <3>1, ItemTypes, EnqueueKeeps
    <3>3. /\ AbandonmentQueued(t) => AbandonmentQueued(t)'
          /\ State(t) = "REVIEW_PENDING" => PendingHeld(t)'
          /\ State(t) = "REVIEW_RUNNING" => RunningHeld(t)'
      <4>1. item.kind = "pass" /\ (State(t) = "REVIEW_RUNNING" => item.resume)
        OBVIOUS
      <4> HIDE DEF item
      <4>2. PICK i \in DOMAIN queue'[t] : queue'[t][i] = item
        BY <3>2
      <4>3. AbandonmentQueued(t) => AbandonmentQueued(t)'
        BY <3>2, QueuedStay
      <4>4. PendingHeld(t)'
        BY <4>1, <4>2 DEF PendingHeld
      <4>5. State(t) = "REVIEW_RUNNING" => RunningHeld(t)'
        BY <4>1, <4>2 DEF RunningHeld
      <4> QED BY <4>3, <4>4, <4>5
    <3>4. Held(t)'
      BY <2>1, <3>1, <3>3, Unmoved DEF Held
    <3>5. \A u \in Tasks \ {t} : HeldSame(u)
      BY <2>1, <3>1, <3>2, Unmoved DEF HeldSame
    <3> QED BY <1>0, <2>1, <3>4, <3>5, OneHeld
  <2>3. CASE State(t) \notin {"REVIEW_PENDING", "REVIEW_RUNNING"}
    <3>1. queue' = queue /\ (task' = task \/ Move(t, "REVIEW_DONE") \/ Move(t, "REVIEW_FAILED"))
      BY <1>2, <2>3 DEF Recover
    <3>2. /\ \A u \in Tasks \ {t} : State(u)' = State(u)
          /\ State(t)' \notin {"REVIEW_PENDING", "REVIEW_RUNNING"}
      BY <1>0, <2>3, <3>1, Unmoved, Ends
    <3>3. (\A u \in Tasks : QueueKept(u)) /\ (AbandonmentQueued(t) => AbandonmentQueued(t)')
      BY <3>1, NothingTaken, QueuedStay
    <3>4. Held(t)'
      BY <2>1, <3>2, <3>3 DEF Held
    <3>5. \A u \in Tasks \ {t} : HeldSame(u)
      BY <2>1, <3>2, <3>3 DEF HeldSame
    <3> QED BY <1>0, <2>1, <3>4, <3>5, OneHeld
  <2> QED BY <2>2, <2>3
<1> QED BY <1>1, <1>2 DEF RecoverStep

\* Nothing is taken from any task.
LEMMA AllSame ==
  ASSUME TypeOK, Guided, count' = count, \A u \in Tasks : HeldSame(u)
  PROVE  Guided'
<1>1. 1..count \subseteq Tasks
  BY CountTasks
<1>2. \A u \in 1..count : Held(u)'
  BY <1>1, SameHeld DEF Guided
<1>3. \A u \in Tasks : u > count => ~op'[u].aborted
  BY DEF HeldSame, Guided
<1> QED BY <1>2, <1>3 DEF Guided

\* A trigger that is not about to run a task takes nothing from one.
LEMMA OtherTriggersKept ==
  ASSUME NEW g \in Triggers, NEW u \in Tasks, \A h \in Triggers \ {g} : trig'[h] = trig[h],
         trig[g].at # "run" \/ trig[g].task # u
  PROVE  TriggersKept(u)
  BY DEF TriggersKept

LEMMA TriggerReadsGuided ==
  ASSUME IInv, Guided, NEW g \in Triggers, NEW force \in BOOLEAN, TriggerReadsChange(g, force)
  PROVE  Guided'
<1>0. TypeOK
  BY DEF IInv
<1>1. UNCHANGED <<count, task, queue, op, recovering>> /\ trig[g].at # "run"
  BY DEF TriggerReadsChange, dbVars
<1>2. \A h \in Triggers \ {g} : trig'[h] = trig[h]
  BY <1>0 DEF TriggerReadsChange, TypeOK
<1>3. \A u \in Tasks : HeldSame(u)
  BY <1>1, <1>2, OtherTriggersKept, NothingTaken, Unmoved DEF HeldSame
<1> QED BY <1>0, <1>1, <1>3, AllSame

\* A trigger's pass waits for the task where the trigger did.
LEMMA TriggerRunsGuided ==
  ASSUME IInv, Guided, NEW g \in Triggers, TriggerRuns(g)
  PROVE  Guided'
<1>0. TypeOK
  BY DEF IInv
<1>t. PICK t \in 1..count : t = trig[g].task
  BY DEF IInv, RowInv, TriggerRuns
<1>1. t \in Tasks /\ Held(t)
  BY <1>0, CountTasks DEF Guided
<1>2. UNCHANGED <<count, task, op, recovering>>
  BY DEF TriggerRuns, dbVars
<1>3. (\A u \in Tasks : QueueKept(u))
      /\ \E i \in DOMAIN queue'[t] : queue'[t][i] = [kind |-> "pass", resume |-> FALSE]
  BY <1>0, <1>t, <1>1, ItemTypes, EnqueueKeeps DEF TriggerRuns
<1>4. \A h \in Triggers \ {g} : trig'[h] = trig[h]
  BY <1>0, TriggerEndsEffect DEF TriggerRuns
<1>5. PendingHeld(t)'
  BY <1>3 DEF PendingHeld
<1>6. RunningHeld(t) => RunningHeld(t)'
  BY <1>1, <1>2, <1>3, QueuedStay, HeldBy
     DEF RunningHeld, ResumptionQueued, AbandonmentQueued, Abandoned, Resuming
<1>7. Held(t)'
  BY <1>1, <1>2, <1>3, <1>5, <1>6, QueuedStay, Unmoved DEF Held
<1>8. \A u \in Tasks \ {t} : HeldSame(u)
  BY <1>t, <1>2, <1>3, <1>4, OtherTriggersKept, Unmoved DEF HeldSame
<1> QED BY <1>0, <1>2, <1>7, <1>8, OneHeld

\* A trigger that adds a row is about to run it.
LEMMA NewRowGuided ==
  ASSUME IInv, Guided, NEW g \in Triggers, trig[g].at # "run", count + 1 \in Tasks,
         count' = count + 1, task' = [task EXCEPT ![count + 1] = NewRow(trig[g].ps)],
         TriggerReturns(g, count + 1), UNCHANGED <<queue, op, recovering>>
  PROVE  Guided'
<1>n. PICK n \in Tasks : n = count + 1
  OBVIOUS
<1>0. TypeOK /\ count \in Nat /\ 1..count \subseteq Tasks /\ n \in 0..NTasks
  BY <1>n, CountTasks DEF IInv, Tasks
<1>1. /\ task'[n].state = "REVIEW_PENDING" /\ \A u \in Tasks \ {n} : task'[u] = task[u]
  BY <1>n, <1>0 DEF TypeOK, NewRow
<1>2. /\ trig'[g].at = "run" /\ trig'[g].task = n /\ \A h \in Triggers \ {g} : trig'[h] = trig[h]
  BY <1>0, <1>n, TriggerReturnsEffect
<1>3. Held(n)'
  <2>1. State(n)' = "REVIEW_PENDING" /\ ~op'[n].aborted
    BY <1>n, <1>0, <1>1 DEF State, Guided
  <2>2. PendingHeld(n)'
    BY <1>2 DEF PendingHeld
  <2> QED BY <2>1, <2>2 DEF Held
<1>4. \A u \in Tasks \ {n} : HeldSame(u)
  BY <1>1, <1>2, OtherTriggersKept, NothingTaken DEF HeldSame, State
<1>5. \A u \in 1..count : Held(u)'
  <2>1. \A u \in 1..count : u \in Tasks \ {n} /\ Held(u)
    BY <1>n, <1>0 DEF Guided
  <2> QED BY <1>4, <2>1, SameHeld
<1>6. \A u \in 1..(count + 1) : Held(u)'
  BY <1>n, <1>0, <1>3, <1>5
<1>7. \A u \in Tasks : u > count + 1 => ~op'[u].aborted
  <2>1. \A u \in Tasks : u > count + 1 => u > count
    BY <1>0 DEF Tasks
  <2> QED BY <2>1 DEF Guided
<1> QED BY <1>6, <1>7 DEF Guided

LEMMA TriggerActsGuided ==
  ASSUME IInv, Guided, NEW g \in Triggers, TriggerActs(g)
  PROVE  Guided'
<1>0. TypeOK /\ count \in 0..NTasks /\ task \in [Tasks -> Rows]
  BY DEF IInv, TypeOK
<1>1. UNCHANGED <<queue, op, recovering>> /\ trig[g].at # "run"
  BY DEF TriggerActs
<1>2. \/ /\ TriggerEnds(g) \/ TriggerReturns(g, count)
         /\ count' = count /\ (task' = task \/ task' = [task EXCEPT ![count].cur = trig[g].ps])
      \/ /\ count + 1 \in Tasks /\ TriggerReturns(g, count + 1)
         /\ count' = count + 1 /\ task' = [task EXCEPT ![count + 1] = NewRow(trig[g].ps)]
  <2> DEFINE action == IF count = 0 THEN "fallthrough"
                       ELSE Evaluate(task[count], trig[g].ps, trig[g].force)
  <2> HIDE DEF action
  <2> QED BY DEF TriggerActs, action
<1>3. CASE /\ TriggerEnds(g) \/ TriggerReturns(g, count)
           /\ count' = count /\ (task' = task \/ task' = [task EXCEPT ![count].cur = trig[g].ps])
  <2>1. \A h \in Triggers \ {g} : trig'[h] = trig[h]
    BY <1>0, <1>3, TriggerEndsEffect, TriggerReturnsEffect
  <2>2. \A u \in Tasks : State(u)' = State(u)
    BY <1>0, <1>3 DEF State, Rows
  <2>3. \A u \in Tasks : HeldSame(u)
    BY <1>1, <2>1, <2>2, OtherTriggersKept, NothingTaken DEF HeldSame
  <2> QED BY <1>0, <1>3, <2>3, AllSame
<1>4. CASE /\ count + 1 \in Tasks /\ TriggerReturns(g, count + 1)
           /\ count' = count + 1 /\ task' = [task EXCEPT ![count + 1] = NewRow(trig[g].ps)]
  BY <1>1, <1>4, NewRowGuided
<1> QED BY <1>2, <1>3, <1>4

\* A restart leaves every row that is still active to the recovery.
LEMMA RestartGuided ==
  ASSUME IInv, Guided, Restart
  PROVE  Guided'
<1>0. 1..count \subseteq Tasks /\ count' = count
  BY CountTasks DEF IInv, Restart
<1>1. \A u \in Tasks : ~op'[u].aborted
  BY DEF Restart, Idle
<1>2. \A u \in 1..count : Held(u)'
  <2>1. \A u \in Tasks : recovering'[u] = "boot"
    BY DEF Restart
  <2> QED BY <1>0, <1>1, <2>1 DEF Held, PendingHeld, RunningHeld
<1> QED BY <1>0, <1>1, <1>2 DEF Guided

\* The recovery turns to every task that is active.
LEMMA RecoveryReadsGuided ==
  ASSUME IInv, Guided, RecoveryReads
  PROVE  Guided'
<1>0. 1..count \subseteq Tasks /\ count \in Nat
  BY CountTasks DEF IInv
<1>1. UNCHANGED <<count, task, queue, op, trig>>
  BY DEF RecoveryReads, dbVars
<1>2. \A u \in Tasks : /\ AbandonmentQueued(u) => AbandonmentQueued(u)'
                       /\ State(u)' = State(u)
  BY <1>1, NothingTaken, QueuedStay, Unmoved
<1>3. \A u \in 1..count : State(u) \in Active => recovering'[u] = "start"
  BY <1>0 DEF RecoveryReads
<1>4. \A u \in 1..count : Held(u)'
  <2> SUFFICES ASSUME NEW u \in 1..count PROVE Held(u)'
    OBVIOUS
  <2>1. u \in Tasks /\ Held(u) /\ op'[u] = op[u]
    BY <1>0, <1>1 DEF Guided
  <2>2. State(u)' = "REVIEW_PENDING" => PendingHeld(u)'
    BY <1>2, <1>3, <2>1 DEF PendingHeld, Active
  <2>3. State(u)' = "REVIEW_RUNNING" => RunningHeld(u)'
    BY <1>2, <1>3, <2>1 DEF RunningHeld, Active
  <2> QED BY <1>2, <2>1, <2>2, <2>3 DEF Held
<1> QED BY <1>1, <1>4 DEF Guided

LEMMA InitGuided == Init => Guided
<1> SUFFICES ASSUME Init PROVE Guided
  OBVIOUS
<1>1. count = 0 /\ \A t \in Tasks : ~op[t].aborted
  BY DEF Init, Idle
<1> QED BY <1>1 DEF Guided

LEMMA StepGuided == IInv /\ Guided /\ [Next]_vars => Guided'
<1> SUFFICES ASSUME IInv, Guided, [Next]_vars PROVE Guided'
  OBVIOUS
<1>1. ASSUME NEW t \in Tasks, PassStep(t) PROVE Guided'
  BY <1>1, PassGuided, BeginGuided DEF PassStep
<1>2. ASSUME NEW t \in Tasks, RecoverStep(t) \/ PollStep(t) \/ Webhook(t) \/ AbandonTask(t) \/ RetryTask(t)
      PROVE  Guided'
  BY <1>2, RecoverGuided, PollGuided, OperatorGuided DEF PollStep
<1>3. ASSUME NEW g \in Triggers, TriggerStep(g) \/ \E force \in BOOLEAN : TriggerReadsChange(g, force)
      PROVE  Guided'
  BY <1>3, TriggerActsGuided, TriggerRunsGuided, TriggerReadsGuided DEF TriggerStep
<1>4. CASE Restart
  BY <1>4, RestartGuided
<1>5. CASE NewPatchset \/ CloseChange \/ UNCHANGED vars
  <2>1. UNCHANGED <<count, task, queue, op, trig, recovering>> /\ TypeOK
    BY <1>5 DEF NewPatchset, CloseChange, vars, dbVars, IInv
  <2>2. \A u \in Tasks : HeldSame(u)
    BY <2>1, NothingTaken, Unmoved DEF HeldSame
  <2> QED BY <2>1, <2>2, AllSame
<1>6. CASE RecoveryReads
  BY <1>6, RecoveryReadsGuided
<1> QED
  BY <1>1, <1>2, <1>3, <1>4, <1>5, <1>6 DEF Next

LEMMA SpecGuided == Spec => []Guided
<1>1. Init => Guided
  BY InitGuided
<1>2. IInv /\ Guided /\ [Next]_vars => Guided'
  BY StepGuided
<1> QED
  BY <1>1, <1>2, SpecIInv, PTL DEF Spec

\* No task is left in REVIEW_PENDING or REVIEW_RUNNING with nobody to turn to
\* it (runReview, runReviewPass, recoverReview, retryTask).
THEOREM NothingStranded == Spec => []NeverStranded
<1>1. Guided => NeverStranded
  BY DEF Guided, Held, NeverStranded
<1> QED
  BY <1>1, SpecGuided, PTL

\* A pass that was aborted, and so leaves its task alone, has the abandonment
\* of the task behind it (AsyncTaskLifecycleCoordinator.abandonTask).
THEOREM AbortedAreAbandoned == Spec => []AbortedByAbandonment
<1>1. Guided => AbortedByAbandonment
  BY DEF Guided, Held, AbandonmentQueued, Abandoned, AbortedByAbandonment
<1> QED
  BY <1>1, SpecGuided, PTL
=============================================================================
