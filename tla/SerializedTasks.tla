---------------------------- MODULE SerializedTasks ----------------------------
(***************************************************************************)
(* What TaskLifecycleCoordinator promises to those who call it: operations *)
(* that share a task run one at a time and in the order of their calls,    *)
(* each of them once, and an operation without a task in common with those *)
(* under way waits for none of them.                                       *)
(*                                                                         *)
(* An operation remembers which operations it waits for; how it learns of  *)
(* their end (a promise per task, waited for by the next one) is left to   *)
(* TaskLifecycleCoordinator, which implements Spec.                        *)
(***************************************************************************)
CONSTANTS Operations, Tasks

VARIABLES
  state,   \* per operation: "out", "waiting", "inside", "over"
  tasks,   \* the tasks of an operation that is waiting or inside
  ahead    \* the operations it has to wait for

vars == <<state, tasks, ahead>>

Present(o) == state[o] \in {"waiting", "inside"}

\* The operation is called for the tasks T.
Join(o, T) ==
  /\ state[o] = "out"
  /\ state' = [state EXCEPT ![o] = "waiting"]
  /\ tasks' = [tasks EXCEPT ![o] = T]
  /\ ahead' = [ahead EXCEPT ![o] = {p \in Operations : Present(p) /\ tasks[p] \cap T # {}}]

\* Nobody is ahead of it any more: it begins.
Enter(o) ==
  /\ state[o] = "waiting" /\ ahead[o] = {}
  /\ state' = [state EXCEPT ![o] = "inside"]
  /\ UNCHANGED <<tasks, ahead>>

\* It ends, and the operations behind it wait for one less.
Leave(o) ==
  /\ state[o] = "inside"
  /\ state' = [state EXCEPT ![o] = "over"]
  /\ tasks' = [tasks EXCEPT ![o] = {}]
  /\ ahead' = [p \in Operations |-> ahead[p] \ {o}]

\* It is refused, or given up, before it has joined.
Withdraw(o) ==
  /\ state[o] = "out"
  /\ state' = [state EXCEPT ![o] = "over"]
  /\ UNCHANGED <<tasks, ahead>>

Init ==
  /\ state = [o \in Operations |-> "out"]
  /\ tasks = [o \in Operations |-> {}]
  /\ ahead = [o \in Operations |-> {}]

Next == \E o \in Operations :
          \/ \E T \in SUBSET Tasks : Join(o, T)
          \/ Enter(o) \/ Leave(o) \/ Withdraw(o)

Spec == Init /\ [][Next]_vars
=============================================================================
