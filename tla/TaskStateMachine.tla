--------------------------- MODULE TaskStateMachine ---------------------------
(***************************************************************************)
(* The states of a task and the transitions the store lets it make         *)
(* (state/stateMachine.ts, and the three store operations that bypass its  *)
(* table).  Specification Spec is what the rest of the system may assume   *)
(* of a task row; CodeGenTask implements it.                               *)
(***************************************************************************)

CONSTANT TaskType   \* "code-gen" or "code-review"

VARIABLE state

Edges ==
  [DETECTED            |-> {"CONTEXT_BUILDING", "FAILED"},
   CONTEXT_BUILDING    |-> {"AGENT_RUNNING", "FAILED"},
   AGENT_RUNNING       |-> {"IN_REVIEW", "RETRY_CYCLE", "FAILED", "ABANDONED"},
   IN_REVIEW           |-> {"FEEDBACK_PROCESSING", "MERGED", "ABANDONED", "FAILED"},
   FEEDBACK_PROCESSING |-> {"RETRY_CYCLE", "IN_REVIEW", "FAILED", "ABANDONED"},
   RETRY_CYCLE         |-> {"AGENT_RUNNING", "ABANDONED", "FAILED"},
   MERGED              |-> {"CLOSING", "DONE", "FAILED"},
   CLOSING             |-> {"DONE", "FAILED"},
   DONE                |-> {},
   FAILED              |-> {},
   ABANDONED           |-> {},
   REVIEW_PENDING      |-> {"REVIEW_RUNNING", "REVIEW_FAILED"},
   REVIEW_RUNNING      |-> {"REVIEW_COMMENTING", "REVIEW_FAILED"},
   REVIEW_COMMENTING   |-> {"REVIEW_WATCHING", "REVIEW_DONE", "REVIEW_FAILED"},
   REVIEW_WATCHING     |-> {"REVIEW_RUNNING", "REVIEW_DONE", "REVIEW_FAILED"},
   REVIEW_DONE         |-> {},
   REVIEW_FAILED       |-> {}]

States   == DOMAIN Edges
Terminal == {"DONE", "FAILED", "ABANDONED", "REVIEW_DONE", "REVIEW_FAILED"}

\* validateTransition does not throw.
Legal(from, to) == from = to \/ to \in Edges[from]

Initial == IF TaskType = "code-gen" THEN "DETECTED" ELSE "REVIEW_PENDING"

-----------------------------------------------------------------------------
transition(to) == to \in Edges[state] /\ state' = to

\* abandonTask and deleteTask write ABANDONED without consulting the table.
abandonTask == state \notin Terminal /\ state' = "ABANDONED"

\* retryTask looks at no state at all.
retryTask == state' = Initial

Init == state = Initial
Next == (\E to \in States : transition(to)) \/ abandonTask \/ retryTask
Spec == Init /\ [][Next]_state
=============================================================================
