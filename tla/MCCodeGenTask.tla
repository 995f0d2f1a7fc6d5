---------------------------- MODULE MCCodeGenTask ----------------------------
(* Instances of CodeGenTask for TLC. *)
EXTENDS CodeGenTask, TLC

CONSTANTS c1, c2

\* c1 is about the first repository; c2 about the last one.
MCRepoOf == [c \in Comments |-> IF c = c1 THEN 1 ELSE NRepos]

\* What agents were given is history: no guard and no property of CG_safe
\* reads it, so it need not tell states apart.
SafeView == <<state, mark, dbVars, queue, op, outVars, left>>
=============================================================================
