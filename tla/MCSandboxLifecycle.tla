-------------------------- MODULE MCSandboxLifecycle --------------------------
(* Instances of SandboxLifecycle for TLC. *)
EXTENDS SandboxLifecycle, TLC

CONSTANTS t1, a1, a2

\* a2 is another attempt for the task of a1.
MCTaskOf == [a \in Attempts |-> t1]
=============================================================================
