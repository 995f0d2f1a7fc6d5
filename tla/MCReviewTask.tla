---------------------------- MODULE MCReviewTask ----------------------------
(* Instances of ReviewTask for TLC. *)
EXTENDS ReviewTask, TLC

CONSTANTS f1, m1, g1, g2

\* Nothing tells one call of triggerReviewForChange from another.
TriggerSymmetry == Permutations(Triggers)
=============================================================================
