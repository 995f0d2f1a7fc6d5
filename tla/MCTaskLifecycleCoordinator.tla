---------------------- MODULE MCTaskLifecycleCoordinator ----------------------
(* Instances of TaskLifecycleCoordinator for TLC. *)
EXTENDS TaskLifecycleCoordinator, TLC

CONSTANTS t1, t2, t3, r1, r2, r3, k1, s1, s2, d1, d2, p1

\* t1 exists, t2 and t3 are created by the starts s1 and s2; r3 runs for t2.
MCTaskOf == [x \in Calls |-> CASE x \in {r1, r2, k1} -> t1
                               [] x \in {r3, s1} -> t2
                               [] OTHER -> t3]
MCProjectOf == [t \in Tasks |-> p1]
MCDeleted   == [d \in Deletes |-> p1]
=============================================================================
