----------------------- MODULE MCConcurrencyTracker -----------------------
(* Instances of ConcurrencyTracker for TLC. *)
EXTENDS ConcurrencyTracker, TLC

CONSTANTS w1, w2, w3, c1, a1, a2, i1, p1, p2

Rec(i, n) == [integration |-> i, maxConcurrent |-> n]

\* Two agents; w1, w3 and the direct caller use a1, w2 uses a2.
MCAgentOf   == [x \in Calls |-> IF x = w2 THEN a2 ELSE a1]
MCProjectOf == [x \in Calls |-> IF x \in {w1, w2} THEN p1 ELSE p2]

\* Creation times: w3 is the oldest task, w1 and w2 were created together.
MCByAge == (w1 :> 2 @@ w2 :> 2 @@ w3 :> 1)

\* Two agents share an integration with different limits.
MCShared   == (a1 :> {Rec(i1, 1)} @@ a2 :> {Rec(i1, 2)})
\* The admin moves a2 between integrations and changes its limit; on its own
\* it is a key of its own, and a missing limit counts as 1.
MCEdited   == (a1 :> {Rec(i1, 1)} @@ a2 :> {Rec(NoIntegration, 0), Rec(i1, 2)})
============================================================================
