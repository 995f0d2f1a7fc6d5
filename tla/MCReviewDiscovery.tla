-------------------------- MODULE MCReviewDiscovery --------------------------
(* Instances of ReviewDiscovery for TLC. *)
EXTENDS ReviewDiscovery, TLC

CONSTANTS c1, c2, p1, p2

\* Two changes of one repository, or of two.
MCListings == {<<<<c1, c2>>>>, <<<<c2, c1>>>>, <<<<c1>>, <<c2>>>>, <<<<c2>>, <<c1>>>>}

\* No change and no poll is special.
MCSymmetry == Permutations(Changes) \cup Permutations(Polls)
=============================================================================
