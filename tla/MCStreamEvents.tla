---------------------------- MODULE MCStreamEvents ----------------------------
(* Instances of StreamEvents for TLC. *)
EXTENDS StreamEvents, TLC

CONSTANTS k1, k2, h1, h2, h3
=============================================================================
