----------------------------- MODULE MCPodCache -----------------------------
(***************************************************************************)
(* Values for the constants of PodCache.                                   *)
(***************************************************************************)
EXTENDS PodCache

CONSTANTS p1, r1, r2, w1, w2
=============================================================================
