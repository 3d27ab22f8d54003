----------------------------- MODULE MCPodConfig -----------------------------
(***************************************************************************)
(* Values for the constants of PodConfig.                                  *)
(***************************************************************************)
EXTENDS PodConfig

CONSTANTS u1, u2, m1

\* u1 and u2 are pods of a file that have one name, in turn or at once; m1 is their
\* mirror pod, which the API server has.
OneName == [u \in {u1, u2, m1} |-> "a"]
TwoSources == [u \in {u1, u2, m1} |-> IF u = m1 THEN "api" ELSE "file"]
=============================================================================
