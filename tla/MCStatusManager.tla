--------------------------- MODULE MCStatusManager ---------------------------
(***************************************************************************)
(* Values for the constants of StatusManager.                              *)
(***************************************************************************)
EXTENDS StatusManager, TLC

CONSTANTS u1, u2

\* two pods of one name
Symmetry == Permutations({u1, u2})

OneName == [u \in {u1} |-> "a"]
SameName == [u \in {u1, u2} |-> "a"]

OnlyPending == {NoStatus}
=============================================================================
