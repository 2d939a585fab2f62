-------------------------- MODULE MCPredictionWriter --------------------------
(* Small instances of PredictionWriter for TLC. *)
EXTENDS PredictionWriter, TLC

CONSTANTS u1, u2

MCUsers == {u1, u2}
\* Users are only compared for equality.
Symmetry == Permutations(MCUsers)
=============================================================================
