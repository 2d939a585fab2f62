----------------------------- MODULE MCModelCache -----------------------------
(* Small instances of ModelCache for TLC. *)
EXTENDS ModelCache, TLC

CONSTANTS w1, w2, r1, r2, c1

MCWorkers == {w1, w2}
MCRequests == {r1, r2}
MCCars == {c1}
\* Workers and requests are only compared for equality.
Symmetry == Permutations(MCWorkers) \cup Permutations(MCRequests)
=============================================================================
