---------------------------- MODULE MCRateLimiter ----------------------------
(* Small instances of RateLimiter for TLC. *)
EXTENDS RateLimiter, TLC

CONSTANTS q1, q2, q3, c1, c2

MCRequests == {q1, q2, q3}
MCClients == {c1, c2}
\* Requests and clients are only compared for equality.
Symmetry == Permutations(MCRequests) \cup Permutations(MCClients)
=============================================================================
