--------------------------- MODULE MCOutcomeReports ---------------------------
(* Small instances of OutcomeReports for TLC. *)
EXTENDS OutcomeReports, TLC

CONSTANTS r1, r2, p1, p2, p3

MCRows == {r1, r2}
MCReports == {p1, p2, p3}
=============================================================================
