------------------------------ MODULE MCAccounts ------------------------------
(* Small instances of Accounts for TLC. *)
EXTENDS Accounts, TLC

CONSTANTS s1, s2, n0, n1, p, q

MCSlots == {s1, s2}
MCNames == {n0, n1}
MCPasswords == {p, q}
MCSeedName == 0 :> n0
=============================================================================
