---------------------------- MODULE MCDriftMonitor ----------------------------
(* Small instances of DriftMonitor for TLC. *)
EXTENDS DriftMonitor

Numbers(values) == [kind |-> "number", values |-> values]
Texts(values) == [kind |-> "text", values |-> values]

\* No metadata; all values missing; few numbers and many texts, both with rare
\* ones; numbers with ties, with quantiles that fall together, and with edges on
\* and between values.
MCColumns == {
    [kind |-> "absent", values |-> <<>>],
    Numbers(<<NaN, NaN>>),
    Numbers(<<1, 1, 1, 2, 2, 2, 2, 3>>),
    Texts(<<3, 1, 1, 4, 2, 3, NaN, 3, 1, 1>>),
    Numbers(<<1, 2, 3, 4, 5, 6, 7>>),
    Numbers(<<NaN, 5, 3, 1, 9, 7, 1, NaN, 4, 8>>),
    Numbers(<<2, 2, 2, 2, 2, 2, 3, 5, 9>>)}
MCValues == {0, 3}
\* On every edge, between the edges and beyond both ends.
MCProbes == 0..10
=============================================================================
