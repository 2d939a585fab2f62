------------------------------ MODULE DriftScores ------------------------------
(***************************************************************************)
(* How a live sample of one feature is scored against training:            *)
(* training_distribution of src/training/train_model.py describes the      *)
(* column, and feature_scores and _bucket of src/app/services/drift.py     *)
(* count a sample against the description.                                 *)
(*                                                                         *)
(* Values are integers; an edge of a bin is held multiplied by Bins, so    *)
(* that the interpolated quantiles are integers too.  Shares are compared  *)
(* as fractions.  A PSI is abstracted to the bins that contribute to it:   *)
(* it is zero when there are none and positive otherwise.                  *)
(*                                                                         *)
(* A training column has the values of a kind: numbers, or texts, of which *)
(* only their equality is used; "absent" is that of a model whose metadata *)
(* describes no training data.                                             *)
(***************************************************************************)
EXTENDS Integers, Sequences, FiniteSetsExt

CONSTANTS
    Bins,     \* PSI_BINS
    RareOf,   \* a category is common from one in RareOf on: MIN_EXPECTED_SHARE
    NaN       \* a value missing from the training data

ASSUME ScoresAssumption == Bins \in Nat \ {0} /\ RareOf \in Nat \ {0}

Count(s, Test(_)) == Cardinality({i \in DOMAIN s : Test(s[i])})

\* A set of integers from the smallest to the largest.  (SortSeq and SelectSeq
\* are built into the tools and have no definition a proof could use.)
Ascending(S) ==
    [k \in 1..Cardinality(S) |-> CHOOSE x \in S : Cardinality({y \in S : y <= x}) = k]

-----------------------------------------------------------------------------
(* Training                                                                *)

TrainingColumns == [kind : {"absent", "number", "text"}, values : Seq(Int \cup {NaN})]

\* dropna.
Present(values) ==
    LET at == Ascending({i \in DOMAIN values : values[i] # NaN})
    IN [k \in DOMAIN at |-> values[at[k]]]

\* The value at place k of the sorted sample.
Smallest(s, k) ==
    CHOOSE v \in Range(s) : Count(s, LAMBDA w : w < v) < k /\ k <= Count(s, LAMBDA w : w <= v)

\* np.quantile of a sample at k / Bins: linear between neighbours.
Quantile(s, k) ==
    LET place == (Len(s) - 1) * k
        i == place \div Bins
        part == place % Bins
    IN Smallest(s, i + 1) * (Bins - part) + (IF part = 0 THEN 0 ELSE Smallest(s, i + 2) * part)

\* np.unique of the quantiles.
EdgesOf(s) == Ascending({Quantile(s, k) : k \in 0..Bins})

\* Mutation of Histogram: every bin is closed on the right, not on the left.
HistogramRightClosed(s, edges) ==
    [b \in 1..(Len(edges) - 1) |->
        Count(s, LAMBDA v : /\ v * Bins <= edges[b + 1]
                            /\ edges[b] < v * Bins \/ (b = 1 /\ edges[b] = v * Bins))]
\* np.histogram: a bin holds its left edge, and the last one its right edge too.
Histogram(s, edges) ==
    [b \in 1..(Len(edges) - 1) |->
        Count(s, LAMBDA v : /\ edges[b] <= v * Bins
                            /\ v * Bins < edges[b + 1]
                               \/ (b = Len(edges) - 1 /\ v * Bins = edges[b + 1]))]

\* A column of texts, or of few distinct numbers, is described by its categories,
\* any other by bins.  Shares have the denominator total: where all values are
\* missing there is no category, and every share is zero.
Describe(column) ==
    LET s == Present(column.values)
        values == Range(s)
    IN IF column.kind = "absent" THEN [kind |-> "none"]
       ELSE IF column.kind = "text" \/ Cardinality(values) <= Bins
       THEN [kind |-> "categorical", total |-> IF s = <<>> THEN 1 ELSE Len(s),
             counts |-> [c \in values |-> Count(s, LAMBDA v : v = c)]]
       ELSE [kind |-> "numeric", total |-> Len(s), edges |-> EdgesOf(s),
             counts |-> Histogram(s, EdgesOf(s))]

-----------------------------------------------------------------------------
(* Serving                                                                 *)

\* Mutation of Bisect: the search goes left at an edge.
BisectLeft(v, edges) ==
    LET search[w \in (1..Len(edges)) \X (1..Len(edges))] ==
            LET mid == (w[1] + w[2]) \div 2
            IN IF w[1] >= w[2] - 1 THEN w[1]
               ELSE IF v * Bins <= edges[mid] THEN search[<<w[1], mid>>]
               ELSE search[<<mid, w[2]>>]
    IN search[<<1, Len(edges)>>]
Bisect(v, edges) ==
    LET search[w \in (1..Len(edges)) \X (1..Len(edges))] ==
            LET mid == (w[1] + w[2]) \div 2
            IN IF w[1] >= w[2] - 1 THEN w[1]
               ELSE IF v * Bins < edges[mid] THEN search[<<w[1], mid>>]
               ELSE search[<<mid, w[2]>>]
    IN search[<<1, Len(edges)>>]

\* The bin of a value, the tails clamped inward.
Bucket(v, edges) ==
    IF v * Bins <= edges[1] THEN 1
    ELSE IF v * Bins >= edges[Len(edges)] THEN Len(edges) - 1
    ELSE Bisect(v, edges)

\* The categories that are not rare in training.
Common(ref) == {c \in DOMAIN ref.counts : ref.counts[c] * RareOf >= ref.total}

\* Mutation of Pooled: a category the training never saw is not counted.
PooledIfTrained(ref, v) == v \in DOMAIN ref.counts /\ v \notin Common(ref)
\* Rare and unseen categories share one bin.
Pooled(ref, v) == v \notin Common(ref)

\* Bins are numbered, or named by their category; the pool has the name that no
\* category has.
Pool == NaN

Expected(ref) ==
    IF ref.kind = "numeric" THEN ref.counts
    ELSE [b \in Common(ref) \cup {Pool} |->
             IF b = Pool
             THEN FoldSet(LAMBDA c, n : ref.counts[c] + n, 0, DOMAIN ref.counts \ Common(ref))
             ELSE ref.counts[b]]

Actual(ref, sample) ==
    IF ref.kind = "numeric"
    THEN [b \in DOMAIN ref.counts |-> Count(sample, LAMBDA v : Bucket(v, ref.edges) = b)]
    ELSE [b \in Common(ref) \cup {Pool} |->
             Count(sample, LAMBDA v : IF b = Pool THEN Pooled(ref, v) ELSE v = b)]

\* The bins of unequal shares: psi(expected, actual) is zero if there are none.
Psi(ref, sample) ==
    {b \in DOMAIN Expected(ref) :
        Expected(ref)[b] * Len(sample) # Actual(ref, sample)[b] * ref.total}

-----------------------------------------------------------------------------
(* Properties of one description                                           *)

\* Training and serving count alike: the training data itself, scored as live
\* traffic, has no drift, although the bins of np.histogram and the bisection
\* of _bucket are two pieces of code in two programs.
AgreesWith(ref, column) ==
    ref.kind # "none" => Psi(ref, Present(column.values)) = {}

\* Every value is in one bin, the one whose edges hold it, or at an end if it
\* is beyond them; every value of a sample is counted once.
CountsEach(ref, v) ==
    ref.kind # "none" =>
        /\ \E b \in DOMAIN Expected(ref) :
               Actual(ref, <<v>>) = [d \in DOMAIN Expected(ref) |-> IF d = b THEN 1 ELSE 0]
        /\ ref.kind = "numeric" =>
               LET b == Bucket(v, ref.edges)
               IN /\ b = 1 \/ ref.edges[b] <= v * Bins
                  /\ b = Len(ref.edges) - 1 \/ v * Bins < ref.edges[b + 1]
=============================================================================
