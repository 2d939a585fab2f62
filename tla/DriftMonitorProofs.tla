--------------------------- MODULE DriftMonitorProofs ---------------------------
(***************************************************************************)
(* Theorems about DriftMonitor and about DriftScores, on which it is       *)
(* built, for every number of bins, every share of a rare category, any    *)
(* training columns and any bounds.                                        *)
(*                                                                         *)
(* The first parts are about the algorithms.  What np.quantile, np.unique  *)
(* and np.histogram make of a column is defined by ranks and counts, what  *)
(* _bucket does of a value by a recursion, and the pool of rare categories *)
(* by a fold.  A recursion is unfolded to a function that solves it, and   *)
(* each solution is shown to be right from its least counterexample.       *)
(* Between the outer edges both programs then count alike: a value belongs *)
(* to one pair of neighbouring edges, and both find it.                    *)
(*                                                                         *)
(* The last parts are about the monitor: the reference is always that of   *)
(* its column, and a report is published together with its gauges.         *)
(***************************************************************************)
EXTENDS DriftMonitor, FiniteSetTheorems, FunctionTheorems, WellFoundedInduction, TLAPS

-----------------------------------------------------------------------------
(* Order statistics of a sample                                            *)

\* The order of the natural numbers, for induction over the length of a list.
Less == {p \in Nat \X Nat : p[1] < p[2]}

\* Every set of natural numbers has a least one: a property of lists, of bounds of
\* a search or of sets of categories is proved from its least counterexample.
LEMMA LeastNat ==
    ASSUME NEW T, T \subseteq Nat, T # {}
    PROVE  \E x \in T : \A y \in T : x <= y
<1>1. OpToRel(<, Nat) = Less
  BY DEF OpToRel, Less
<1>2. PICK x \in T : \A y \in T : ~(<<y, x>> \in Less)
  BY <1>1, NatLessThanWellFounded, WFMin
<1>. QED
  <2>. SUFFICES ASSUME NEW y \in T PROVE x <= y
    OBVIOUS
  <2>1. ~(y < x)
    <3>. SUFFICES ASSUME y < x PROVE FALSE
      OBVIOUS
    <3>1. <<y, x>> \in Less
      BY SMT DEF Less
    <3>. QED
      BY <3>1, <1>2
  <2>. QED
    BY <2>1

\* The rank of a member: how many are not greater.
UpTo(S, x) == {y \in S : y <= x}
Rank(S, x) == Cardinality(UpTo(S, x))

\* The rank of a member is a place of Ascending.
LEMMA RankType ==
    ASSUME NEW S, S \subseteq Int, IsFiniteSet(S), NEW x \in S
    PROVE  Rank(S, x) \in 1..Cardinality(S)
<1>1. UpTo(S, x) \in SUBSET S /\ x \in UpTo(S, x)
  BY DEF UpTo
<1>2. IsFiniteSet(UpTo(S, x)) /\ Cardinality(UpTo(S, x)) <= Cardinality(S)
  BY <1>1, FS_Subset
<1>3. Cardinality(UpTo(S, x)) \in Nat /\ Cardinality(S) \in Nat
  BY <1>2, FS_CardinalityType
<1>4. Cardinality(UpTo(S, x)) # 0
  BY <1>1, <1>2, FS_EmptySet
<1>. QED
  BY <1>2, <1>3, <1>4 DEF Rank

\* A greater member has a greater rank.
LEMMA RankGrows ==
    ASSUME NEW S, S \subseteq Int, IsFiniteSet(S), NEW x \in S, NEW y \in S, x < y
    PROVE  Rank(S, x) < Rank(S, y)
<1>0. x \in Int /\ y \in Int
  OBVIOUS
<1>1. UpTo(S, x) \in SUBSET UpTo(S, y)
  <2>. SUFFICES ASSUME NEW z \in S, z <= x PROVE z <= y
    BY DEF UpTo
  <2>1. z \in Int
    OBVIOUS
  <2>. QED
    BY <1>0, <2>1
<1>2. y \in UpTo(S, y) /\ y \notin UpTo(S, x)
  BY <1>0 DEF UpTo
<1>3. UpTo(S, y) \in SUBSET S
  BY DEF UpTo
<1>4. IsFiniteSet(UpTo(S, y))
  BY <1>3, FS_Subset
<1>5. /\ Cardinality(UpTo(S, x)) <= Cardinality(UpTo(S, y))
      /\ Cardinality(UpTo(S, x)) # Cardinality(UpTo(S, y))
  BY <1>1, <1>2, <1>4, FS_Subset
<1>6. Rank(S, x) \in 1..Cardinality(S) /\ Rank(S, y) \in 1..Cardinality(S)
  BY RankType
<1>7. Cardinality(S) \in Nat
  BY FS_CardinalityType
<1>8. Rank(S, x) \in Int /\ Rank(S, y) \in Int
  BY ONLY <1>6, <1>7
<1>. QED
  BY <1>5, <1>8 DEF Rank

\* Ranks order the members as they are ordered.
LEMMA RankOrder ==
    ASSUME NEW S, S \subseteq Int, IsFiniteSet(S), NEW x \in S, NEW y \in S
    PROVE  /\ Rank(S, x) = Rank(S, y) => x = y
           /\ Rank(S, x) < Rank(S, y) => x < y
<1>0. x \in Int /\ y \in Int
  OBVIOUS
<1>1. x < y => Rank(S, x) < Rank(S, y)
  BY RankGrows
<1>2. y < x => Rank(S, y) < Rank(S, x)
  BY RankGrows
<1>3. Rank(S, x) \in 1..Cardinality(S) /\ Rank(S, y) \in 1..Cardinality(S)
  BY RankType
<1>4. Cardinality(S) \in Nat
  BY FS_CardinalityType
<1>5. Rank(S, x) \in Int /\ Rank(S, y) \in Int
  BY ONLY <1>3, <1>4
<1>. QED
  BY ONLY <1>0, <1>1, <1>2, <1>5

\* Each place of Ascending is taken.
LEMMA RankSurjective ==
    ASSUME NEW S, S \subseteq Int, IsFiniteSet(S), NEW k \in 1..Cardinality(S)
    PROVE  \E x \in S : Rank(S, x) = k
<1>. DEFINE n == Cardinality(S)
            f == [x \in S |-> Rank(S, x)]
<1>1. n \in Nat
  BY FS_CardinalityType
<1>2. f \in [S -> 1..n]
  BY RankType
<1>3. \A x, y \in S : f[x] = f[y] => x = y
  BY RankOrder
<1>. HIDE DEF f
<1>4. f \in Injection(S, 1..n)
  BY <1>2, <1>3 DEF Injection, IsInjective
<1>5. IsFiniteSet(1..n) /\ Cardinality(1..n) = n
  BY <1>1, FS_Interval
<1>6. f \in Surjection(S, 1..n)
  BY <1>4, <1>5, FS_Injection
<1>. QED
  BY <1>6 DEF Surjection, f

\* Ascending lists every member once, from the smallest to the largest.
LEMMA AscendingIs ==
    ASSUME NEW S, S \subseteq Int, IsFiniteSet(S)
    PROVE  /\ Cardinality(S) \in Nat
           /\ Ascending(S) \in [1..Cardinality(S) -> S]
           /\ \A x \in S : \E k \in 1..Cardinality(S) : Ascending(S)[k] = x
           /\ \A j, k \in 1..Cardinality(S) : j < k => Ascending(S)[j] < Ascending(S)[k]
<1>. DEFINE n == Cardinality(S)
            a == Ascending(S)
<1>0. n \in Nat
  BY FS_CardinalityType
<1>. DEFINE at(k) == CHOOSE x \in S : Rank(S, x) = k
<1>a. a = [k \in 1..n |-> at(k)]
  BY DEF Ascending, Rank, UpTo
<1>b. ASSUME NEW k \in 1..n PROVE at(k) \in S /\ Rank(S, at(k)) = k
  <2>1. \E x \in S : Rank(S, x) = k
    BY RankSurjective
  <2>. QED
    BY <2>1, Zenon
<1>. HIDE DEF a, at
<1>1. ASSUME NEW k \in 1..n PROVE a[k] \in S /\ Rank(S, a[k]) = k
  BY <1>a, <1>b
<1>2. a \in [1..n -> S]
  BY <1>a, <1>b
<1>3. ASSUME NEW x \in S PROVE \E k \in 1..n : a[k] = x
  <2>1. Rank(S, x) \in 1..n
    BY RankType
  <2>2. a[Rank(S, x)] \in S /\ Rank(S, a[Rank(S, x)]) = Rank(S, x)
    BY <1>1, <2>1
  <2>3. a[Rank(S, x)] = x
    BY <2>2, RankOrder
  <2>. QED
    BY <2>1, <2>3
<1>4. ASSUME NEW j \in 1..n, NEW k \in 1..n, j < k PROVE a[j] < a[k]
  <2>1. a[j] \in S /\ a[k] \in S /\ Rank(S, a[j]) = j /\ Rank(S, a[k]) = k
    BY <1>1
  <2>2. Rank(S, a[j]) < Rank(S, a[k])
    BY <1>4, <2>1
  <2>. QED
    BY <2>1, <2>2, RankOrder
<1>. QED
  BY <1>0, <1>2, <1>3, <1>4 DEF a

\* What is left of a column without its missing values.
LEMMA PresentIs ==
    ASSUME NEW vals \in Seq(Int \cup {NaN})
    PROVE  Present(vals) \in Seq(Int \ {NaN})
<1>. DEFINE P == {i \in DOMAIN vals : vals[i] # NaN}
            at == Ascending(P)
            n == Cardinality(P)
<1>1. Len(vals) \in Nat /\ DOMAIN vals = 1..Len(vals)
  OBVIOUS
<1>2. IsFiniteSet(1..Len(vals))
  BY <1>1, FS_Interval
<1>3. P \in SUBSET (1..Len(vals)) /\ P \subseteq Int
  BY <1>1
<1>4. IsFiniteSet(P)
  BY <1>2, <1>3, FS_Subset
<1>5. \A i \in P : vals[i] \in Int \ {NaN}
  OBVIOUS
<1>. HIDE DEF P
<1>6. n \in Nat /\ at \in [1..n -> P]
  BY <1>3, <1>4, AscendingIs
<1>7. Present(vals) = [k \in DOMAIN at |-> vals[at[k]]]
  BY DEF Present, P
<1>. HIDE DEF at, n
<1>8. Present(vals) \in [1..n -> Int \ {NaN}]
  BY <1>5, <1>6, <1>7
<1>. QED
  BY <1>6, <1>8

\* The values of a sample are finitely many.
LEMMA RangeIs ==
    ASSUME NEW s \in Seq(Int)
    PROVE  /\ Len(s) \in Nat /\ DOMAIN s = 1..Len(s) /\ IsFiniteSet(DOMAIN s)
           /\ Cardinality(DOMAIN s) = Len(s)
           /\ Range(s) \subseteq Int /\ IsFiniteSet(Range(s))
           /\ \A i \in DOMAIN s : s[i] \in Range(s)
<1>1. Len(s) \in Nat /\ DOMAIN s = 1..Len(s)
  OBVIOUS
<1>2. IsFiniteSet(1..Len(s)) /\ Cardinality(1..Len(s)) = Len(s)
  <2>. DEFINE n == Len(s)
  <2>1. n \in Int /\ 1 \in Int
    BY <1>1
  <2>. HIDE DEF n
  <2>2. IsFiniteSet(1..n) /\ Cardinality(1..n) = IF 1 > n THEN 0 ELSE n - 1 + 1
    BY <2>1, FS_Interval, Zenon
  <2>3. n \in Nat
    BY <1>1 DEF n
  <2>4. (IF 1 > n THEN 0 ELSE n - 1 + 1) = n
    BY <2>3
  <2>. QED
    BY <2>2, <2>4 DEF n
<1>3. Range(s) \subseteq Int /\ \A i \in DOMAIN s : s[i] \in Range(s)
  BY <1>1 DEF Range
<1>4. s \in Surjection(1..Len(s), Range(s))
  BY <1>1 DEF Surjection, Range
<1>5. IsFiniteSet(Range(s))
  BY <1>2, <1>4, FS_Surjection
<1>. QED
  BY <1>1, <1>2, <1>3, <1>5

\* What is counted is some of the sample.
Places(s, T) == {i \in DOMAIN s : s[i] \in T}

\* What is counted of a sample is a finite part of its places.
LEMMA PlacesIs ==
    ASSUME NEW s \in Seq(Int), NEW T
    PROVE  /\ IsFiniteSet(Places(s, T)) /\ Places(s, T) \in SUBSET DOMAIN s
           /\ Cardinality(Places(s, T)) \in 0..Len(s)
<1>1. Places(s, T) \in SUBSET DOMAIN s
  BY DEF Places
<1>2. IsFiniteSet(Places(s, T)) /\ Cardinality(Places(s, T)) <= Len(s)
  BY <1>1, RangeIs, FS_Subset
<1>3. Cardinality(Places(s, T)) \in Nat /\ Len(s) \in Nat
  BY <1>2, FS_CardinalityType
<1>. QED
  BY <1>1, <1>2, <1>3

\* How many of a sample are at most, or below, a value.
AtMost(s, v) == Count(s, LAMBDA w : w <= v)
Below(s, v) == Count(s, LAMBDA w : w < v)

\* The two counts of which Smallest is made are bounded by the sample.
LEMMA CountType ==
    ASSUME NEW s \in Seq(Int), NEW v
    PROVE  AtMost(s, v) \in 0..Len(s) /\ Below(s, v) \in 0..Len(s)
<1>1. AtMost(s, v) = Cardinality({i \in DOMAIN s : s[i] <= v})
  BY DEF AtMost, Count
<1>2. Below(s, v) = Cardinality({i \in DOMAIN s : s[i] < v})
  BY DEF Below, Count
<1>3. ASSUME NEW U \in SUBSET DOMAIN s PROVE Cardinality(U) \in 0..Len(s)
  <2>1. IsFiniteSet(U) /\ Cardinality(U) <= Len(s)
    BY RangeIs, FS_Subset
  <2>2. Cardinality(U) \in Nat /\ Len(s) \in Nat
    BY <2>1, FS_CardinalityType
  <2>. QED
    BY <2>1, <2>2
<1>. QED
  BY <1>1, <1>2, <1>3

\* The sorted sample has a value at each of its places.
LEMMA SmallestExists ==
    ASSUME NEW s \in Seq(Int), NEW k \in 1..Len(s)
    PROVE  \E v \in Range(s) : Below(s, v) < k /\ k <= AtMost(s, v)
<1>. DEFINE R == Range(s)
            n == Cardinality(R)
            a == Ascending(R)
            T == {j \in 1..n : k <= AtMost(s, a[j])}
<1>1. R \subseteq Int /\ IsFiniteSet(R)
  BY RangeIs
<1>2. /\ n \in Nat /\ a \in [1..n -> R]
      /\ \A x \in R : \E j \in 1..n : a[j] = x
      /\ \A i, j \in 1..n : i < j => a[i] < a[j]
  BY <1>1, AscendingIs
<1>3. k \in Nat /\ Len(s) \in Nat /\ k <= Len(s) /\ 1 <= k
  OBVIOUS
<1>. HIDE DEF R, n, a
<1>4. \A i \in DOMAIN s : s[i] \in R
  BY RangeIs DEF R
<1>5. n \in 1..n
  <2>1. 1 \in DOMAIN s
    BY <1>3
  <2>2. PICK j \in 1..n : a[j] = s[1]
    BY <1>2, <1>4, <2>1
  <2>. QED
    BY <1>2
<1>6. n \in T
  <2>1. \A i \in DOMAIN s : s[i] <= a[n]
    <3>. SUFFICES ASSUME NEW i \in DOMAIN s PROVE s[i] <= a[n]
      OBVIOUS
    <3>1. PICK j \in 1..n : a[j] = s[i]
      BY <1>2, <1>4
    <3>2. j = n \/ j < n
      BY <1>2
    <3>3. s[i] \in Int /\ a[n] \in Int
      BY <1>1, <1>2, <1>4, <1>5
    <3>4. j < n => a[j] < a[n]
      BY <1>2, <1>5
    <3>. QED
      BY <3>1, <3>2, <3>3, <3>4
  <2>2. {i \in DOMAIN s : s[i] <= a[n]} = DOMAIN s
    BY <2>1
  <2>3. AtMost(s, a[n]) = Len(s)
    BY <2>2, RangeIs DEF AtMost, Count
  <2>. QED
    BY <1>3, <1>5, <2>3
<1>7. PICK j \in T : \A i \in T : j <= i
  <2>1. T \subseteq Nat
    OBVIOUS
  <2>. HIDE DEF T
  <2>. QED
    BY <1>6, <2>1, LeastNat
<1>8. j \in 1..n /\ k <= AtMost(s, a[j])
  OBVIOUS
<1>9. Below(s, a[j]) < k
  <2>1. CASE j = 1
    <3>1. \A i \in DOMAIN s : ~(s[i] < a[j])
      <4>. SUFFICES ASSUME NEW i \in DOMAIN s PROVE ~(s[i] < a[j])
        OBVIOUS
      <4>1. PICK m \in 1..n : a[m] = s[i]
        BY <1>2, <1>4
      <4>2. m = j \/ j < m
        BY <1>2, <2>1
      <4>3. s[i] \in Int /\ a[j] \in Int
        BY <1>1, <1>2, <1>4, <1>8
      <4>4. j < m => a[j] < a[m]
        BY <1>2, <1>8
      <4>. QED
        BY <4>1, <4>2, <4>3, <4>4
    <3>2. {i \in DOMAIN s : s[i] < a[j]} = {}
      BY <3>1
    <3>3. Below(s, a[j]) = 0
      BY <3>2, FS_EmptySet DEF Below, Count
    <3>. QED
      BY <1>3, <3>3
  <2>2. CASE j # 1
    <3>1. j - 1 \in 1..n /\ j - 1 < j /\ ~(j <= j - 1)
      BY <1>2, <1>8, <2>2
    <3>2. j - 1 \notin T
      BY <1>7, <3>1
    <3>3. ~(k <= AtMost(s, a[j - 1]))
      BY <3>1, <3>2
    <3>4. \A i \in DOMAIN s : s[i] < a[j] <=> s[i] <= a[j - 1]
      <4>. SUFFICES ASSUME NEW i \in DOMAIN s PROVE s[i] < a[j] <=> s[i] <= a[j - 1]
        OBVIOUS
      <4>1. PICK m \in 1..n : a[m] = s[i]
        BY <1>2, <1>4
      <4>2. m = j - 1 \/ m < j - 1 \/ m = j \/ j < m
        BY <1>2, <1>8
      <4>3. s[i] \in Int /\ a[j] \in Int /\ a[j - 1] \in Int
        BY <1>1, <1>2, <1>4, <1>8, <3>1
      <4>4. /\ j < m => a[j] < a[m]
            /\ m < j - 1 => a[m] < a[j - 1]
            /\ a[j - 1] < a[j]
        BY <1>2, <1>8, <3>1
      <4>5. CASE m = j - 1 \/ m < j - 1
        <5>1. s[i] <= a[j - 1]
          BY <4>1, <4>3, <4>4, <4>5
        <5>. QED
          BY <4>3, <4>4, <5>1
      <4>6. CASE m = j \/ j < m
        <5>1. a[j] <= s[i]
          BY <4>1, <4>3, <4>4, <4>6
        <5>. QED
          BY <4>3, <4>4, <5>1
      <4>. QED
        BY <4>2, <4>5, <4>6
    <3>5. {i \in DOMAIN s : s[i] < a[j]} = {i \in DOMAIN s : s[i] <= a[j - 1]}
      BY <3>4
    <3>6. Below(s, a[j]) = AtMost(s, a[j - 1])
      BY <3>5 DEF Below, AtMost, Count
    <3>7. AtMost(s, a[j - 1]) \in 0..Len(s)
      BY CountType
    <3>. QED
      BY <1>3, <3>3, <3>6, <3>7
  <2>. QED
    BY <2>1, <2>2
<1>. QED
  BY <1>2, <1>8, <1>9 DEF R

\* Smallest is a value of the sample with its place in the sorted sample.
LEMMA SmallestIs ==
    ASSUME NEW s \in Seq(Int), NEW k \in 1..Len(s)
    PROVE  /\ Smallest(s, k) \in Range(s) /\ Smallest(s, k) \in Int
           /\ Below(s, Smallest(s, k)) < k /\ k <= AtMost(s, Smallest(s, k))
<1>1. Smallest(s, k) = CHOOSE v \in Range(s) : Below(s, v) < k /\ k <= AtMost(s, v)
  BY Zenon DEF Smallest, Below, AtMost
<1>2. Smallest(s, k) \in Range(s) /\ Below(s, Smallest(s, k)) < k /\ k <= AtMost(s, Smallest(s, k))
  BY <1>1, SmallestExists, Zenon
<1>. QED
  BY <1>2, RangeIs


-----------------------------------------------------------------------------
(* Quantiles and edges                                                     *)

\* Arithmetic: a product grows with its factor.
LEMMA TimesMonotone ==
    ASSUME NEW a \in Int, NEW b \in Int, NEW c \in Nat, a <= b
    PROVE  a * c <= b * c
OBVIOUS

\* Arithmetic: a factor common to both sides is cancelled.
LEMMA TimesCancel ==
    ASSUME NEW a \in Int, NEW b \in Int, NEW c \in Nat \ {0}
    PROVE  /\ a * c <= b * c => a <= b
           /\ a * c < b * c => a < b
           /\ a * c = b * c => a = b
OBVIOUS

\* Arithmetic: quotient and remainder.
LEMMA DivMod ==
    ASSUME NEW a \in Nat, NEW c \in Nat \ {0}
    PROVE  a \div c \in Nat /\ a % c \in 0..(c - 1) /\ a = (a \div c) * c + (a % c)
OBVIOUS

\* What lies between two values, weighted by parts of Bins.
LEMMA Weighted ==
    ASSUME NEW lo \in Int, NEW hi \in Int, NEW x \in Int, NEW y \in Int,
           NEW b \in Nat, NEW p \in 0..b, lo <= x, x <= hi, lo <= y, y <= hi
    PROVE  /\ x * (b - p) + y * p \in Int
           /\ lo * b <= x * (b - p) + y * p
           /\ x * (b - p) + y * p <= hi * b
<1>1. b - p \in Nat /\ p \in Nat
  OBVIOUS
<1>2. lo * (b - p) <= x * (b - p) /\ x * (b - p) <= hi * (b - p)
  BY <1>1, TimesMonotone
<1>3. lo * p <= y * p /\ y * p <= hi * p
  BY <1>1, TimesMonotone
<1>4. lo * (b - p) + lo * p = lo * b /\ hi * (b - p) + hi * p = hi * b
  BY <1>1
<1>5. /\ x * (b - p) \in Int /\ y * p \in Int /\ lo * (b - p) \in Int /\ lo * p \in Int
      /\ hi * (b - p) \in Int /\ hi * p \in Int
  BY <1>1
<1>. QED
  BY <1>2, <1>3, <1>4, <1>5

\* The first and the last place hold the extremes.
LEMMA Extremes ==
    ASSUME NEW s \in Seq(Int), Len(s) # 0, NEW v \in Range(s)
    PROVE  Smallest(s, 1) <= v /\ v <= Smallest(s, Len(s))
<1>. DEFINE n == Len(s)
            lo == Smallest(s, 1)
            hi == Smallest(s, n)
<1>1. n \in Nat /\ 1 \in 1..n /\ n \in 1..n
  OBVIOUS
<1>2. /\ lo \in Int /\ Below(s, lo) < 1
      /\ hi \in Int /\ n <= AtMost(s, hi)
  BY <1>1, SmallestIs
<1>3. PICK i \in DOMAIN s : v = s[i]
  BY DEF Range
<1>4. v \in Int
  BY RangeIs
<1>. HIDE DEF lo, hi
<1>5. ~(s[i] < lo)
  <2>1. Below(s, lo) \in 0..n
    BY CountType
  <2>2. Below(s, lo) = 0
    BY <1>1, <1>2, <2>1
  <2>. DEFINE U == {j \in DOMAIN s : s[j] < lo}
  <2>3. Cardinality(U) = 0
    BY <2>2 DEF Below, Count
  <2>4. U \in SUBSET DOMAIN s
    OBVIOUS
  <2>5. IsFiniteSet(U)
    BY <2>4, RangeIs, FS_Subset
  <2>6. U = {}
    BY <2>3, <2>5, FS_EmptySet
  <2>. QED
    BY <2>6
<1>6. s[i] <= hi
  <2>1. AtMost(s, hi) \in 0..n
    BY CountType
  <2>2. AtMost(s, hi) = n
    BY <1>1, <1>2, <2>1
  <2>. DEFINE U == {j \in DOMAIN s : s[j] <= hi}
  <2>3. Cardinality(U) = Cardinality(DOMAIN s)
    BY <2>2, RangeIs DEF AtMost, Count
  <2>4. U \in SUBSET DOMAIN s
    OBVIOUS
  <2>. HIDE DEF U
  <2>5. DOMAIN s = U
    BY <2>3, <2>4, RangeIs, FS_Subset
  <2>. QED
    BY <2>5 DEF U
<1>. QED
  BY <1>2, <1>3, <1>4, <1>5, <1>6 DEF lo, hi

\* A quantile lies between the extremes, and the outer quantiles are the extremes.
LEMMA QuantileIs ==
    ASSUME NEW s \in Seq(Int), Len(s) # 0, NEW k \in 0..Bins
    PROVE  /\ Quantile(s, k) \in Int
           /\ Smallest(s, 1) * Bins <= Quantile(s, k)
           /\ Quantile(s, k) <= Smallest(s, Len(s)) * Bins
           /\ k = 0 => Quantile(s, k) = Smallest(s, 1) * Bins
           /\ k = Bins => Quantile(s, k) = Smallest(s, Len(s)) * Bins
<1>. DEFINE n == Len(s)
            lo == Smallest(s, 1)
            hi == Smallest(s, n)
            place == (n - 1) * k
            i == place \div Bins
            part == place % Bins
            x == Smallest(s, i + 1)
            y == Smallest(s, i + 2)
<1>1. n \in Nat /\ n - 1 \in Nat /\ Bins \in Nat \ {0} /\ k \in Nat /\ k <= Bins
  BY ScoresAssumption
<1>2. place \in Nat /\ place <= (n - 1) * Bins
  <2>1. k * (n - 1) <= Bins * (n - 1)
    BY <1>1, TimesMonotone
  <2>. QED
    BY <1>1, <2>1
<1>3. Quantile(s, k) = x * (Bins - part) + (IF part = 0 THEN 0 ELSE y * part)
  BY DEF Quantile
<1>. HIDE DEF place
<1>4. i \in Nat /\ part \in 0..(Bins - 1) /\ place = i * Bins + part
  BY <1>1, <1>2, DivMod
<1>. HIDE DEF i, part
<1>5. part \in Nat /\ i * Bins \in Nat
  BY <1>1, <1>4
<1>6. i <= n - 1
  <2>1. i * Bins <= (n - 1) * Bins
    BY <1>1, <1>2, <1>4, <1>5
  <2>. QED
    BY <1>1, <1>4, <2>1, TimesCancel
<1>7. part # 0 => i < n - 1
  <2>. SUFFICES ASSUME part # 0 PROVE i < n - 1
    OBVIOUS
  <2>1. i * Bins < (n - 1) * Bins
    BY <1>1, <1>2, <1>4, <1>5
  <2>2. i \in Int /\ n - 1 \in Int /\ Bins \in Nat \ {0}
    BY <1>1, <1>4
  <2>. QED
    BY ONLY <2>1, <2>2, TimesCancel
<1>8. ASSUME NEW m \in 1..n
      PROVE  Smallest(s, m) \in Int /\ lo <= Smallest(s, m) /\ Smallest(s, m) <= hi
  BY SmallestIs, Extremes
<1>9. i + 1 \in 1..n /\ 1 \in 1..n /\ n \in 1..n /\ (part # 0 => i + 2 \in 1..n)
  BY <1>1, <1>4, <1>6, <1>7
<1>10. lo \in Int /\ hi \in Int /\ x \in Int /\ lo <= x /\ x <= hi
  BY <1>8, <1>9
<1>11. part # 0 => y \in Int /\ lo <= y /\ y <= hi
  BY <1>8, <1>9
<1>. HIDE DEF x, y, lo, hi
<1>12. Quantile(s, k) \in Int /\ lo * Bins <= Quantile(s, k) /\ Quantile(s, k) <= hi * Bins
  <2>1. CASE part = 0
    <3>1. Quantile(s, k) = x * Bins
      BY <1>1, <1>3, <1>10, <2>1
    <3>2. lo * Bins <= x * Bins /\ x * Bins <= hi * Bins /\ x * Bins \in Int
      BY <1>1, <1>10, TimesMonotone
    <3>. QED
      BY <3>1, <3>2
  <2>2. CASE part # 0
    <3>1. Quantile(s, k) = x * (Bins - part) + y * part
      BY <1>3, <2>2
    <3>2. part \in 0..Bins /\ Bins \in Nat
      BY <1>1, <1>4
    <3>3. lo \in Int /\ hi \in Int /\ y \in Int /\ lo <= y /\ y <= hi
      BY <1>10, <1>11, <2>2
    <3>4. /\ x * (Bins - part) + y * part \in Int
          /\ lo * Bins <= x * (Bins - part) + y * part
          /\ x * (Bins - part) + y * part <= hi * Bins
      BY <1>10, <3>2, <3>3, Weighted
    <3>. QED
      BY <3>1, <3>4
  <2>. QED
    BY <2>1, <2>2
<1>13. k = 0 => Quantile(s, k) = lo * Bins
  <2>. SUFFICES ASSUME k = 0 PROVE Quantile(s, k) = lo * Bins
    OBVIOUS
  <2>1. place = 0
    BY <1>1 DEF place
  <2>2. i = 0 /\ part = 0
    <3>1. i * Bins = 0 * Bins /\ part = 0
      BY <1>1, <1>4, <1>5, <2>1
    <3>. QED
      BY <1>1, <1>4, <3>1, TimesCancel
  <2>3. x = lo
    BY <2>2 DEF x, lo
  <2>. QED
    BY <1>1, <1>3, <1>10, <2>2, <2>3
<1>14. k = Bins => Quantile(s, k) = hi * Bins
  <2>. SUFFICES ASSUME k = Bins PROVE Quantile(s, k) = hi * Bins
    OBVIOUS
  <2>1. place = (n - 1) * Bins
    BY DEF place
  <2>2. ~(i < n - 1)
    <3>. SUFFICES ASSUME i < n - 1 PROVE FALSE
      OBVIOUS
    <3>1. i + 1 <= n - 1 /\ i + 1 \in Int
      BY <1>1, <1>4
    <3>2. (i + 1) * Bins <= (n - 1) * Bins
      <4>1. n - 1 \in Int /\ Bins \in Nat
        BY <1>1
      <4>. QED
        BY ONLY <3>1, <4>1, TimesMonotone
    <3>3. (i + 1) * Bins = i * Bins + Bins
      BY <1>1, <1>4
    <3>. QED
      BY <1>1, <1>4, <1>5, <2>1, <3>2, <3>3
  <2>3. i + 1 = n /\ part = 0
    BY <1>1, <1>4, <1>6, <1>7, <2>2
  <2>4. x = hi
    BY <2>3 DEF x, hi
  <2>. QED
    BY <1>1, <1>3, <1>10, <2>3, <2>4
<1>. QED
  BY <1>12, <1>13, <1>14 DEF lo, hi

\* Edges of bins: at least one bin, and none of them empty.
Edges(E) ==
    /\ E \in Seq(Int) /\ Len(E) \in Nat /\ Len(E) >= 2 /\ DOMAIN E = 1..Len(E)
    /\ \A j, k \in 1..Len(E) : j < k => E[j] < E[k]

\* What is used of a list of edges.
LEMMA EdgesGive ==
    ASSUME NEW E, Edges(E)
    PROVE  /\ Len(E) \in Nat /\ Len(E) >= 2 /\ 1 \in 1..Len(E) /\ Len(E) \in 1..Len(E)
           /\ \A k \in 1..Len(E) : E[k] \in Int
           /\ \A j, k \in 1..Len(E) : j < k => E[j] < E[k]
           /\ \A j, k \in 1..Len(E) : j <= k => E[j] <= E[k]
<1>1. Len(E) \in Nat /\ Len(E) >= 2 /\ 1 \in 1..Len(E) /\ Len(E) \in 1..Len(E)
  BY DEF Edges
<1>2. \A k \in 1..Len(E) : E[k] \in Int
  BY DEF Edges
<1>3. \A j, k \in 1..Len(E) : j < k => E[j] < E[k]
  BY DEF Edges
<1>4. \A j, k \in 1..Len(E) : j <= k => E[j] <= E[k]
  <2>. SUFFICES ASSUME NEW j \in 1..Len(E), NEW k \in 1..Len(E), j <= k PROVE E[j] <= E[k]
    OBVIOUS
  <2>1. j = k \/ j < k
    BY <1>1
  <2>. QED
    BY <1>2, <1>3, <2>1
<1>. QED
  BY <1>1, <1>2, <1>3, <1>4

\* A column of many values is cut into bins that reach from its least value to
\* its greatest.
LEMMA EdgesAre ==
    ASSUME NEW s \in Seq(Int), Cardinality(Range(s)) > Bins
    PROVE  /\ Edges(EdgesOf(s))
           /\ \A v \in Range(s) : /\ EdgesOf(s)[1] <= v * Bins
                                  /\ v * Bins <= EdgesOf(s)[Len(EdgesOf(s))]
<1>. DEFINE n == Len(s)
            lo == Smallest(s, 1)
            hi == Smallest(s, n)
            Q == {Quantile(s, k) : k \in 0..Bins}
            q == Cardinality(Q)
            E == EdgesOf(s)
<1>1. Bins \in Nat /\ Bins >= 1 /\ n \in Nat
  BY ScoresAssumption
<1>2. n # 0
  <2>. SUFFICES ASSUME n = 0 PROVE FALSE
    OBVIOUS
  <2>1. Range(s) = {}
    BY <1>1 DEF Range
  <2>2. Cardinality(Range(s)) = 0
    BY <2>1, FS_EmptySet
  <2>. QED
    BY <1>1, <2>2
<1>3. lo \in Range(s) /\ lo \in Int /\ hi \in Int /\ 1 \in 1..n /\ n \in 1..n
  BY <1>1, <1>2, SmallestIs
<1>4. \A v \in Range(s) : v \in Int /\ lo <= v /\ v <= hi
  BY <1>2, RangeIs, Extremes
<1>5. \A k \in 0..Bins :
         Quantile(s, k) \in Int /\ lo * Bins <= Quantile(s, k) /\ Quantile(s, k) <= hi * Bins
  BY <1>2, QuantileIs
<1>6. /\ 0 \in 0..Bins /\ Quantile(s, 0) = lo * Bins
      /\ Bins \in 0..Bins /\ Quantile(s, Bins) = hi * Bins
  BY <1>1, <1>2, QuantileIs
<1>. HIDE DEF lo, hi
<1>7. lo < hi
  <2>. SUFFICES ASSUME ~(lo < hi) PROVE FALSE
    OBVIOUS
  <2>1. \A v \in Range(s) : v = lo
    BY <1>3, <1>4
  <2>2. Range(s) = {lo}
    BY <1>3, <2>1
  <2>3. Cardinality(Range(s)) = 1
    BY <2>2, FS_Singleton
  <2>. QED
    BY <1>1, <2>3
<1>8. lo * Bins \in Int /\ hi * Bins \in Int /\ lo * Bins # hi * Bins
  <2>1. lo * Bins = hi * Bins => lo = hi
    BY <1>1, <1>3, TimesCancel
  <2>. QED
    BY <1>1, <1>3, <1>7, <2>1
<1>9. lo * Bins \in Q /\ hi * Bins \in Q
  BY <1>6
<1>10. Q \subseteq Int /\ \A x \in Q : lo * Bins <= x /\ x <= hi * Bins
  BY <1>5
<1>11. IsFiniteSet(Q)
  <2>. DEFINE f == [k \in 0..Bins |-> Quantile(s, k)]
  <2>1. f \in Surjection(0..Bins, Q)
    BY Zenon DEF Surjection
  <2>2. IsFiniteSet(0..Bins)
    BY <1>1, FS_Interval
  <2>. HIDE DEF f
  <2>. QED
    BY <2>1, <2>2, FS_Surjection
<1>12. E = Ascending(Q)
  BY DEF EdgesOf
<1>. HIDE DEF Q, E
<1>13. /\ q \in Nat /\ E \in [1..q -> Q]
       /\ \A x \in Q : \E k \in 1..q : E[k] = x
       /\ \A j, k \in 1..q : j < k => E[j] < E[k]
  BY <1>10, <1>11, <1>12, AscendingIs
<1>. HIDE DEF q
<1>14. E \in Seq(Int) /\ Len(E) = q /\ DOMAIN E = 1..q
  <2>1. E \in [1..q -> Q] /\ q \in Nat
    BY <1>13
  <2>2. E \in [1..q -> Int]
    BY ONLY <1>10, <2>1
  <2>. QED
    BY ONLY <2>1, <2>2
<1>15. PICK a \in 1..q : E[a] = lo * Bins
  BY <1>9, <1>13
<1>16. PICK b \in 1..q : E[b] = hi * Bins
  BY <1>9, <1>13
<1>17. q >= 2 /\ 1 \in 1..q /\ q \in 1..q
  BY <1>8, <1>13, <1>15, <1>16
<1>18. E[1] = lo * Bins
  <2>1. E[1] \in Int /\ lo * Bins <= E[1]
    BY <1>10, <1>13, <1>17
  <2>2. a # 1 => E[1] < E[a]
    BY <1>13, <1>17
  <2>. QED
    BY <1>8, <1>15, <2>1, <2>2
<1>19. E[q] = hi * Bins
  <2>1. E[q] \in Int /\ E[q] <= hi * Bins
    BY <1>10, <1>13, <1>17
  <2>2. b # q => E[b] < E[q]
    BY <1>13, <1>17
  <2>. QED
    BY <1>8, <1>16, <2>1, <2>2
<1>20. Edges(E)
  BY <1>13, <1>14, <1>17 DEF Edges
<1>21. \A v \in Range(s) : lo * Bins <= v * Bins /\ v * Bins <= hi * Bins
  BY <1>1, <1>3, <1>4, TimesMonotone
<1>. QED
  BY <1>14, <1>18, <1>19, <1>20, <1>21 DEF E

-----------------------------------------------------------------------------
(* The bisection of _bucket                                                *)

\* The ends between which a search may be.
Pairs(E) == (1..Len(E)) \X (1..Len(E))

\* One step of the bisection, with f for the rest of it.
Halve(v, E, f, w) ==
    IF w[1] >= w[2] - 1 THEN w[1]
    ELSE IF v * Bins < E[(w[1] + w[2]) \div 2] THEN f[<<w[1], (w[1] + w[2]) \div 2>>]
    ELSE f[<<(w[1] + w[2]) \div 2, w[2]>>]

\* f solves the recursion of the bisection.
Bisects(v, E, f) == f = [w \in Pairs(E) |-> Halve(v, E, f, w)]

\* Bisect is a function that solves its recursion, applied to all the edges.
LEMMA BisectUnfolds ==
    ASSUME NEW v, NEW E
    PROVE  Bisect(v, E) = (CHOOSE f : Bisects(v, E, f))[<<1, Len(E)>>]
BY Zenon DEF Bisect, Bisects, Halve, Pairs

\* Place b, between two edges, is where v belongs.
Belongs(v, E, low, high, b) ==
    /\ b \in low..(high - 1)
    /\ b = low \/ E[b] <= v * Bins
    /\ b = high - 1 \/ v * Bins < E[b + 1]

\* The middle of the search is strictly between its ends.
LEMMA Middle ==
    ASSUME NEW low \in Nat, NEW high \in Nat, ~(low >= high - 1)
    PROVE  (low + high) \div 2 \in (low + 1)..(high - 1)
OBVIOUS

\* A solution of the recursion takes one step of the bisection everywhere.
LEMMA HalveAt ==
    ASSUME NEW v, NEW E, NEW f, Bisects(v, E, f), NEW low \in 1..Len(E), NEW high \in 1..Len(E)
    PROVE  f[<<low, high>>] = Halve(v, E, f, <<low, high>>)
<1>. DEFINE w == <<low, high>>
<1>1. w \in Pairs(E)
  BY DEF Pairs
<1>. HIDE DEF w
<1>2. f[w] = Halve(v, E, f, w)
  BY <1>1, Zenon DEF Bisects
<1>. QED
  BY <1>2, Zenon DEF w

\* The search ends when its ends are neighbours.
LEMMA HalveEnds ==
    ASSUME NEW v, NEW E, NEW f, NEW low, NEW high, low >= high - 1
    PROVE  Halve(v, E, f, <<low, high>>) = low
<1>. DEFINE w == <<low, high>>
<1>1. w[1] = low /\ w[2] = high
  OBVIOUS
<1>. HIDE DEF w
<1>2. Halve(v, E, f, w) = low
  BY <1>1, Zenon DEF Halve
<1>. QED
  BY <1>2, Zenon DEF w

\* Otherwise it goes on in the half that the middle edge tells.
LEMMA HalveGoesOn ==
    ASSUME NEW v, NEW E, NEW f, NEW low, NEW high, ~(low >= high - 1),
           NEW mid, mid = (low + high) \div 2
    PROVE  Halve(v, E, f, <<low, high>>) =
               IF v * Bins < E[mid] THEN f[<<low, mid>>] ELSE f[<<mid, high>>]
<1>. DEFINE w == <<low, high>>
<1>1. w[1] = low /\ w[2] = high
  OBVIOUS
<1>. HIDE DEF w
<1>2. Halve(v, E, f, w) = IF v * Bins < E[mid] THEN f[<<low, mid>>] ELSE f[<<mid, high>>]
  BY <1>1, Zenon DEF Halve
<1>. QED
  BY <1>2, Zenon DEF w

\* The place of a value between two edges.
Home(v, E, low, high) == CHOOSE b : Belongs(v, E, low, high, b)

\* There is a place for the value.
LEMMA BelongsExists ==
    ASSUME NEW v, v * Bins \in Int, NEW E, Edges(E),
           NEW low \in 1..Len(E), NEW high \in 1..Len(E), low < high
    PROVE  \E b : Belongs(v, E, low, high, b)
<1>. DEFINE T == {c \in (low + 1)..high : c = high \/ v * Bins < E[c]}
<1>1. Len(E) \in Nat /\ low \in Nat /\ high \in Nat /\ 1 <= low /\ high <= Len(E)
  BY DEF Edges
<1>2. \A k \in 1..Len(E) : E[k] \in Int
  BY EdgesGive
<1>3. T \subseteq Nat /\ high \in T
  BY <1>1
<1>4. PICK c \in T : \A d \in T : c <= d
  <2>. HIDE DEF T
  <2>. QED
    BY <1>3, LeastNat
<1>5. c \in (low + 1)..high /\ (c = high \/ v * Bins < E[c])
  OBVIOUS
<1>6. c \in Nat /\ low + 1 <= c /\ c <= high /\ c - 1 \in low..(high - 1) /\ (c - 1) + 1 = c
  BY <1>1, <1>5
<1>7. c - 1 = low \/ E[c - 1] <= v * Bins
  <2>. SUFFICES ASSUME c - 1 # low PROVE E[c - 1] <= v * Bins
    OBVIOUS
  <2>1. c - 1 \in (low + 1)..high /\ c - 1 \in 1..Len(E) /\ ~(c <= c - 1)
    BY <1>1, <1>6
  <2>2. c - 1 \notin T
    BY <1>4, <2>1
  <2>3. ~(v * Bins < E[c - 1])
    BY <2>1, <2>2
  <2>4. E[c - 1] \in Int
    BY <1>2, <2>1
  <2>. QED
    BY <2>3, <2>4
<1>8. c - 1 = high - 1 \/ v * Bins < E[(c - 1) + 1]
  BY <1>5, <1>6
<1>9. Belongs(v, E, low, high, c - 1)
  BY <1>6, <1>7, <1>8 DEF Belongs
<1>. QED
  BY <1>9

\* There is only one, for no two edges are equal.
LEMMA BelongsOnce ==
    ASSUME NEW v, v * Bins \in Int, NEW E, Edges(E),
           NEW low \in 1..Len(E), NEW high \in 1..Len(E), low < high,
           NEW b, NEW c, Belongs(v, E, low, high, b), Belongs(v, E, low, high, c)
    PROVE  b = c
<1>1. /\ Len(E) \in Nat /\ low \in Nat /\ high \in Nat /\ 1 <= low /\ high <= Len(E)
      /\ \A k \in 1..Len(E) : E[k] \in Int
      /\ \A j, k \in 1..Len(E) : j <= k => E[j] <= E[k]
  BY EdgesGive
<1>2. ASSUME NEW d, NEW e, Belongs(v, E, low, high, d), Belongs(v, E, low, high, e), d < e
      PROVE  FALSE
  <2>1. /\ d \in low..(high - 1) /\ e \in low..(high - 1)
        /\ e = low \/ E[e] <= v * Bins
        /\ d = high - 1 \/ v * Bins < E[d + 1]
    BY <1>2 DEF Belongs
  <2>2. d + 1 \in 1..Len(E) /\ e \in 1..Len(E) /\ d + 1 <= e /\ e # low /\ d # high - 1
    BY <1>1, <1>2, <2>1
  <2>3. E[d + 1] <= E[e] /\ E[d + 1] \in Int /\ E[e] \in Int
    BY <1>1, <2>2
  <2>. QED
    BY <2>1, <2>2, <2>3
<1>3. b \in Int /\ c \in Int
  BY <1>1 DEF Belongs
<1>4. ~(b < c) /\ ~(c < b)
  BY <1>2
<1>. QED
  BY <1>3, <1>4

\* The place in the half that is searched is the place in the whole.
LEMMA BelongsStep ==
    ASSUME NEW v, v * Bins \in Int, NEW E, Edges(E),
           NEW low \in 1..Len(E), NEW high \in 1..Len(E), NEW mid \in (low + 1)..(high - 1), NEW b
    PROVE  /\ v * Bins < E[mid] /\ Belongs(v, E, low, mid, b) => Belongs(v, E, low, high, b)
           /\ ~(v * Bins < E[mid]) /\ Belongs(v, E, mid, high, b) => Belongs(v, E, low, high, b)
<1>1. /\ Len(E) \in Nat /\ low \in Nat /\ high \in Nat /\ 1 <= low /\ high <= Len(E)
      /\ \A k \in 1..Len(E) : E[k] \in Int
  BY EdgesGive
<1>2. mid \in Nat /\ low + 1 <= mid /\ mid <= high - 1 /\ mid \in 1..Len(E)
  BY <1>1
<1>3. E[mid] \in Int
  BY <1>1, <1>2
<1>4. ASSUME v * Bins < E[mid], Belongs(v, E, low, mid, b) PROVE Belongs(v, E, low, high, b)
  <2>1. /\ b \in low..(mid - 1)
        /\ b = low \/ E[b] <= v * Bins
        /\ b = mid - 1 \/ v * Bins < E[b + 1]
    BY <1>4 DEF Belongs
  <2>2. b \in low..(high - 1)
    BY <1>1, <1>2, <2>1
  <2>3. b = mid - 1 => b + 1 = mid
    BY <1>2
  <2>4. v * Bins < E[b + 1]
    BY <1>4, <2>1, <2>3
  <2>. QED
    BY <2>1, <2>2, <2>4 DEF Belongs
<1>5. ASSUME ~(v * Bins < E[mid]), Belongs(v, E, mid, high, b) PROVE Belongs(v, E, low, high, b)
  <2>1. /\ b \in mid..(high - 1)
        /\ b = mid \/ E[b] <= v * Bins
        /\ b = high - 1 \/ v * Bins < E[b + 1]
    BY <1>5 DEF Belongs
  <2>2. b \in low..(high - 1)
    BY <1>1, <1>2, <2>1
  <2>3. E[mid] <= v * Bins
    BY <1>3, <1>5
  <2>4. E[b] <= v * Bins
    BY <2>1, <2>3
  <2>. QED
    BY <2>1, <2>2, <2>4 DEF Belongs
<1>. QED
  BY <1>4, <1>5

\* The recursion of the bisection has a solution.
LEMMA BisectsSolved ==
    ASSUME NEW v, v * Bins \in Int, NEW E, Edges(E)
    PROVE  \E f : Bisects(v, E, f)
<1>. DEFINE f == [w \in Pairs(E) |-> IF w[1] >= w[2] - 1 THEN w[1]
                                     ELSE Home(v, E, w[1], w[2])]
<1>1. Len(E) \in Nat /\ \A k \in 1..Len(E) : k \in Nat
  BY EdgesGive
<1>2. ASSUME NEW low \in 1..Len(E), NEW high \in 1..Len(E)
      PROVE  f[<<low, high>>] = IF low >= high - 1 THEN low
                                ELSE Home(v, E, low, high)
  <2>. DEFINE w == <<low, high>>
  <2>1. w \in Pairs(E) /\ w[1] = low /\ w[2] = high
    BY DEF Pairs
  <2>. HIDE DEF w
  <2>2. f[w] = IF w[1] >= w[2] - 1 THEN w[1] ELSE Home(v, E, w[1], w[2])
    BY <2>1, Zenon
  <2>3. f[w] = IF low >= high - 1 THEN low ELSE Home(v, E, low, high)
    BY <2>1, <2>2, Zenon
  <2>. QED
    BY <2>3, Zenon DEF w
<1>3. f = [w \in Pairs(E) |-> f[w]]
  OBVIOUS
<1>. HIDE DEF f
<1>4. ASSUME NEW low \in 1..Len(E), NEW high \in 1..Len(E), low < high
      PROVE  Belongs(v, E, low, high, f[<<low, high>>])
  <2>1. CASE low >= high - 1
    <3>1. f[<<low, high>>] = low
      BY <1>2, <2>1
    <3>2. low \in low..(high - 1) /\ low = high - 1
      BY <1>1, <1>4, <2>1
    <3>. QED
      BY <3>1, <3>2 DEF Belongs
  <2>2. CASE ~(low >= high - 1)
    <3>1. f[<<low, high>>] = Home(v, E, low, high)
      BY <1>2, <2>2
    <3>2. \E b : Belongs(v, E, low, high, b)
      BY <1>4, BelongsExists
    <3>. QED
      BY <3>1, <3>2, Zenon DEF Home
  <2>. QED
    BY <2>1, <2>2
<1>5. ASSUME NEW w \in Pairs(E) PROVE f[w] = Halve(v, E, f, w)
  <2>1. PICK low \in 1..Len(E), high \in 1..Len(E) : w = <<low, high>>
    BY DEF Pairs
  <2>2. w[1] = low /\ w[2] = high
    BY <2>1
  <2>. DEFINE mid == (low + high) \div 2
  <2>3. low \in Nat /\ high \in Nat
    BY <1>1
  <2>4. CASE low >= high - 1
    <3>1. f[w] = low
      BY <1>2, <2>1, <2>4
    <3>. QED
      BY <2>2, <2>4, <3>1, Zenon DEF Halve
  <2>5. CASE ~(low >= high - 1)
    <3>1. mid \in (low + 1)..(high - 1)
      BY <2>3, <2>5, Middle
    <3>2. Halve(v, E, f, w) = IF v * Bins < E[mid] THEN f[<<low, mid>>] ELSE f[<<mid, high>>]
      BY <2>2, <2>5, Zenon DEF Halve
    <3>. HIDE DEF mid
    <3>3. mid \in 1..Len(E) /\ low < mid /\ mid < high /\ low < high
      BY <1>1, <2>3, <3>1
    <3>4. /\ Belongs(v, E, low, mid, f[<<low, mid>>]) /\ Belongs(v, E, mid, high, f[<<mid, high>>])
          /\ Belongs(v, E, low, high, f[<<low, high>>])
      BY <1>4, <3>3
    <3>5. Belongs(v, E, low, high, Halve(v, E, f, w))
      <4>1. CASE v * Bins < E[mid]
        <5>1. Belongs(v, E, low, high, f[<<low, mid>>])
          BY <3>1, <3>4, <4>1, BelongsStep
        <5>. QED
          BY <3>2, <4>1, <5>1
      <4>2. CASE ~(v * Bins < E[mid])
        <5>1. Belongs(v, E, low, high, f[<<mid, high>>])
          BY <3>1, <3>4, <4>2, BelongsStep
        <5>. QED
          BY <3>2, <4>2, <5>1
      <4>. QED
        BY <4>1, <4>2
    <3>6. f[<<low, high>>] = Halve(v, E, f, w)
      BY <3>3, <3>4, <3>5, BelongsOnce
    <3>. QED
      BY <2>1, <3>6
  <2>. QED
    BY <2>4, <2>5
<1>6. Bisects(v, E, f)
  BY <1>3, <1>5, Zenon DEF Bisects
<1>. QED
  BY <1>6

\* The bisection finds the bin whose edges hold the value.
LEMMA BisectIs ==
    ASSUME NEW v \in Int, NEW E, Edges(E)
    PROVE  Belongs(v, E, 1, Len(E), Bisect(v, E))
<1>. DEFINE f == CHOOSE g : Bisects(v, E, g)
            T == {d \in Nat : \E low, high \in 1..Len(E) :
                     low < high /\ d = high - low /\ ~Belongs(v, E, low, high, f[<<low, high>>])}
<1>1. v * Bins \in Int
  BY ScoresAssumption
<1>2. Bisects(v, E, f)
  BY <1>1, BisectsSolved, Zenon
<1>3. Bisect(v, E) = f[<<1, Len(E)>>]
  BY BisectUnfolds, Zenon
<1>4. /\ Len(E) \in Nat /\ 1 < Len(E) /\ 1 \in 1..Len(E) /\ Len(E) \in 1..Len(E)
      /\ \A k \in 1..Len(E) : k \in Nat
  BY EdgesGive
<1>. HIDE DEF f
<1>5. T = {}
  <2>. SUFFICES ASSUME T # {} PROVE FALSE
    OBVIOUS
  <2>1. T \subseteq Nat
    OBVIOUS
  <2>2. PICK d \in T : \A e \in T : d <= e
    <3>. HIDE DEF T
    <3>. QED
      BY <2>1, LeastNat
  <2>3. PICK low \in 1..Len(E), high \in 1..Len(E) :
            low < high /\ d = high - low /\ ~Belongs(v, E, low, high, f[<<low, high>>])
    OBVIOUS
  <2>4. low \in Nat /\ high \in Nat /\ d \in Nat
    BY <1>4, <2>1
  <2>5. ASSUME NEW l \in 1..Len(E), NEW h \in 1..Len(E), l < h, h - l < d
        PROVE  Belongs(v, E, l, h, f[<<l, h>>])
    <3>1. h - l \in Nat /\ ~(d <= h - l)
      BY <1>4, <2>4, <2>5
    <3>2. h - l \notin T
      BY <2>2, <3>1
    <3>. QED
      BY <2>5, <3>1, <3>2
  <2>. HIDE DEF T
  <2>. DEFINE mid == (low + high) \div 2
  <2>7. CASE low >= high - 1
    <3>1. f[<<low, high>>] = low
      <4>1. f[<<low, high>>] = Halve(v, E, f, <<low, high>>)
        BY <1>2, HalveAt
      <4>2. Halve(v, E, f, <<low, high>>) = low
        BY <2>7, HalveEnds
      <4>. QED
        BY <4>1, <4>2
    <3>2. low \in low..(high - 1) /\ low = high - 1
      BY <2>3, <2>4, <2>7
    <3>3. Belongs(v, E, low, high, low)
      BY <3>2 DEF Belongs
    <3>. QED
      BY <2>3, <3>1, <3>3
  <2>8. CASE ~(low >= high - 1)
    <3>1. mid \in (low + 1)..(high - 1)
      BY <2>4, <2>8, Middle
    <3>2. f[<<low, high>>] = IF v * Bins < E[mid] THEN f[<<low, mid>>] ELSE f[<<mid, high>>]
      <4>1. f[<<low, high>>] = Halve(v, E, f, <<low, high>>)
        BY <1>2, HalveAt
      <4>2. Halve(v, E, f, <<low, high>>) =
                IF v * Bins < E[mid] THEN f[<<low, mid>>] ELSE f[<<mid, high>>]
        BY <2>8, HalveGoesOn
      <4>. QED
        BY <4>1, <4>2
    <3>. HIDE DEF mid
    <3>3. mid \in 1..Len(E) /\ low < mid /\ mid < high /\ mid - low < d /\ high - mid < d
      BY <1>4, <2>3, <2>4, <3>1
    <3>4. Belongs(v, E, low, mid, f[<<low, mid>>]) /\ Belongs(v, E, mid, high, f[<<mid, high>>])
      BY <2>5, <3>3
    <3>5. CASE v * Bins < E[mid]
      <4>1. Belongs(v, E, low, high, f[<<low, mid>>])
        BY <1>1, <3>1, <3>4, <3>5, BelongsStep
      <4>. QED
        BY <2>3, <3>2, <3>5, <4>1
    <3>6. CASE ~(v * Bins < E[mid])
      <4>1. Belongs(v, E, low, high, f[<<mid, high>>])
        BY <1>1, <3>1, <3>4, <3>6, BelongsStep
      <4>. QED
        BY <2>3, <3>2, <3>6, <4>1
    <3>. QED
      BY <3>5, <3>6
  <2>. QED
    BY <2>7, <2>8
<1>6. Belongs(v, E, 1, Len(E), f[<<1, Len(E)>>])
  <2>1. Len(E) - 1 \in Nat
    BY <1>4
  <2>2. Len(E) - 1 \notin T
    BY <1>5, Zenon
  <2>. QED
    BY <1>4, <2>1, <2>2
<1>. QED
  BY <1>3, <1>6

-----------------------------------------------------------------------------
(* Bins of training and bins of serving                                    *)

\* Every value has one bin, and only at an end may it lie beyond the edges.
LEMMA BucketIs ==
    ASSUME NEW v \in Int, NEW E, Edges(E)
    PROVE  Belongs(v, E, 1, Len(E), Bucket(v, E))
<1>. DEFINE L == Len(E)
            x == v * Bins
<1>1. /\ L \in Nat /\ L >= 2 /\ 1 \in 1..L /\ L \in 1..L
      /\ \A k \in 1..L : E[k] \in Int
      /\ \A j, k \in 1..L : j < k => E[j] < E[k]
      /\ \A j, k \in 1..L : j <= k => E[j] <= E[k]
  BY EdgesGive
<1>2. x \in Int
  BY ScoresAssumption
<1>3. Bucket(v, E) = IF x <= E[1] THEN 1 ELSE IF x >= E[L] THEN L - 1 ELSE Bisect(v, E)
  BY DEF Bucket
<1>4. Belongs(v, E, 1, L, Bisect(v, E))
  BY BisectIs
<1>. HIDE DEF x
<1>5. CASE x <= E[1]
  <2>1. 1 \in 1..(L - 1) /\ 1 + 1 \in 1..L /\ 1 < 1 + 1
    BY <1>1
  <2>2. x < E[1 + 1]
    <3>1. E[1] < E[1 + 1]
      BY <1>1, <2>1
    <3>. QED
      BY <1>1, <1>2, <1>5, <2>1, <3>1
  <2>3. Belongs(v, E, 1, L, 1)
    BY <2>1, <2>2 DEF Belongs, x
  <2>. QED
    BY <1>3, <1>5, <2>3
<1>6. CASE ~(x <= E[1]) /\ x >= E[L]
  <2>1. L - 1 \in 1..(L - 1) /\ L - 1 \in 1..L /\ L - 1 <= L
    BY <1>1
  <2>2. E[L - 1] <= x
    <3>1. E[L - 1] <= E[L]
      BY <1>1, <2>1
    <3>. QED
      BY <1>1, <1>2, <1>6, <2>1, <3>1
  <2>3. Belongs(v, E, 1, L, L - 1)
    BY <2>1, <2>2 DEF Belongs, x
  <2>. QED
    BY <1>3, <1>6, <2>3
<1>7. CASE ~(x <= E[1]) /\ ~(x >= E[L])
  BY <1>3, <1>4, <1>7
<1>. QED
  BY <1>5, <1>6, <1>7

\* Between the outer edges the bin of _bucket is the bin of np.histogram.
LEMMA SameBin ==
    ASSUME NEW v \in Int, NEW E, Edges(E), E[1] <= v * Bins, v * Bins <= E[Len(E)],
           NEW b \in 1..(Len(E) - 1)
    PROVE  Bucket(v, E) = b <=>
               /\ E[b] <= v * Bins
               /\ v * Bins < E[b + 1] \/ (b = Len(E) - 1 /\ v * Bins = E[b + 1])
<1>. DEFINE L == Len(E)
            x == v * Bins
<1>1. /\ L \in Nat /\ L >= 2 /\ 1 \in 1..L /\ L \in 1..L
      /\ \A k \in 1..L : E[k] \in Int
  BY EdgesGive
<1>2. x \in Int
  BY ScoresAssumption
<1>3. Belongs(v, E, 1, L, Bucket(v, E))
  BY BucketIs
<1>4. b \in 1..(L - 1) /\ b \in 1..L /\ b + 1 \in 1..L /\ (b = L - 1 => b + 1 = L)
  BY <1>1
<1>5. ASSUME Bucket(v, E) = b
      PROVE  E[b] <= x /\ (x < E[b + 1] \/ (b = L - 1 /\ x = E[b + 1]))
  <2>1. (b = 1 \/ E[b] <= x) /\ (b = L - 1 \/ x < E[b + 1])
    BY <1>3, <1>5 DEF Belongs
  <2>2. E[b] <= x
    BY <2>1
  <2>3. b = L - 1 => x < E[b + 1] \/ x = E[b + 1]
    BY <1>1, <1>2, <1>4
  <2>. QED
    BY <2>1, <2>2, <2>3
<1>6. ASSUME E[b] <= x, x < E[b + 1] \/ (b = L - 1 /\ x = E[b + 1])
      PROVE  Bucket(v, E) = b
  <2>1. Belongs(v, E, 1, L, b)
    BY <1>4, <1>6 DEF Belongs
  <2>2. 1 < L
    BY <1>1
  <2>. QED
    BY <1>1, <1>2, <1>3, <2>1, <2>2, BelongsOnce
<1>. QED
  BY <1>5, <1>6

\* The training data of a numeric column has the shares of its description.
LEMMA NumericAgrees ==
    ASSUME NEW s \in Seq(Int), Cardinality(Range(s)) > Bins,
           NEW ref, ref.kind = "numeric", ref.total = Len(s), ref.edges = EdgesOf(s),
           ref.counts = Histogram(s, EdgesOf(s))
    PROVE  Psi(ref, s) = {}
<1>. DEFINE E == EdgesOf(s)
            bins == 1..(Len(E) - 1)
<1>1. Edges(E) /\ \A v \in Range(s) : E[1] <= v * Bins /\ v * Bins <= E[Len(E)]
  BY EdgesAre
<1>2. \A i \in DOMAIN s : s[i] \in Int /\ s[i] \in Range(s)
  BY RangeIs
<1>. HIDE DEF E
<1>3. Histogram(s, E) = [b \in bins |->
          Cardinality({i \in DOMAIN s :
             /\ E[b] <= s[i] * Bins
             /\ s[i] * Bins < E[b + 1] \/ (b = Len(E) - 1 /\ s[i] * Bins = E[b + 1])})]
  BY Zenon DEF Histogram, Count
<1>4. Expected(ref) = Histogram(s, E) /\ DOMAIN Expected(ref) = bins
  BY <1>3 DEF Expected, E
<1>5. ASSUME NEW b \in bins PROVE Actual(ref, s)[b] = Expected(ref)[b]
  <2>1. Actual(ref, s)[b] = Cardinality({i \in DOMAIN s : Bucket(s[i], E) = b})
    BY <1>4 DEF Actual, Count, Expected, E
  <2>2. Expected(ref)[b] =
          Cardinality({i \in DOMAIN s :
             /\ E[b] <= s[i] * Bins
             /\ s[i] * Bins < E[b + 1] \/ (b = Len(E) - 1 /\ s[i] * Bins = E[b + 1])})
    BY <1>3, <1>4, Zenon
  <2>3. \A i \in DOMAIN s : Bucket(s[i], E) = b <=>
             /\ E[b] <= s[i] * Bins
             /\ s[i] * Bins < E[b + 1] \/ (b = Len(E) - 1 /\ s[i] * Bins = E[b + 1])
    BY <1>1, <1>2, SameBin
  <2>4. {i \in DOMAIN s : Bucket(s[i], E) = b} =
        {i \in DOMAIN s :
             /\ E[b] <= s[i] * Bins
             /\ s[i] * Bins < E[b + 1] \/ (b = Len(E) - 1 /\ s[i] * Bins = E[b + 1])}
    BY <2>3, Zenon
  <2>. QED
    BY <2>1, <2>2, <2>4, Zenon
<1>6. \A b \in DOMAIN Expected(ref) : Expected(ref)[b] * Len(s) = Actual(ref, s)[b] * ref.total
  BY <1>4, <1>5
<1>. QED
  BY <1>6, Zenon DEF Psi

\* A sample of one value has it counted in one bin.
LEMMA NumericCountsEach ==
    ASSUME NEW v \in Int, NEW ref, ref.kind = "numeric", Edges(ref.edges),
           DOMAIN ref.counts = 1..(Len(ref.edges) - 1)
    PROVE  CountsEach(ref, v)
<1>. DEFINE E == ref.edges
            b == Bucket(v, E)
            bins == 1..(Len(E) - 1)
<1>1. Belongs(v, E, 1, Len(E), b)
  BY BucketIs
<1>2. Expected(ref) = ref.counts
  BY DEF Expected
<1>3. Actual(ref, <<v>>) =
        [d \in bins |-> Cardinality({i \in DOMAIN <<v>> : Bucket(<<v>>[i], E) = d})]
  BY Zenon DEF Actual, Count
<1>. HIDE DEF b, E
<1>4. ASSUME NEW d \in bins
      PROVE  Cardinality({i \in DOMAIN <<v>> : Bucket(<<v>>[i], E) = d}) = IF d = b THEN 1 ELSE 0
  <2>1. DOMAIN <<v>> = {1} /\ <<v>>[1] = v
    OBVIOUS
  <2>2. CASE d = b
    <3>1. {i \in DOMAIN <<v>> : Bucket(<<v>>[i], E) = d} = {1}
      BY <2>1, <2>2 DEF b
    <3>. QED
      BY <2>2, <3>1, FS_Singleton
  <2>3. CASE d # b
    <3>1. {i \in DOMAIN <<v>> : Bucket(<<v>>[i], E) = d} = {}
      BY <2>1, <2>3 DEF b
    <3>. QED
      BY <2>3, <3>1, FS_EmptySet
  <2>. QED
    BY <2>2, <2>3
<1>5. b \in bins /\ (b = 1 \/ E[b] <= v * Bins) /\ (b = Len(E) - 1 \/ v * Bins < E[b + 1])
  BY <1>1 DEF Belongs
<1>6. DOMAIN Expected(ref) = bins
  BY <1>2 DEF E
<1>7. Actual(ref, <<v>>) = [d \in DOMAIN Expected(ref) |-> IF d = b THEN 1 ELSE 0]
  BY <1>3, <1>4, <1>6
<1>8. \E c \in DOMAIN Expected(ref) :
         Actual(ref, <<v>>) = [d \in DOMAIN Expected(ref) |-> IF d = c THEN 1 ELSE 0]
  BY <1>5, <1>6, <1>7
<1>. QED
  BY <1>5, <1>8 DEF CountsEach, b, E

-----------------------------------------------------------------------------
(* Categories and their pool                                               *)

\* The category that the fold takes next.
Any(T) == CHOOSE c \in T : TRUE

\* f solves the recursion of the fold.
Sums(counts, R, f) ==
    f = [T \in SUBSET R |-> IF T = {} THEN 0 ELSE counts[Any(T)] + f[T \ {Any(T)}]]

\* The sum of Expected over the rare categories.
PoolSum(counts, R) == FoldSet(LAMBDA c, n : counts[c] + n, 0, R)

\* The sum of the pool is a function that solves its recursion, applied to all the
\* rare categories.
LEMMA PoolUnfolds ==
    ASSUME NEW counts, NEW R
    PROVE  PoolSum(counts, R) = (CHOOSE f : Sums(counts, R, f))[R]
BY Zenon DEF PoolSum, FoldSet, MapThenFoldSet, Sums, Any

\* The next category to add is one of those left.
LEMMA AnyIs == \A T : T # {} => Any(T) \in T
BY Zenon DEF Any

\* What a set of values counts, one of them taken out.
LEMMA PlacesSplit ==
    ASSUME NEW s \in Seq(Int), NEW T, NEW c \in T
    PROVE  Cardinality(Places(s, T)) =
               Cardinality(Places(s, {c})) + Cardinality(Places(s, T \ {c}))
<1>. DEFINE A == Places(s, {c})
            B == Places(s, T \ {c})
<1>1. IsFiniteSet(A) /\ IsFiniteSet(B)
  BY PlacesIs
<1>2. A \cap B = {} /\ Places(s, T) = A \cup B
  BY DEF Places
<1>. HIDE DEF A, B
<1>3. Cardinality(A \cup B) = Cardinality(A) + Cardinality(B) - Cardinality(A \cap B)
  BY <1>1, FS_Union
<1>4. Cardinality(A \cap B) = 0
  BY <1>2, FS_EmptySet
<1>5. Cardinality(A) \in Nat /\ Cardinality(B) \in Nat
  BY <1>1, FS_CardinalityType
<1>6. Cardinality(A \cup B) = Cardinality(A) + Cardinality(B)
  BY <1>3, <1>4, <1>5
<1>. QED
  BY <1>2, <1>6, Zenon DEF A, B

\* Counted are the occurrences in the sample.
Tally(s, counts, R) == \A c \in R : counts[c] = Cardinality(Places(s, {c}))

\* The recursion of the sum has a solution.
LEMMA SumsSolved ==
    ASSUME NEW s \in Seq(Int), NEW counts, NEW R, Tally(s, counts, R)
    PROVE  \E f : Sums(counts, R, f)
<1>. DEFINE f == [T \in SUBSET R |-> Cardinality(Places(s, T))]
<1>1. \A T \in SUBSET R : f[T] = Cardinality(Places(s, T))
  BY Zenon
<1>2. f = [T \in SUBSET R |-> f[T]]
  OBVIOUS
<1>. HIDE DEF f
<1>3. ASSUME NEW T \in SUBSET R
      PROVE  f[T] = IF T = {} THEN 0 ELSE counts[Any(T)] + f[T \ {Any(T)}]
  <2>1. CASE T = {}
    <3>1. Places(s, T) = {}
      BY <2>1 DEF Places
    <3>. QED
      BY <1>1, <2>1, <3>1, FS_EmptySet
  <2>2. CASE T # {}
    <3>1. Any(T) \in T /\ Any(T) \in R
      BY <2>2, AnyIs
    <3>2. counts[Any(T)] = Cardinality(Places(s, {Any(T)}))
      BY <3>1 DEF Tally
    <3>3. T \ {Any(T)} \in SUBSET R
      OBVIOUS
    <3>4. f[T \ {Any(T)}] = Cardinality(Places(s, T \ {Any(T)}))
      BY <1>1, <3>3, Zenon
    <3>5. f[T] = counts[Any(T)] + f[T \ {Any(T)}]
      BY <1>1, <3>1, <3>2, <3>4, PlacesSplit
    <3>. QED
      BY <2>2, <3>5
  <2>. QED
    BY <2>1, <2>2
<1>4. Sums(counts, R, f)
  BY <1>2, <1>3, Zenon DEF Sums
<1>. QED
  BY <1>4

\* The pool of the rare categories holds what the sample has of them.
LEMMA PoolIs ==
    ASSUME NEW s \in Seq(Int), NEW counts, NEW R, IsFiniteSet(R), Tally(s, counts, R)
    PROVE  PoolSum(counts, R) = Cardinality(Places(s, R))
<1>. DEFINE f == CHOOSE g : Sums(counts, R, g)
            Wrong(n) == \E T \in SUBSET R : Cardinality(T) = n /\ f[T] # Cardinality(Places(s, T))
            N == {n \in Nat : Wrong(n)}
<1>1. Sums(counts, R, f)
  BY SumsSolved, Zenon
<1>2. PoolSum(counts, R) = f[R]
  BY PoolUnfolds, Zenon
<1>. HIDE DEF f
<1>3. \A T \in SUBSET R : f[T] = IF T = {} THEN 0 ELSE counts[Any(T)] + f[T \ {Any(T)}]
  BY <1>1, Zenon DEF Sums
<1>4. \A T \in SUBSET R : IsFiniteSet(T) /\ Cardinality(T) \in Nat
  BY FS_Subset, FS_CardinalityType
<1>5. N = {}
  <2>. SUFFICES ASSUME N # {} PROVE FALSE
    OBVIOUS
  <2>1. N \subseteq Nat
    OBVIOUS
  <2>2. PICK n \in N : \A m \in N : n <= m
    <3>. HIDE DEF N
    <3>. QED
      BY <2>1, LeastNat
  <2>3. PICK T \in SUBSET R : Cardinality(T) = n /\ f[T] # Cardinality(Places(s, T))
    OBVIOUS
  <2>4. CASE T = {}
    <3>1. Places(s, T) = {}
      BY <2>4 DEF Places
    <3>2. f[T] = 0
      BY <1>3, <2>4
    <3>. QED
      BY <2>3, <3>1, <3>2, FS_EmptySet
  <2>5. CASE T # {}
    <3>. DEFINE c == Any(T)
                U == T \ {c}
    <3>1. c \in T /\ c \in R
      BY <2>5, AnyIs
    <3>. HIDE DEF c
    <3>2. f[T] = counts[c] + f[U]
      BY <1>3, <2>5 DEF c
    <3>3. Cardinality(U) = Cardinality(T) - 1
      BY <1>4, <3>1, FS_RemoveElement
    <3>4. U \in SUBSET R
      OBVIOUS
    <3>5. Cardinality(U) \in Nat /\ ~(n <= Cardinality(U))
      BY <1>4, <2>3, <3>3, <3>4
    <3>6. Cardinality(U) \notin N
      BY <2>2, <3>5
    <3>7. f[U] = Cardinality(Places(s, U))
      BY <3>4, <3>5, <3>6
    <3>8. counts[c] = Cardinality(Places(s, {c}))
      BY <3>1 DEF Tally
    <3>9. Cardinality(Places(s, T)) = Cardinality(Places(s, {c})) + Cardinality(Places(s, U))
      BY <3>1, PlacesSplit
    <3>. QED
      BY <2>3, <3>2, <3>7, <3>8, <3>9
  <2>. QED
    BY <2>4, <2>5
<1>6. f[R] = Cardinality(Places(s, R))
  <2>1. Cardinality(R) \in Nat /\ Cardinality(R) \notin N
    BY <1>4, <1>5, Zenon
  <2>. QED
    BY <2>1
<1>. QED
  BY <1>2, <1>6

\* The training data of a categorical column has the shares of its description.
LEMMA CategoricalAgrees ==
    ASSUME NEW s \in Seq(Int \ {NaN}), NEW ref, ref.kind = "categorical",
           ref.total = IF s = <<>> THEN 1 ELSE Len(s),
           ref.counts = [c \in Range(s) |-> Count(s, LAMBDA v : v = c)]
    PROVE  Psi(ref, s) = {}
<1>. DEFINE R == Range(s) \ Common(ref)
<1>0. s \in Seq(Int)
  OBVIOUS
<1>1. \A i \in DOMAIN s : s[i] \in Range(s) /\ s[i] # NaN
  BY DEF Range
<1>2. NaN \notin Range(s)
  BY <1>1 DEF Range
<1>3. DOMAIN ref.counts = Range(s) /\ Common(ref) \subseteq Range(s)
  BY DEF Common
<1>4. ASSUME NEW c \in Range(s) PROVE ref.counts[c] = Cardinality(Places(s, {c}))
  <2>1. ref.counts[c] = Cardinality({i \in DOMAIN s : s[i] = c})
    BY Zenon DEF Count
  <2>2. {i \in DOMAIN s : s[i] = c} = Places(s, {c})
    BY DEF Places
  <2>. QED
    BY <2>1, <2>2
<1>5. IsFiniteSet(R)
  <2>1. IsFiniteSet(Range(s))
    BY <1>0, RangeIs
  <2>2. R \in SUBSET Range(s)
    OBVIOUS
  <2>. QED
    BY <2>1, <2>2, FS_Subset
<1>6. Tally(s, ref.counts, R)
  BY <1>4 DEF Tally
<1>7. Expected(ref) = [b \in Common(ref) \cup {Pool} |->
             IF b = Pool THEN PoolSum(ref.counts, R) ELSE ref.counts[b]]
  BY <1>3, Zenon DEF Expected, PoolSum
<1>. HIDE DEF R
<1>8. PoolSum(ref.counts, R) = Cardinality(Places(s, R))
  BY <1>0, <1>5, <1>6, PoolIs
<1>9. Actual(ref, s) = [b \in Common(ref) \cup {Pool} |->
             Cardinality({i \in DOMAIN s : IF b = Pool THEN s[i] \notin Common(ref) ELSE s[i] = b})]
  BY Zenon DEF Actual, Count, Pooled
<1>10. ASSUME NEW b \in Common(ref) \cup {Pool}
       PROVE  Expected(ref)[b] = Actual(ref, s)[b]
  <2>1. CASE b = Pool
    <3>1. {i \in DOMAIN s : IF b = Pool THEN s[i] \notin Common(ref) ELSE s[i] = b} = Places(s, R)
      BY <1>1, <2>1 DEF Places, R
    <3>2. Expected(ref)[b] = Cardinality(Places(s, R))
      BY <1>7, <1>8, <2>1, Zenon
    <3>3. Actual(ref, s)[b] = Cardinality(Places(s, R))
      BY <1>9, <3>1, Zenon
    <3>. QED
      BY <3>2, <3>3
  <2>2. CASE b # Pool
    <3>0. b \in Common(ref) /\ b \in Range(s)
      BY <1>3, <2>2
    <3>1. {i \in DOMAIN s : IF b = Pool THEN s[i] \notin Common(ref) ELSE s[i] = b} =
          Places(s, {b})
      BY <2>2 DEF Places
    <3>2. Expected(ref)[b] = ref.counts[b]
      BY <1>7, <2>2, Zenon
    <3>3. Actual(ref, s)[b] = Cardinality(Places(s, {b}))
      BY <1>9, <3>1, Zenon
    <3>. QED
      BY <1>4, <3>0, <3>2, <3>3
  <2>. QED
    BY <2>1, <2>2
<1>11. DOMAIN Expected(ref) = Common(ref) \cup {Pool}
  BY <1>7, Zenon
<1>12. ASSUME NEW b \in DOMAIN Expected(ref)
       PROVE  Expected(ref)[b] * Len(s) = Actual(ref, s)[b] * ref.total
  <2>1. b \in Common(ref) \cup {Pool} /\ Expected(ref)[b] = Actual(ref, s)[b]
    BY <1>10, <1>11, Zenon
  <2>2. CASE s = <<>>
    <3>1. {i \in DOMAIN s : IF b = Pool THEN s[i] \notin Common(ref) ELSE s[i] = b} = {}
      BY <2>2
    <3>2. Actual(ref, s)[b] = 0
      BY <1>9, <2>1, <3>1, FS_EmptySet, Zenon
    <3>3. Len(s) = 0 /\ ref.total = 1
      BY <2>2
    <3>. QED
      BY <2>1, <3>2, <3>3
  <2>3. CASE s # <<>>
    <3>1. ref.total = Len(s)
      BY <2>3
    <3>. QED
      BY <2>1, <3>1
  <2>. QED
    BY <2>2, <2>3
<1>. QED
  BY <1>12, Zenon DEF Psi

\* A sample of one value has it counted under its category or in the pool.
LEMMA CategoricalCountsEach ==
    ASSUME NEW v, v # NaN, NEW ref, ref.kind = "categorical", NaN \notin DOMAIN ref.counts
    PROVE  CountsEach(ref, v)
<1>. DEFINE b == IF v \in Common(ref) THEN v ELSE Pool
            bins == Common(ref) \cup {Pool}
<1>1. Pool \notin Common(ref)
  BY DEF Common, Pool
<1>2. ref.kind # "numeric"
  OBVIOUS
<1>3. DOMAIN Expected(ref) = bins
  BY <1>2, Zenon DEF Expected
<1>4. Actual(ref, <<v>>) = [d \in bins |->
          Cardinality({i \in DOMAIN <<v>> :
             IF d = Pool THEN <<v>>[i] \notin Common(ref) ELSE <<v>>[i] = d})]
  BY <1>2, Zenon DEF Actual, Count, Pooled
<1>5. ASSUME NEW d \in bins
      PROVE  Cardinality({i \in DOMAIN <<v>> :
                IF d = Pool THEN <<v>>[i] \notin Common(ref) ELSE <<v>>[i] = d})
             = IF d = b THEN 1 ELSE 0
  <2>1. DOMAIN <<v>> = {1} /\ <<v>>[1] = v
    OBVIOUS
  <2>2. (IF d = Pool THEN v \notin Common(ref) ELSE v = d) <=> d = b
    BY <1>1
  <2>. DEFINE U == {i \in DOMAIN <<v>> :
                       IF d = Pool THEN <<v>>[i] \notin Common(ref) ELSE <<v>>[i] = d}
  <2>3. CASE d = b
    <3>1. U = {1}
      BY <2>1, <2>2, <2>3
    <3>. QED
      BY <2>3, <3>1, FS_Singleton
  <2>4. CASE d # b
    <3>1. U = {}
      BY <2>1, <2>2, <2>4
    <3>. QED
      BY <2>4, <3>1, FS_EmptySet
  <2>. QED
    BY <2>3, <2>4
<1>. HIDE DEF b
<1>6. b \in bins
  BY DEF b
<1>7. Actual(ref, <<v>>) = [d \in DOMAIN Expected(ref) |-> IF d = b THEN 1 ELSE 0]
  BY <1>3, <1>4, <1>5
<1>8. \E c \in DOMAIN Expected(ref) :
         Actual(ref, <<v>>) = [d \in DOMAIN Expected(ref) |-> IF d = c THEN 1 ELSE 0]
  BY <1>3, <1>6, <1>7
<1>. QED
  BY <1>2, <1>8 DEF CountsEach

-----------------------------------------------------------------------------
(* The reference and its use                                               *)

\* What a description is.
LEMMA DescribeIs ==
    ASSUME NEW col \in TrainingColumns
    PROVE  LET ref == Describe(col)
               s == Present(col.values)
           IN \/ ref.kind = "none"
              \/ /\ ref.kind = "categorical" /\ ref.total = IF s = <<>> THEN 1 ELSE Len(s)
                 /\ ref.counts = [c \in Range(s) |-> Count(s, LAMBDA v : v = c)]
              \/ /\ Cardinality(Range(s)) > Bins
                 /\ ref.kind = "numeric" /\ ref.total = Len(s) /\ ref.edges = EdgesOf(s)
                 /\ ref.counts = Histogram(s, EdgesOf(s))
<1>. DEFINE s == Present(col.values)
            byCategory == col.kind = "text" \/ Cardinality(Range(s)) <= Bins
<1>1. s \in Seq(Int)
  BY PresentIs DEF TrainingColumns
<1>2. Cardinality(Range(s)) \in Nat /\ Bins \in Nat
  BY <1>1, RangeIs, FS_CardinalityType, ScoresAssumption
<1>3. byCategory \/ Cardinality(Range(s)) > Bins
  BY <1>2
<1>4. CASE col.kind = "absent"
  BY <1>4 DEF Describe
<1>5. CASE col.kind # "absent" /\ byCategory
  <2>1. Describe(col) = [kind |-> "categorical", total |-> IF s = <<>> THEN 1 ELSE Len(s),
                            counts |-> [c \in Range(s) |-> Count(s, LAMBDA v : v = c)]]
    BY <1>5, Zenon DEF Describe
  <2>. QED
    BY <2>1
<1>6. CASE col.kind # "absent" /\ ~byCategory
  <2>1. Describe(col) = [kind |-> "numeric", total |-> Len(s), edges |-> EdgesOf(s),
                            counts |-> Histogram(s, EdgesOf(s))]
    BY <1>6, Zenon DEF Describe
  <2>. QED
    BY <1>3, <1>6, <2>1
<1>. QED
  BY <1>4, <1>5, <1>6

\* Training and serving agree about every column, of numbers or of texts.
THEOREM DescribeAgrees ==
    ASSUME NEW col \in TrainingColumns
    PROVE  AgreesWith(Describe(col), col)
<1>. DEFINE ref == Describe(col)
            s == Present(col.values)
<1>1. s \in Seq(Int \ {NaN}) /\ s \in Seq(Int)
  BY PresentIs DEF TrainingColumns
<1>2. \/ ref.kind = "none"
      \/ /\ ref.kind = "categorical" /\ ref.total = IF s = <<>> THEN 1 ELSE Len(s)
         /\ ref.counts = [c \in Range(s) |-> Count(s, LAMBDA v : v = c)]
      \/ /\ Cardinality(Range(s)) > Bins
         /\ ref.kind = "numeric" /\ ref.total = Len(s) /\ ref.edges = EdgesOf(s)
         /\ ref.counts = Histogram(s, EdgesOf(s))
  BY DescribeIs, Zenon
<1>. HIDE DEF ref, s
<1>3. ref.kind # "none" => Psi(ref, s) = {}
  BY <1>1, <1>2, NumericAgrees, CategoricalAgrees
<1>. QED
  BY <1>3 DEF AgreesWith, ref, s

\* Every value is counted once, whatever the column was.
THEOREM DescribeCounts ==
    ASSUME NEW col \in TrainingColumns, NEW v \in Int, v # NaN
    PROVE  CountsEach(Describe(col), v)
<1>. DEFINE ref == Describe(col)
            s == Present(col.values)
<1>1. s \in Seq(Int \ {NaN}) /\ s \in Seq(Int)
  BY PresentIs DEF TrainingColumns
<1>2. \/ ref.kind = "none"
      \/ /\ ref.kind = "categorical" /\ ref.total = IF s = <<>> THEN 1 ELSE Len(s)
         /\ ref.counts = [c \in Range(s) |-> Count(s, LAMBDA u : u = c)]
      \/ /\ Cardinality(Range(s)) > Bins
         /\ ref.kind = "numeric" /\ ref.total = Len(s) /\ ref.edges = EdgesOf(s)
         /\ ref.counts = Histogram(s, EdgesOf(s))
  BY DescribeIs, Zenon
<1>. HIDE DEF ref, s
<1>3. CASE ref.kind = "none"
  BY <1>3 DEF CountsEach, ref
<1>4. CASE /\ ref.kind = "categorical"
           /\ ref.counts = [c \in Range(s) |-> Count(s, LAMBDA u : u = c)]
  <2>1. DOMAIN ref.counts = Range(s)
    BY <1>4
  <2>2. NaN \notin DOMAIN ref.counts
    BY <1>1, <2>1 DEF Range
  <2>. QED
    BY <1>4, <2>2, CategoricalCountsEach DEF ref
<1>5. CASE /\ Cardinality(Range(s)) > Bins
           /\ ref.kind = "numeric" /\ ref.edges = EdgesOf(s)
           /\ ref.counts = Histogram(s, EdgesOf(s))
  <2>1. Edges(ref.edges)
    BY <1>1, <1>5, EdgesAre
  <2>2. DOMAIN ref.counts = 1..(Len(ref.edges) - 1)
    BY <1>5 DEF Histogram
  <2>. QED
    BY <1>5, <2>1, <2>2, NumericCountsEach DEF ref
<1>. QED
  BY <1>2, <1>3, <1>4, <1>5

-----------------------------------------------------------------------------
(* The monitor: its types and its reference                                *)

Rows == [n : 1..MaxRows, value : Values, created : 0..MaxRows, scored : BOOLEAN]
Samples == {q \in Seq(Values) : Len(q) <= Window}
Tasks == {"timer", "recompute"}

\* The reference is the description of the column, the table a list of rows and
\* a sample a list of values no longer than the window.
MonInv ==
    /\ column \in Columns /\ reference = Describe(column)
    /\ table \in Seq(Rows)
    /\ rows \in 0..MaxRows /\ Len(table) <= rows
    /\ script \in {"not_run", "loading", "ended"}
    /\ timer \in {"sleep", "drift", "scoring", "live"}
    /\ recompute \in {"idle", "scoring"}
    /\ sample \in [Tasks -> Samples]
    /\ latest.samples \in 0..Window
    /\ samples \in 0..Window
    /\ live.scored \in 0..LiveWindow
    /\ failures \in 0..MaxFailures

\* No rows are a sample.
LEMMA EmptySample == <<>> \in Samples /\ Len(<<>>) = 0
BY MonitorAssumption DEF Samples

\* The length of a sample is what a report and a gauge may show.
LEMMA SampleLength == \A q \in Samples : Len(q) \in 0..Window
BY MonitorAssumption DEF Samples

\* The newest rows are a sample.
LEMMA NewestIs == MonInv => Newest(Window) \in Samples
<1>. SUFFICES ASSUME MonInv PROVE Newest(Window) \in Samples
  OBVIOUS
<1>. DEFINE n == Len(table)
            k == IF n < Window THEN n ELSE Window
            q == Newest(Window)
<1>1. table \in Seq(Rows) /\ n \in Nat /\ Window \in Nat
  BY MonitorAssumption DEF MonInv
<1>2. k \in Nat /\ k <= Window /\ k <= n
  BY <1>1
<1>3. q = [i \in 1..k |-> table[n + 1 - i].value]
  BY DEF Newest
<1>. HIDE DEF k, q
<1>4. ASSUME NEW i \in 1..k PROVE table[n + 1 - i].value \in Values
  <2>1. n + 1 - i \in 1..n
    BY <1>1, <1>2
  <2>2. table[n + 1 - i] \in Rows
    BY <1>1, <2>1
  <2>. QED
    BY <2>2 DEF Rows
<1>5. q \in [1..k -> Values]
  BY <1>3, <1>4
<1>6. q \in Seq(Values) /\ Len(q) = k
  BY <1>2, <1>5
<1>. QED
  BY <1>2, <1>6 DEF Samples, q

\* The live error is of no more rows than its window.
LEMMA NewestScoredIs ==
    ASSUME MonInv, NEW S \in NewestScored
    PROVE  Cardinality(S) \in 0..LiveWindow
<1>1. table \in Seq(Rows) /\ Len(table) \in Nat /\ LiveWindow \in Nat
  BY MonitorAssumption DEF MonInv
<1>2. Scored \in SUBSET (1..Len(table))
  BY <1>1 DEF Scored
<1>3. IsFiniteSet(Scored)
  <2>1. IsFiniteSet(1..Len(table))
    BY <1>1, FS_Interval
  <2>. QED
    BY <1>2, <2>1, FS_Subset
<1>4. Cardinality(Scored) \in Nat
  BY <1>3, FS_CardinalityType
<1>5. Cardinality(S) =
        IF Cardinality(Scored) < LiveWindow THEN Cardinality(Scored) ELSE LiveWindow
  BY DEF NewestScored
<1>. QED
  BY <1>1, <1>4, <1>5

\* A row that is inserted or loaded is of the table's type.
LEMMA RowAdded ==
    ASSUME MonInv, rows < MaxRows, NEW v \in Values, NEW created \in 0..MaxRows,
           table' = Append(table, Row(v, created)), rows' = rows + 1
    PROVE  table' \in Seq(Rows) /\ rows' \in 0..MaxRows /\ Len(table') <= rows'
<1>1. rows \in Nat /\ MaxRows \in Nat /\ table \in Seq(Rows) /\ Len(table) <= rows
  BY MonitorAssumption DEF MonInv
<1>2. rows + 1 \in 1..MaxRows
  BY <1>1
<1>3. Row(v, created) \in Rows
  BY <1>2 DEF Row, Rows
<1>4. table' \in Seq(Rows) /\ Len(table') = Len(table) + 1 /\ Len(table) \in Nat
  BY <1>1, <1>3
<1>. QED
  BY <1>1, <1>2, <1>4

\* The monitor starts with its types.
LEMMA MonInit == Init => MonInv
<1>. SUFFICES ASSUME Init PROVE MonInv
  OBVIOUS
<1>1. MaxRows \in Nat /\ Window \in Nat /\ LiveWindow \in Nat /\ MaxFailures \in Nat
  BY MonitorAssumption
<1>2. column \in Columns /\ reference = Describe(column)
  BY DEF Init
<1>3. table = <<>> /\ rows = 0 /\ table \in Seq(Rows) /\ Len(table) = 0
  BY DEF Init
<1>4. script = "not_run" /\ timer = "drift" /\ recompute = "idle" /\ failures = 0 /\ samples = 0
  BY DEF Init
<1>5. sample \in [Tasks -> Samples]
  <2>1. sample = [timer |-> <<>>, recompute |-> <<>>]
    BY DEF Init
  <2>. QED
    BY <2>1, EmptySample DEF Tasks
<1>6. latest.samples = 0
  BY EmptySample DEF Init, Report
<1>7. live.scored = 0
  BY DEF Init
<1>. QED
  BY <1>1, <1>2, <1>3, <1>4, <1>5, <1>6, <1>7 DEF MonInv

\* A report that is published is one of a sample.
LEMMA MonPublish ==
    ASSUME MonInv, NEW a \in Tasks, Publish(a)
    PROVE  /\ sample' \in [Tasks -> Samples]
           /\ latest'.samples \in 0..Window
           /\ samples' \in 0..Window
<1>1. sample \in [Tasks -> Samples] /\ sample[a] \in Samples
  BY DEF MonInv
<1>2. sample' = [sample EXCEPT ![a] = <<>>]
  BY DEF Publish
<1>3. sample' \in [Tasks -> Samples]
  BY <1>1, <1>2, EmptySample
<1>4. Len(sample[a]) \in 0..Window
  BY <1>1, SampleLength
<1>5. samples' = Len(sample[a])
  BY DEF Publish, Show
<1>6. latest'.samples = Len(sample[a])
  BY DEF Publish, Report
<1>. QED
  BY <1>3, <1>4, <1>5, <1>6

\* Every step keeps them.
LEMMA MonNext ==
    ASSUME MonInv, [Next]_vars
    PROVE  MonInv'
<1>0. "timer" \in Tasks /\ "recompute" \in Tasks
  BY DEF Tasks
<1>1. CASE TimerRead
  <2>1. sample' \in [Tasks -> Samples]
    <3>1. CASE Read("timer")
      <4>1. sample' = [sample EXCEPT !["timer"] = Newest(Window)]
        BY <3>1 DEF Read
      <4>. QED
        BY <4>1, NewestIs DEF MonInv
    <3>2. CASE UNCHANGED sample
      BY <3>2 DEF MonInv
    <3>. QED
      BY <1>1, <3>1, <3>2 DEF TimerRead
  <2>2. timer' \in {"scoring", "live"}
    BY <1>1 DEF TimerRead
  <2>. QED
    BY <1>1, <2>1, <2>2 DEF TimerRead, MonInv, training, database, drift
<1>2. CASE TimerPublish
  <2>1. /\ sample' \in [Tasks -> Samples]
        /\ latest'.samples \in 0..Window /\ samples' \in 0..Window
    BY <1>0, <1>2, MonPublish DEF TimerPublish
  <2>. QED
    BY <1>2, <2>1 DEF TimerPublish, MonInv, training, database
<1>3. CASE TimerDriftFails
  <2>1. sample' \in [Tasks -> Samples]
    <3>1. sample' = [sample EXCEPT !["timer"] = <<>>]
      BY <1>3 DEF TimerDriftFails
    <3>. QED
      BY <3>1, EmptySample DEF MonInv
  <2>2. failures' \in 0..MaxFailures
    BY <1>3, MonitorAssumption DEF TimerDriftFails, MonInv
  <2>. QED
    BY <1>3, <2>1, <2>2 DEF TimerDriftFails, AfterFailure, MonInv, training, database, drift
<1>4. CASE RefreshLiveError
  <2>1. PICK S \in NewestScored : live' = LiveError(S)
    BY <1>4 DEF RefreshLiveError
  <2>2. live'.scored = Cardinality(S)
    BY <2>1 DEF LiveError
  <2>3. live'.scored \in 0..LiveWindow
    BY <2>2, NewestScoredIs
  <2>. QED
    BY <1>4, <2>3 DEF RefreshLiveError, MonInv, training, database, drift
<1>5. CASE LiveErrorFails
  <2>1. failures' \in 0..MaxFailures
    BY <1>5, MonitorAssumption DEF LiveErrorFails, MonInv
  <2>. QED
    BY <1>5, <2>1 DEF LiveErrorFails, MonInv, training, database, drift
<1>6. CASE Wake
  BY <1>6 DEF Wake, MonInv, training, database, drift
<1>7. CASE Recompute
  <2>1. sample' \in [Tasks -> Samples]
    <3>1. sample' = [sample EXCEPT !["recompute"] = Newest(Window)]
      BY <1>7 DEF Recompute, Read
    <3>. QED
      BY <3>1, NewestIs DEF MonInv
  <2>. QED
    BY <1>7, <2>1 DEF Recompute, MonInv, training, database, drift
<1>8. CASE RecomputeEnds
  <2>1. CASE Publish("recompute") /\ UNCHANGED failures
    <3>1. /\ sample' \in [Tasks -> Samples]
          /\ latest'.samples \in 0..Window /\ samples' \in 0..Window
      BY <1>0, <2>1, MonPublish
    <3>. QED
      BY <1>8, <2>1, <3>1 DEF RecomputeEnds, MonInv, training, database
  <2>2. CASE /\ failures < MaxFailures /\ failures' = failures + 1
             /\ sample' = [sample EXCEPT !.recompute = <<>>] /\ UNCHANGED drift
    <3>1. sample' \in [Tasks -> Samples]
      <4>1. sample' = [sample EXCEPT !["recompute"] = <<>>]
        BY <2>2
      <4>. QED
        BY <4>1, EmptySample DEF MonInv
    <3>2. failures' \in 0..MaxFailures
      BY <2>2, MonitorAssumption DEF MonInv
    <3>. QED
      BY <1>8, <2>2, <3>1, <3>2 DEF RecomputeEnds, MonInv, training, database, drift
  <2>. QED
    BY <1>8, <2>1, <2>2 DEF RecomputeEnds
<1>9. CASE Insert
  <2>1. PICK v \in Values : table' = Append(table, Row(v, rows + 1))
    BY <1>9 DEF Insert
  <2>2. rows + 1 \in 0..MaxRows /\ rows < MaxRows /\ rows' = rows + 1
    BY <1>9, MonitorAssumption DEF Insert, MonInv
  <2>3. table' \in Seq(Rows) /\ rows' \in 0..MaxRows /\ Len(table') <= rows'
    BY <2>1, <2>2, RowAdded
  <2>. QED
    BY <1>9, <2>3 DEF Insert, MonInv, training, tasks, drift
<1>10. CASE Copy
  <2>1. PICK v \in Values : table' = Append(table, Row(v, 0))
    BY <1>10 DEF Copy, Generated
  <2>2. 0 \in 0..MaxRows /\ rows < MaxRows /\ rows' = rows + 1
    BY <1>10, MonitorAssumption DEF Copy, MonInv
  <2>3. table' \in Seq(Rows) /\ rows' \in 0..MaxRows /\ Len(table') <= rows'
    BY <2>1, <2>2, RowAdded
  <2>. QED
    BY <1>10, <2>3 DEF Copy, MonInv, training, tasks, drift
<1>11. CASE ScriptBegin
  <2>1. table' \in Seq(Rows) /\ Len(table') <= rows
    <3>1. rows \in Nat
      BY MonitorAssumption DEF MonInv
    <3>2. <<>> \in Seq(Rows) /\ Len(<<>>) <= rows
      BY <3>1
    <3>. QED
      BY <1>11, <3>2 DEF ScriptBegin, MonInv
  <2>. QED
    BY <1>11, <2>1 DEF ScriptBegin, MonInv, training, tasks, drift
<1>12. CASE ScriptEnds
  BY <1>12 DEF ScriptEnds, MonInv, training, tasks, drift
<1>13. CASE RecordActual
  <2>1. PICK i \in DOMAIN table : table' = [table EXCEPT ![i].scored = TRUE]
    BY <1>13 DEF RecordActual
  <2>2. table \in Seq(Rows) /\ table[i] \in Rows
    BY <2>1 DEF MonInv
  <2>. DEFINE r == [table[i] EXCEPT !.scored = TRUE]
  <2>3. r \in Rows
    BY <2>2 DEF Rows
  <2>4. table' = [table EXCEPT ![i] = r]
    BY <2>1
  <2>. HIDE DEF r
  <2>5. table' \in Seq(Rows) /\ Len(table') = Len(table)
    BY <2>2, <2>3, <2>4
  <2>. QED
    BY <1>13, <2>5 DEF RecordActual, MonInv, training, tasks, drift
<1>14. CASE UNCHANGED vars
  BY <1>14 DEF vars, MonInv, training, database, tasks, drift
<1>. QED
  BY <1>1, <1>2, <1>3, <1>4, <1>5, <1>6, <1>7, <1>8, <1>9, <1>10, <1>11, <1>12, <1>13, <1>14
  DEF Next, Timer

\* The inductive invariant of the monitor.
THEOREM MonitorInductive == Spec => []MonInv
BY MonInit, MonNext, PTL DEF Spec

\* The variables keep their types, whatever is read, scored, inserted, emptied
\* and loaded in between.
THEOREM TypeCorrect == Spec => []TypeOK
<1>1. MonInv => TypeOK
  <2>. SUFFICES ASSUME MonInv PROVE TypeOK
    OBVIOUS
  <2>1. reference.kind \in {"none", "numeric", "categorical"}
    <3>1. column \in TrainingColumns /\ reference = Describe(column)
      BY MonitorAssumption DEF MonInv
    <3>. QED
      BY <3>1, DescribeIs, Zenon
  <2>2. \A i \in DOMAIN table : table[i] \in Rows
    BY DEF MonInv
  <2>3. \A a \in Tasks : Len(sample[a]) <= Window
    BY DEF MonInv, Samples
  <2>. QED
    BY <2>1, <2>2, <2>3 DEF MonInv, TypeOK, Rows, Tasks
<1>. QED
  BY <1>1, MonitorInductive, PTL

\* train_model.py and drift.py count alike, at every time and for every column
\* that may be configured: scored as live traffic, the training data has no drift.
THEOREM TrainingHasNoDriftHolds == Spec => []TrainingHasNoDrift
<1>1. MonInv => TrainingHasNoDrift
  BY DescribeAgrees, MonitorAssumption DEF MonInv, TrainingHasNoDrift
<1>. QED
  BY <1>1, MonitorInductive, PTL

\* Every value that is tried is counted in one bin, the one whose edges hold it.
THEOREM EveryValueCountedHolds == Spec => []EveryValueCounted
<1>1. MonInv => EveryValueCounted
  BY DescribeCounts, MonitorAssumption DEF MonInv, EveryValueCounted
<1>. QED
  BY <1>1, MonitorInductive, PTL

-----------------------------------------------------------------------------
(* The monitor: its report and its gauges                                  *)

\* Before the first refresh the report is that of no rows, and not ready.
LEMMA InitInv == Init => GaugesAgree
<1>. SUFFICES ASSUME Init PROVE GaugesAgree
  OBVIOUS
<1>1. latest = Report(<<>>) /\ samples = 0
  BY DEF Init
<1>2. Report(<<>>).samples = 0
  BY DEF Report
<1>3. ~Report(<<>>).ready
  <2>1. ~(Len(<<>>) >= MinSamples)
    BY MonitorAssumption
  <2>. QED
    BY <2>1 DEF Report
<1>. QED
  BY <1>1, <1>2, <1>3 DEF GaugesAgree

\* What a step keeps and what it may do.
Together == GaugesAgree' /\ (~latest'.ready => UNCHANGED psi)

\* A report is published together with its gauges, whoever publishes.
LEMMA PublishInv ==
    ASSUME NEW a, Publish(a), UNCHANGED training
    PROVE  Together
<1>. DEFINE s == sample[a]
<1>1. latest' = Report(s) /\ samples' = Len(s)
  BY DEF Publish, Show
<1>2. Report(s).samples = Len(s)
  BY DEF Report
<1>3. CASE Report(s).ready
  <2>1. psi' = Psi(reference, s)
    BY <1>3 DEF Publish, Show
  <2>2. Report(s).worst = Psi(reference, s)
    BY <1>3 DEF Report
  <2>. QED
    BY <1>1, <1>2, <1>3, <2>1, <2>2 DEF GaugesAgree, Together
<1>4. CASE ~Report(s).ready
  <2>1. psi' = psi
    BY <1>4 DEF Publish, Show
  <2>. QED
    BY <1>1, <1>2, <1>4, <2>1 DEF GaugesAgree, Together
<1>. QED
  BY <1>3, <1>4

LEMMA NextInv ==
    ASSUME GaugesAgree, [Next]_vars
    PROVE  Together
<1>1. CASE UNCHANGED drift
  BY <1>1 DEF drift, GaugesAgree, Together
<1>2. CASE TimerPublish
  BY <1>2, PublishInv DEF TimerPublish
<1>3. CASE RecomputeEnds
  <2>1. CASE Publish("recompute") /\ UNCHANGED training
    BY <2>1, PublishInv
  <2>. QED
    BY <1>1, <1>3, <2>1 DEF RecomputeEnds
<1>4. CASE \/ TimerRead \/ TimerDriftFails \/ RefreshLiveError \/ LiveErrorFails \/ Wake
           \/ Recompute
  BY <1>1, <1>4 DEF TimerRead, TimerDriftFails, RefreshLiveError, LiveErrorFails, Wake, Recompute
<1>5. CASE Insert \/ RecordActual \/ ScriptBegin \/ Copy \/ ScriptEnds
  BY <1>1, <1>5 DEF Insert, RecordActual, ScriptBegin, Copy, ScriptEnds
<1>6. CASE UNCHANGED vars
  BY <1>1, <1>6 DEF vars
<1>. QED
  BY <1>2, <1>3, <1>4, <1>5, <1>6 DEF Next, Timer

\* However the timer, requests to recompute and their failures interleave, the
\* gauges are those of the report that /model/drift shows, and those of the
\* features of the last one that had enough rows.
THEOREM GaugesShowTheReportHolds == Spec => GaugesShowTheReport
<1>1. GaugesAgree /\ [Next]_vars => GaugesAgree'
  BY NextInv DEF Together
<1>2. GaugesAgree /\ [Next]_vars => [~latest'.ready => UNCHANGED psi]_vars
  BY NextInv DEF Together
<1>. QED
  BY InitInv, <1>1, <1>2, PTL DEF Spec, GaugesShowTheReport
=============================================================================
