---------------------- MODULE PredictionWriterRowsProofs ----------------------
(***************************************************************************)
(* Theorems about PredictionWriter that follow single rows from the queue  *)
(* to the table: that none is forgotten, inserted twice or counted for     *)
(* what it is not, in whatever order consumer, stop and flush_now run;     *)
(* that the writer implements PredictionLog; and that it does to a row     *)
(* what OutcomeReports assumes.                                            *)
(*                                                                         *)
(* RowInv adds to IInv, which counts rows, where each of them is.  A step  *)
(* only does one of a few things to rows: it takes rows off the queue into *)
(* a batch (TakeUp), commits the statement of a flow, passes over what was *)
(* answered (Quiet), puts a batch down, offers or sheds a row, or starts   *)
(* from nothing.  There is a lemma for each of these, and one for each     *)
(* action that says which of them it is.  A flow is compared by what of    *)
(* its batch is sent, counted and unsent (SentOf, CountedOf, UnsentOf),    *)
(* which hides where in the batch or in its retry the flow is.             *)
(***************************************************************************)
EXTENDS PredictionWriterProofs, FiniteSetTheorems

-----------------------------------------------------------------------------
(* Lemmas about sequences of rows                                          *)

Increasing(s) == \A i, j \in DOMAIN s : i < j => s[i] < s[j]

LEMMA RowsAreNumbers == Rows \subseteq Nat
BY WriterAssumption DEF Rows

LEMMA RangeAt ==
    ASSUME NEW s \in Seq(Rows)
    PROVE  /\ Len(s) \in Nat /\ DOMAIN s = 1..Len(s)
           /\ Range(s) = {s[i] : i \in 1..Len(s)}
           /\ Range(s) \subseteq Rows
           /\ \A i \in 1..Len(s) : s[i] \in Rows /\ s[i] \in Nat
BY LenProperties, RangeEquality, RangeOfSeq, ElementOfSeq, RowsAreNumbers

\* A queue in order, cut in two: both parts are in order, and the first one
\* comes before the second.
LEMMA IncreasingCut ==
    ASSUME NEW q \in Seq(Rows), Increasing(q), NEW n \in 0..Len(q)
    PROVE  LET a == SubSeq(q, 1, n)
               b == SubSeq(q, n + 1, Len(q))
           IN /\ Increasing(a) /\ Increasing(b)
              /\ Range(a) \cup Range(b) = Range(q)
              /\ \A x \in Range(a), y \in Range(b) : x < y
<1>. DEFINE a == SubSeq(q, 1, n)
            b == SubSeq(q, n + 1, Len(q))
            m == Len(q)
<1>1. m \in Nat /\ n \in Nat /\ n <= m
  BY LenProperties
<1>2. /\ a \in Seq(Rows) /\ Len(a) = n /\ b \in Seq(Rows) /\ Len(b) = m - n
  BY CutProperties
<1>3. \A i \in 1..n : a[i] = q[i]
  OBVIOUS
<1>4. \A i \in 1..(m - n) : b[i] = q[n + i]
  OBVIOUS
<1>5. /\ DOMAIN a = 1..n /\ DOMAIN b = 1..(m - n) /\ DOMAIN q = 1..m
      /\ Range(a) = {a[i] : i \in 1..n} /\ Range(b) = {b[i] : i \in 1..(m - n)}
      /\ Range(q) = {q[i] : i \in 1..m}
  BY <1>2, RangeAt
<1>6. \A i, j \in 1..m : i < j => q[i] < q[j]
  BY <1>5 DEF Increasing
<1>. HIDE DEF a, b, m
<1>7. Increasing(a)
  BY <1>1, <1>3, <1>5, <1>6 DEF Increasing
<1>8. Increasing(b)
  <2>. SUFFICES ASSUME NEW i \in 1..(m - n), NEW j \in 1..(m - n), i < j PROVE b[i] < b[j]
    BY <1>5 DEF Increasing
  <2>1. n + i \in 1..m /\ n + j \in 1..m /\ n + i < n + j
    BY <1>1
  <2>. QED
    BY <1>4, <1>6, <2>1
<1>9. Range(a) \cup Range(b) = Range(q)
  <2>1. ASSUME NEW i \in 1..m PROVE q[i] \in Range(a) \cup Range(b)
    <3>1. CASE i <= n
      BY <3>1, <1>1, <1>3, <1>5
    <3>2. CASE i > n
      <4>1. i - n \in 1..(m - n) /\ n + (i - n) = i
        BY <3>2, <1>1
      <4>. QED
        BY <4>1, <1>4, <1>5
    <3>. QED
      BY <3>1, <3>2, <1>1
  <2>2. ASSUME NEW i \in 1..n PROVE a[i] \in Range(q)
    BY <1>1, <1>3, <1>5
  <2>3. ASSUME NEW i \in 1..(m - n) PROVE b[i] \in Range(q)
    <3>1. n + i \in 1..m
      BY <1>1
    <3>. QED
      BY <3>1, <1>4, <1>5
  <2>. QED
    BY <1>5, <2>1, <2>2, <2>3
<1>10. ASSUME NEW x \in Range(a), NEW y \in Range(b) PROVE x < y
  <2>1. PICK i \in 1..n : x = q[i]
    BY <1>3, <1>5
  <2>2. PICK j \in 1..(m - n) : y = q[n + j]
    BY <1>4, <1>5
  <2>3. i \in 1..m /\ n + j \in 1..m /\ i < n + j
    BY <1>1
  <2>. QED
    BY <1>6, <2>1, <2>2, <2>3
<1>. QED
  BY <1>7, <1>8, <1>9, <1>10 DEF a, b, m

LEMMA IncreasingAppend ==
    ASSUME NEW q \in Seq(Rows), Increasing(q), NEW r \in Rows, \A x \in Range(q) : x < r
    PROVE  Increasing(Append(q, r)) /\ Range(Append(q, r)) = Range(q) \cup {r}
<1>. DEFINE p == Append(q, r)
            m == Len(q)
<1>1. /\ m \in Nat /\ p \in Seq(Rows) /\ Len(p) = m + 1
      /\ \A i \in 1..m : p[i] = q[i]
      /\ p[m + 1] = r
  BY AppendProperties, LenProperties
<1>2. /\ DOMAIN p = 1..(m + 1) /\ Range(p) = {p[i] : i \in 1..(m + 1)}
      /\ DOMAIN q = 1..m /\ Range(q) = {q[i] : i \in 1..m}
  BY <1>1, RangeAt
<1>. HIDE DEF p, m
<1>3. Increasing(p)
  <2>. SUFFICES ASSUME NEW i \in 1..(m + 1), NEW j \in 1..(m + 1), i < j PROVE p[i] < p[j]
    BY <1>2 DEF Increasing
  <2>1. i \in 1..m
    BY <1>1
  <2>2. CASE j = m + 1
    BY <1>1, <1>2, <2>1, <2>2
  <2>3. CASE j # m + 1
    <3>1. j \in 1..m
      BY <1>1, <2>3
    <3>. QED
      BY <1>1, <1>2, <2>1, <3>1 DEF Increasing
  <2>. QED
    BY <2>2, <2>3
<1>4. 1..(m + 1) = 1..m \cup {m + 1}
  BY <1>1
<1>5. Range(p) = Range(q) \cup {r}
  BY <1>1, <1>2, <1>4
<1>. QED
  BY <1>3, <1>5 DEF p

\* Two sequences in order, one before the other, make one in order.
LEMMA IncreasingConcat ==
    ASSUME NEW p \in Seq(Rows), NEW q \in Seq(Rows), Increasing(p), Increasing(q),
           \A x \in Range(p), y \in Range(q) : x < y
    PROVE  Increasing(p \o q)
<1>. DEFINE c == p \o q
            m == Len(p)
            n == Len(q)
<1>1. /\ m \in Nat /\ n \in Nat /\ c \in Seq(Rows) /\ Len(c) = m + n
      /\ \A i \in 1..(m + n) : c[i] = IF i <= m THEN p[i] ELSE q[i - m]
  BY ConcatProperties, LenProperties
<1>2. /\ DOMAIN c = 1..(m + n) /\ DOMAIN p = 1..m /\ DOMAIN q = 1..n
      /\ Range(p) = {p[i] : i \in 1..m} /\ Range(q) = {q[i] : i \in 1..n}
  BY <1>1, RangeAt
<1>. HIDE DEF c, m, n
<1>. SUFFICES Increasing(c)
  BY DEF c
<1>. SUFFICES ASSUME NEW i \in 1..(m + n), NEW j \in 1..(m + n), i < j PROVE c[i] < c[j]
  BY <1>2 DEF Increasing
<1>3. CASE j <= m
  <2>1. i \in 1..m /\ j \in 1..m /\ c[i] = p[i] /\ c[j] = p[j]
    BY <1>1, <1>3
  <2>. QED
    BY <1>2, <2>1 DEF Increasing
<1>4. CASE i <= m /\ j > m
  <2>1. i \in 1..m /\ j - m \in 1..n /\ c[i] = p[i] /\ c[j] = q[j - m]
    BY <1>1, <1>4
  <2>. QED
    BY <1>2, <2>1
<1>5. CASE i > m
  <2>1. /\ i - m \in 1..n /\ j - m \in 1..n /\ i - m < j - m
        /\ c[i] = q[i - m] /\ c[j] = q[j - m]
    BY <1>1, <1>5
  <2>. QED
    BY <1>2, <2>1 DEF Increasing
<1>. QED
  BY <1>1, <1>3, <1>4, <1>5

LEMMA IntervalSize ==
    ASSUME NEW a \in Nat, NEW b \in Nat, a <= b
    PROVE  IsFiniteSet((a + 1)..b) /\ Cardinality((a + 1)..b) = b - a
<1>1. a + 1 \in Int /\ b \in Int
  OBVIOUS
<1>2. /\ IsFiniteSet((a + 1)..b)
      /\ Cardinality((a + 1)..b) = IF a + 1 > b THEN 0 ELSE b - (a + 1) + 1
  BY <1>1, FS_Interval, Zenon
<1>3. (IF a + 1 > b THEN 0 ELSE b - (a + 1) + 1) = b - a
  OBVIOUS
<1>. QED
  BY <1>2, <1>3

\* A sequence in order holds as many rows as it is long.
LEMMA IncreasingSize ==
    ASSUME NEW s \in Seq(Rows), Increasing(s)
    PROVE  IsFiniteSet(Range(s)) /\ Cardinality(Range(s)) = Len(s)
<1>1. /\ Len(s) \in Nat /\ DOMAIN s = 1..Len(s) /\ Range(s) = {s[i] : i \in 1..Len(s)}
      /\ s \in [1..Len(s) -> Range(s)]
      /\ \A i \in 1..Len(s) : s[i] \in Nat
  BY RangeAt, LenProperties
<1>2. s \in Surjection(1..Len(s), Range(s))
  BY <1>1 DEF Surjection
<1>3. \A i, j \in 1..Len(s) : s[i] = s[j] => i = j
  <2>. SUFFICES ASSUME NEW i \in 1..Len(s), NEW j \in 1..Len(s), i # j PROVE s[i] # s[j]
    OBVIOUS
  <2>1. i < j \/ j < i
    BY <1>1
  <2>2. s[i] < s[j] \/ s[j] < s[i]
    BY <1>1, <2>1 DEF Increasing
  <2>3. s[i] \in Nat /\ s[j] \in Nat
    BY <1>1
  <2>. QED
    BY ONLY <2>2, <2>3
<1>4. s \in Injection(1..Len(s), Range(s))
  BY <1>1, <1>3 DEF Injection, IsInjective
<1>5. IsFiniteSet(1..Len(s)) /\ Cardinality(1..Len(s)) = Len(s)
  <2>1. PICK n \in Nat : n = Len(s)
    BY <1>1
  <2>2. 0 <= n /\ 0 + 1 = 1 /\ n - 0 = n
    OBVIOUS
  <2>. QED
    BY <2>1, <2>2, IntervalSize, Zenon
<1>. QED
  BY <1>2, <1>4, <1>5, FS_Surjection

\* Neither do the places from one on hold more rows than there are of them.
LEMMA PlacesSize ==
    ASSUME NEW s \in Seq(Rows), NEW k \in 0..Len(s)
    PROVE  LET T == {s[i] : i \in (k + 1)..Len(s)}
           IN IsFiniteSet(T) /\ Cardinality(T) <= Len(s) - k
<1>. DEFINE T == {s[i] : i \in (k + 1)..Len(s)}
            f == [i \in (k + 1)..Len(s) |-> s[i]]
<1>1. Len(s) \in Nat /\ k \in Nat /\ k <= Len(s)
  BY LenProperties
<1>2. f \in Surjection((k + 1)..Len(s), T)
  BY DEF Surjection
<1>3. IsFiniteSet((k + 1)..Len(s)) /\ Cardinality((k + 1)..Len(s)) = Len(s) - k
  BY <1>1, IntervalSize
<1>. HIDE DEF T, f
<1>4. IsFiniteSet(T) /\ Cardinality(T) <= Len(s) - k
  BY <1>2, <1>3, FS_Surjection
<1>. QED
  BY <1>4 DEF T

-----------------------------------------------------------------------------
(* Lemmas about finite sets                                                *)

LEMMA DisjointSizes ==
    ASSUME NEW S, NEW T, IsFiniteSet(S), IsFiniteSet(T), S \cap T = {}
    PROVE  /\ IsFiniteSet(S \cup T)
           /\ Cardinality(S) \in Nat /\ Cardinality(T) \in Nat
           /\ Cardinality(S \cup T) = Cardinality(S) + Cardinality(T)
<1>1. Cardinality(S) \in Nat /\ Cardinality(T) \in Nat
  BY FS_CardinalityType
<1>2. Cardinality(S \cap T) = 0
  BY FS_EmptySet, Zenon
<1>3. /\ IsFiniteSet(S \cup T)
      /\ Cardinality(S \cup T) = Cardinality(S) + Cardinality(T) - Cardinality(S \cap T)
  BY FS_Union
<1>. QED
  BY <1>1, <1>2, <1>3

LEMMA CoveredSize ==
    ASSUME NEW S, NEW T, IsFiniteSet(S), IsFiniteSet(T), NEW U, U \subseteq S \cup T
    PROVE  /\ IsFiniteSet(U)
           /\ Cardinality(S) \in Nat /\ Cardinality(T) \in Nat /\ Cardinality(U) \in Nat
           /\ Cardinality(U) <= Cardinality(S) + Cardinality(T)
<1>1. /\ Cardinality(S) \in Nat /\ Cardinality(T) \in Nat
      /\ Cardinality(S \cap T) \in Nat
  BY FS_CardinalityType, FS_Intersection
<1>2. /\ IsFiniteSet(S \cup T)
      /\ Cardinality(S \cup T) = Cardinality(S) + Cardinality(T) - Cardinality(S \cap T)
  BY FS_Union
<1>3. IsFiniteSet(U) /\ Cardinality(U) <= Cardinality(S \cup T)
  BY <1>2, FS_Subset
<1>4. Cardinality(U) \in Nat
  BY <1>3, FS_CardinalityType
<1>. QED
  BY <1>1, <1>2, <1>3, <1>4

LEMMA SplitSize ==
    ASSUME NEW S, NEW T, IsFiniteSet(S)
    PROVE  /\ IsFiniteSet(S \ T) /\ IsFiniteSet(S \cap T)
           /\ Cardinality(S) \in Nat /\ Cardinality(S \ T) \in Nat
           /\ Cardinality(S \cap T) \in Nat
           /\ Cardinality(S) = Cardinality(S \ T) + Cardinality(S \cap T)
<1>1. IsFiniteSet(S \ T) /\ IsFiniteSet(S \cap T)
  BY FS_Difference, FS_Intersection
<1>2. (S \ T) \cap (S \cap T) = {} /\ (S \ T) \cup (S \cap T) = S
  OBVIOUS
<1>3. Cardinality((S \ T) \cup (S \cap T)) = Cardinality(S \ T) + Cardinality(S \cap T)
  BY <1>1, <1>2, DisjointSizes, Zenon
<1>. QED
  BY <1>1, <1>2, <1>3, FS_CardinalityType

\* A finite set has a subset of every smaller size.
LEMMA SubsetOfSize ==
    ASSUME NEW S, IsFiniteSet(S), NEW n \in Nat, n <= Cardinality(S)
    PROVE  \E W \in SUBSET S : Cardinality(W) = n
<1>1. PICK m \in Nat : m = Cardinality(S)
  BY FS_CardinalityType
<1>2. PICK f : f \in Bijection(1..m, S)
  BY <1>1, FS_CardinalityType DEF ExistsBijection
<1>. DEFINE W == {f[i] : i \in 1..n}
<1>3. f \in [1..m -> S] /\ IsInjective(f)
  BY <1>2 DEF Bijection, Injection
<1>4. 1..n \subseteq 1..m
  BY <1>1
<1>5. W \subseteq S
  BY <1>3, <1>4
<1>6. IsFiniteSet(1..n) /\ Cardinality(1..n) = n
  <2>1. 0 <= n /\ 0 + 1 = 1 /\ n - 0 = n
    OBVIOUS
  <2>. QED
    BY <2>1, IntervalSize, Zenon
<1>. DEFINE g == [i \in 1..n |-> f[i]]
<1>7. g \in Surjection(1..n, W)
  BY DEF Surjection
<1>8. g \in Injection(1..n, W)
  BY <1>3, <1>4 DEF Injection, IsInjective
<1>. HIDE DEF g, W
<1>9. Cardinality(W) = n
  BY <1>6, <1>7, <1>8, FS_Surjection
<1>. QED
  BY <1>5, <1>9

-----------------------------------------------------------------------------
(* What a flow has sent to the database, and what it will count            *)

\* Rows of a batch the database has answered for, or stored without an answer.
SentOf(s) ==
    IF s.mode = "rows" THEN s.written + s.rejected + (IF s.landed THEN 1 ELSE 0)
    ELSE IF s.mode = "batch" /\ s.landed THEN Size(s) ELSE 0

\* Rows of a batch the table holds, whether the flow knows it or not.
CountedOf(s) ==
    s.written + (IF s.landed THEN IF s.mode = "rows" THEN 1 ELSE Size(s) ELSE 0)

UnsentOf(s) == {s.batch[i] : i \in (SentOf(s) + 1)..Size(s)}
Unsent(f) == UnsentOf(flush[f])

LEMMA SentType ==
    ASSUME NEW s \in FlushStates, FlushStateOK(s)
    PROVE  /\ SentOf(s) \in 0..Size(s)
           /\ Size(s) - SentOf(s) \in Nat
           /\ CountedOf(s) \in Nat
           /\ s.written \in Nat /\ s.rejected \in Nat /\ Size(s) \in Nat
           /\ s.written <= CountedOf(s)
           /\ s.mode = "rows" => s.written + s.rejected <= SentOf(s)
<1>1. PICK w \in Nat, r \in Nat, z \in Nat : w = s.written /\ r = s.rejected /\ z = Size(s)
  BY SizeType DEF FlushStates
<1>2. s.landed \in BOOLEAN /\ s.mode \in {"idle", "batch", "rows"}
  BY DEF FlushStates
<1>3. w + r <= z /\ (s.mode = "rows" /\ s.landed => w + r < z)
  BY <1>1 DEF FlushStateOK
<1>4. SentOf(s) = IF s.mode = "rows" THEN w + r + (IF s.landed THEN 1 ELSE 0)
                  ELSE IF s.mode = "batch" /\ s.landed THEN z ELSE 0
  BY <1>1 DEF SentOf
<1>5. CountedOf(s) = w + (IF s.landed THEN IF s.mode = "rows" THEN 1 ELSE z ELSE 0)
  BY <1>1 DEF CountedOf
<1>6. s.mode = "rows" => w + r <= SentOf(s)
  BY <1>2, <1>4
<1>7. SentOf(s) \in 0..z /\ z - SentOf(s) \in Nat
  BY <1>2, <1>3, <1>4
<1>8. CountedOf(s) \in Nat /\ w <= CountedOf(s)
  BY <1>2, <1>5
<1>. QED
  BY <1>1, <1>6, <1>7, <1>8

\* The rows of a batch and the unsent ones among them, as finite sets.
LEMMA RowsOfState ==
    ASSUME NEW s \in FlushStates, FlushStateOK(s), Increasing(s.batch)
    PROVE  /\ s.batch \in Seq(Rows) /\ Range(s.batch) \subseteq Rows
           /\ IsFiniteSet(Range(s.batch)) /\ Cardinality(Range(s.batch)) = Size(s)
           /\ UnsentOf(s) \subseteq Range(s.batch)
           /\ IsFiniteSet(UnsentOf(s)) /\ Cardinality(UnsentOf(s)) <= Size(s) - SentOf(s)
<1>1. s.batch \in Seq(Rows)
  BY DEF FlushStates
<1>2. Range(s.batch) \subseteq Rows /\ Range(s.batch) = {s.batch[i] : i \in 1..Size(s)}
  BY <1>1, RangeAt DEF Size
<1>3. IsFiniteSet(Range(s.batch)) /\ Cardinality(Range(s.batch)) = Size(s)
  BY <1>1, IncreasingSize DEF Size
<1>4. (SentOf(s) + 1)..Size(s) \subseteq 1..Size(s)
  BY SentType
<1>5. UnsentOf(s) \subseteq Range(s.batch)
  BY <1>2, <1>4 DEF UnsentOf
<1>6. IsFiniteSet(UnsentOf(s)) /\ Cardinality(UnsentOf(s)) <= Size(s) - SentOf(s)
  BY <1>1, SentType, PlacesSize DEF UnsentOf, Size
<1>. QED
  BY <1>1, <1>2, <1>3, <1>5, <1>6

LEMMA EmptyInOrder == Increasing(<<>>) /\ Range(<<>>) = {}
BY RangeEquality DEF Increasing, Range

LEMMA IdleRows ==
    /\ Idle.batch = <<>> /\ Increasing(Idle.batch) /\ Range(Idle.batch) = {}
    /\ UnsentOf(Idle) = {} /\ CountedOf(Idle) = 0 /\ Size(Idle) = 0
<1>1. /\ Idle.batch = <<>> /\ Idle.mode = "idle" /\ Idle.landed = FALSE /\ Idle.written = 0
  BY DEF Idle
<1>2. Size(Idle) = 0 /\ SentOf(Idle) = 0 /\ CountedOf(Idle) = 0
  BY <1>1 DEF Size, SentOf, CountedOf
<1>3. UnsentOf(Idle) = {}
  BY <1>2 DEF UnsentOf
<1>. QED
  BY <1>1, <1>2, <1>3, EmptyInOrder

LEMMA FreshRows ==
    ASSUME NEW batch \in Seq(Rows)
    PROVE  LET s == Flushing(batch)
           IN s.batch = batch /\ UnsentOf(s) = Range(batch) /\ CountedOf(s) = 0 /\ Size(s) = Len(batch)
<1>. DEFINE s == Flushing(batch)
<1>1. /\ s.batch = batch /\ s.mode = "batch" /\ s.landed = FALSE /\ s.written = 0
  BY FlushingType
<1>. HIDE DEF s
<1>2. Size(s) = Len(batch) /\ SentOf(s) = 0 /\ CountedOf(s) = 0
  BY <1>1 DEF Size, SentOf, CountedOf
<1>3. UnsentOf(s) = Range(batch)
  BY <1>1, <1>2, RangeAt DEF UnsentOf
<1>. QED
  BY <1>1, <1>2, <1>3 DEF s

LEMMA NextPlace ==
    ASSUME NEW k \in Nat, NEW z \in Nat, k < z
    PROVE  /\ k + 1 \in 1..z
           /\ (k + 1)..z = {k + 1} \cup ((k + 1) + 1)..z
           /\ \A i \in ((k + 1) + 1)..z : i \in 1..z /\ k + 1 < i
<1>1. k + 1 \in 1..z /\ \A i \in ((k + 1) + 1)..z : i \in 1..z /\ k + 1 < i
  OBVIOUS
<1>2. \A i : i \in (k + 1)..z <=> i = k + 1 \/ i \in ((k + 1) + 1)..z
  OBVIOUS
<1>. QED
  BY <1>1, <1>2

\* A commit moves the rows of the statement from unsent to counted.
LEMMA Landing ==
    ASSUME NEW s \in FlushStates, FlushStateOK(s), Increasing(s.batch), ~s.landed,
           NEW st \in Seq(Rows),
           \/ s.mode = "batch" /\ st = s.batch
           \/ /\ s.mode = "rows" /\ s.written + s.rejected < Size(s)
              /\ st = <<s.batch[s.written + s.rejected + 1]>>
    PROVE  LET t == [s EXCEPT !.landed = TRUE]
           IN /\ t.batch = s.batch
              /\ Range(st) \cup UnsentOf(t) = UnsentOf(s)
              /\ \A x \in Range(st), y \in UnsentOf(t) : x < y
              /\ Increasing(st)
              /\ CountedOf(t) = CountedOf(s) + Len(st)
<1>. DEFINE t == [s EXCEPT !.landed = TRUE]
<1>1. /\ t.batch = s.batch /\ t.mode = s.mode /\ t.landed = TRUE
      /\ t.written = s.written /\ t.rejected = s.rejected /\ s.landed = FALSE
  BY DEF FlushStates
<1>2. PICK w \in Nat, r \in Nat, z \in Nat : w = s.written /\ r = s.rejected /\ z = Size(s)
  BY SentType
<1>3. /\ s.batch \in Seq(Rows) /\ Size(t) = z /\ Len(s.batch) = z
      /\ DOMAIN s.batch = 1..z
      /\ Range(s.batch) = {s.batch[i] : i \in 1..z}
      /\ \A i \in 1..z : s.batch[i] \in Nat
  BY <1>1, <1>2, RowsOfState, RangeAt DEF Size
<1>. HIDE DEF t
<1>4. CASE s.mode = "batch" /\ st = s.batch
  <2>1. w = 0 /\ r = 0
    BY <1>2, <1>4 DEF FlushStateOK
  <2>2. SentOf(s) = 0 /\ SentOf(t) = z
    BY <1>1, <1>3, <1>4 DEF SentOf
  <2>3. UnsentOf(s) = Range(st) /\ UnsentOf(t) = {}
    BY <1>1, <1>2, <1>3, <1>4, <2>2 DEF UnsentOf
  <2>4. CountedOf(s) = 0 /\ CountedOf(t) = z
    BY <1>1, <1>2, <1>3, <1>4, <2>1 DEF CountedOf
  <2>5. CountedOf(t) = CountedOf(s) + Len(st)
    BY <1>2, <1>3, <1>4, <2>4
  <2>6. Range(st) \cup UnsentOf(t) = UnsentOf(s)
        /\ \A x \in Range(st), y \in UnsentOf(t) : x < y
    BY <2>3
  <2>. QED
    BY <1>1, <1>4, <2>5, <2>6 DEF t
<1>5. CASE /\ s.mode = "rows" /\ s.written + s.rejected < Size(s)
           /\ st = <<s.batch[s.written + s.rejected + 1]>>
  <2>. DEFINE k == w + r
  <2>1. k \in Nat /\ k < z
    BY <1>2, <1>5
  <2>10. /\ k + 1 \in 1..z /\ (k + 1)..z = {k + 1} \cup ((k + 1) + 1)..z
         /\ \A i \in ((k + 1) + 1)..z : i \in 1..z /\ k + 1 < i
    BY <2>1, NextPlace
  <2>2. SentOf(s) = k /\ SentOf(t) = k + 1
    BY <1>1, <1>2, <1>5 DEF SentOf
  <2>3. UnsentOf(s) = {s.batch[i] : i \in (k + 1)..z}
        /\ UnsentOf(t) = {s.batch[i] : i \in ((k + 1) + 1)..z}
    BY <1>1, <1>2, <1>3, <2>2 DEF UnsentOf
  <2>4. Range(st) = {s.batch[k + 1]} /\ Len(st) = 1 /\ DOMAIN st = 1..1
    BY <1>2, <1>5 DEF Range
  <2>5. Increasing(st)
    BY <2>4 DEF Increasing
  <2>6. CountedOf(s) = w /\ CountedOf(t) = w + 1
    BY <1>1, <1>2, <1>5 DEF CountedOf
  <2>7. ASSUME NEW i \in ((k + 1) + 1)..z PROVE s.batch[k + 1] < s.batch[i]
    BY <1>3, <2>10 DEF Increasing
  <2>. HIDE DEF k
  <2>8. Range(st) \cup UnsentOf(t) = UnsentOf(s)
    BY <2>10, <2>3, <2>4
  <2>9. \A x \in Range(st), y \in UnsentOf(t) : x < y
    BY <2>3, <2>4, <2>7
  <2>. QED
    BY <1>1, <2>4, <2>5, <2>6, <2>8, <2>9 DEF t
<1>. QED
  BY <1>4, <1>5

\* The flow learns of the commit of a row: nothing moves.
LEMMA Learning ==
    ASSUME NEW s \in FlushStates, s.mode = "rows", s.landed
    PROVE  LET t == [s EXCEPT !.written = @ + 1, !.landed = FALSE]
           IN t.batch = s.batch /\ t.mode = "rows" /\ UnsentOf(t) = UnsentOf(s)
              /\ CountedOf(t) = CountedOf(s)
<1>. DEFINE t == [s EXCEPT !.written = @ + 1, !.landed = FALSE]
<1>1. PICK w \in Nat, r \in Nat : w = s.written /\ r = s.rejected
  BY DEF FlushStates
<1>2. /\ t.batch = s.batch /\ t.mode = "rows" /\ t.landed = FALSE /\ s.landed = TRUE
      /\ t.written = w + 1 /\ t.rejected = r
  BY <1>1 DEF FlushStates
<1>. HIDE DEF t
<1>3. SentOf(t) = SentOf(s) /\ CountedOf(t) = CountedOf(s) /\ Size(t) = Size(s)
  BY <1>1, <1>2 DEF SentOf, CountedOf, Size
<1>. QED
  BY <1>2, <1>3 DEF UnsentOf, t

\* A row the database refuses is no longer unsent, and is not counted.
LEMMA Refusal ==
    ASSUME NEW s \in FlushStates, FlushStateOK(s), Increasing(s.batch),
           s.mode = "rows", ~s.landed,
           s.written + s.rejected < Size(s)
    PROVE  LET t == [s EXCEPT !.rejected = @ + 1]
           IN /\ t.batch = s.batch /\ t.mode = "rows"
              /\ UnsentOf(s) = {s.batch[s.written + s.rejected + 1]} \cup UnsentOf(t)
              /\ CountedOf(t) = CountedOf(s)
<1>. DEFINE t == [s EXCEPT !.rejected = @ + 1]
<1>1. PICK w \in Nat, r \in Nat, z \in Nat : w = s.written /\ r = s.rejected /\ z = Size(s)
  BY SentType
<1>2. /\ t.batch = s.batch /\ t.mode = "rows" /\ t.landed = FALSE /\ s.landed = FALSE
      /\ t.written = w /\ t.rejected = r + 1
  BY <1>1 DEF FlushStates
<1>. HIDE DEF t
<1>3. /\ SentOf(s) = w + r /\ SentOf(t) = (w + r) + 1 /\ CountedOf(t) = CountedOf(s)
      /\ Size(t) = z
  BY <1>1, <1>2 DEF SentOf, CountedOf, Size
<1>. DEFINE k == w + r
<1>4. (k + 1)..z = {k + 1} \cup ((k + 1) + 1)..z
  <2>1. k \in Nat /\ k < z
    BY <1>1
  <2>. QED
    BY <2>1, NextPlace
<1>5. UnsentOf(s) = {s.batch[i] : i \in (k + 1)..z}
      /\ UnsentOf(t) = {s.batch[i] : i \in ((k + 1) + 1)..z}
  BY <1>1, <1>2, <1>3 DEF UnsentOf
<1>. HIDE DEF k
<1>6. UnsentOf(s) = {s.batch[k + 1]} \cup UnsentOf(t)
  BY <1>4, <1>5
<1>. QED
  BY <1>1, <1>2, <1>3, <1>6 DEF t, k

\* A refused batch starts over, row by row.
LEMMA Retry ==
    ASSUME NEW s \in FlushStates, FlushStateOK(s), s.mode = "batch", ~s.landed
    PROVE  LET t == [s EXCEPT !.mode = "rows"]
           IN t.batch = s.batch /\ t.mode = "rows" /\ UnsentOf(t) = UnsentOf(s)
              /\ CountedOf(t) = CountedOf(s)
<1>. DEFINE t == [s EXCEPT !.mode = "rows"]
<1>1. /\ t.batch = s.batch /\ t.mode = "rows" /\ t.landed = FALSE /\ s.landed = FALSE
      /\ t.written = 0 /\ t.rejected = 0 /\ s.written = 0 /\ s.rejected = 0
  BY DEF FlushStates, FlushStateOK
<1>. HIDE DEF t
<1>2. SentOf(t) = SentOf(s) /\ CountedOf(t) = CountedOf(s) /\ Size(t) = Size(s)
  BY <1>1 DEF SentOf, CountedOf, Size
<1>. QED
  BY <1>1, <1>2 DEF UnsentOf, t

-----------------------------------------------------------------------------
(* The inductive invariant of the rows                                     *)

\* Rows that move about were offered since the process started; the table
\* holds rows that were offered at some time.
Known ==
    /\ arrivals <= issued /\ issued <= MaxRows
    /\ Pending \subseteq ThisProcess
    /\ Range(db) \subseteq 1..issued

\* The queue and the batches are in the order of arrival, and what is in a
\* batch arrived before what is on the queue.
InLine ==
    /\ Increasing(queue)
    /\ \A f \in Flows : Increasing(flush[f].batch)
    /\ \A f \in Flows : \A x \in BatchRows(f), y \in Range(queue) : x < y

Apart == \A f, g \in Flows : f # g => BatchRows(f) \cap BatchRows(g) = {}

\* The table has no row that is yet to be sent.
Absent ==
    /\ Range(queue) \cap Range(db) = {}
    /\ \A f \in Flows : Unsent(f) \cap Range(db) = {}

\* A row that was sent is in the table, unless its owner is gone.
Answered ==
    \A f \in Flows : \A r \in BatchRows(f) \ Unsent(f) :
        r \in Range(db) \/ owner[r] \in deletedUsers

\* What a flow will count as written is in the table.
Missing(f) == BatchRows(f) \ Range(db)
Tallied == \A f \in Flows : Cardinality(Missing(f)) + CountedOf(flush[f]) <= Held(f)

NonEmpty == \A f \in Flows : Active(f) => flush[f].batch # <<>>

\* Without flush_now, everything unsent arrived after everything in the table.
Ordered ==
    ~FlushNowUsed =>
        /\ ~Active("flush_now")
        /\ Increasing(db)
        /\ \A x \in Range(db), y \in Range(queue) : x < y
        /\ \A f \in Flows : \A x \in Range(db), y \in Unsent(f) : x < y

\* Where the rows are.
PlacesOK == Known /\ InLine /\ Apart /\ Absent /\ Answered /\ Tallied /\ NonEmpty /\ Ordered

\* Rows counted as written are in the table, apart from those still pending.
Persisted == written <= Cardinality((Range(db) \cap ThisProcess) \ Pending)

GoodLost == {r \in Lost : owner[r] \notin deletedUsers}

\* What the counters say of them.
CountsOK == Persisted /\ LossesCounted /\ GoodRowsSurvive /\ DepthGauge

RowInv == PlacesOK /\ CountsOK

\* The sets of the invariant are finite, and their sizes are the counts.
LEMMA Basics ==
    ASSUME IInv, PlacesOK
    PROVE  /\ issued \in Nat /\ arrivals \in Nat /\ owner \in Seq(Users)
           /\ IsFiniteSet(ThisProcess) /\ IsFiniteSet(Lost) /\ IsFiniteSet(GoodLost)
           /\ Range(queue) \subseteq Rows /\ Range(db) \subseteq Rows
           /\ Range(queue) \subseteq Pending
           /\ \A f \in Flows :
                /\ flush[f] \in FlushStates /\ FlushStateOK(flush[f])
                /\ flush[f].batch \in Seq(Rows) /\ Increasing(flush[f].batch)
                /\ Size(flush[f]) = Held(f) /\ Held(f) \in Nat
                /\ BatchRows(f) \subseteq Pending
                /\ IsFiniteSet(BatchRows(f)) /\ Cardinality(BatchRows(f)) = Held(f)
                /\ Unsent(f) \subseteq BatchRows(f)
                /\ IsFiniteSet(Unsent(f))
                /\ Cardinality(Unsent(f)) <= Held(f) - SentOf(flush[f])
<1>1. issued \in Nat /\ arrivals \in Nat /\ owner \in Seq(Users)
  BY LenProperties DEF IInv, TypeOK, issued
<1>2. IsFiniteSet(ThisProcess)
  <2>1. issued - arrivals + 1 \in Int /\ issued \in Int
    BY <1>1
  <2>. QED
    BY <2>1, FS_Interval DEF ThisProcess
<1>3. IsFiniteSet(Lost) /\ IsFiniteSet(GoodLost)
  BY <1>2, FS_Subset DEF Lost, GoodLost
<1>4. Range(queue) \subseteq Rows /\ Range(db) \subseteq Rows
  BY RangeAt DEF IInv, TypeOK
<1>5. ASSUME NEW f \in Flows
      PROVE  /\ flush[f] \in FlushStates /\ FlushStateOK(flush[f])
             /\ Increasing(flush[f].batch)
             /\ Size(flush[f]) = Held(f) /\ Held(f) \in Nat
             /\ BatchRows(f) \subseteq Pending
  BY HeldType DEF IInv, TypeOK, FlushOK, PlacesOK, InLine, Size, Held, Pending
<1>6. ASSUME NEW f \in Flows
      PROVE  /\ flush[f].batch \in Seq(Rows)
             /\ IsFiniteSet(BatchRows(f)) /\ Cardinality(BatchRows(f)) = Held(f)
             /\ Unsent(f) \subseteq BatchRows(f)
             /\ IsFiniteSet(Unsent(f))
             /\ Cardinality(Unsent(f)) <= Held(f) - SentOf(flush[f])
  <2>. DEFINE s == flush[f]
  <2>1. s \in FlushStates /\ FlushStateOK(s) /\ Increasing(s.batch) /\ Size(s) = Held(f)
    BY <1>5
  <2>. HIDE DEF s
  <2>2. /\ s.batch \in Seq(Rows)
        /\ IsFiniteSet(Range(s.batch)) /\ Cardinality(Range(s.batch)) = Size(s)
        /\ UnsentOf(s) \subseteq Range(s.batch)
        /\ IsFiniteSet(UnsentOf(s)) /\ Cardinality(UnsentOf(s)) <= Size(s) - SentOf(s)
    BY <2>1, RowsOfState
  <2>. QED
    BY <2>1, <2>2 DEF s, BatchRows, Unsent
<1>7. Range(queue) \subseteq Pending
  BY DEF Pending
<1>. QED
  BY <1>1, <1>2, <1>3, <1>4, <1>5, <1>6, <1>7

-----------------------------------------------------------------------------
(* Steps that move no row                                                  *)

\* A step that keeps the batches and the table, and at most learns that the
\* database refuses some rows for want of their owner.
LEMMA Quiet ==
    ASSUME IInv, RowInv, IInv',
           UNCHANGED <<queue, db, owner, arrivals, written, dropped, abandoned, depth>>,
           deletedUsers \subseteq deletedUsers',
           queue # <<>> /\ task = "cancelled" => task' = "cancelled",
           \A f \in Flows :
              /\ flush'[f].batch = flush[f].batch
              /\ CountedOf(flush'[f]) = CountedOf(flush[f])
              /\ UnsentOf(flush'[f]) \subseteq UnsentOf(flush[f])
              /\ Active(f)' = Active(f)
              /\ \A r \in UnsentOf(flush[f]) \ UnsentOf(flush'[f]) : owner[r] \in deletedUsers
    PROVE  RowInv' /\ Pending' = Pending
<1>. USE DEF RowInv, PlacesOK, CountsOK
<1>1. \A f \in Flows : /\ BatchRows(f)' = BatchRows(f)
                       /\ Missing(f)' = Missing(f)
                       /\ Held(f)' = Held(f)
  BY DEF BatchRows, Missing, Held
<1>2. Pending' = Pending /\ ThisProcess' = ThisProcess /\ issued' = issued
  BY <1>1 DEF Pending, ThisProcess, issued
<1>3. Lost' = Lost /\ GoodLost' \subseteq GoodLost
  BY <1>2 DEF Lost, GoodLost
<1>4. Known'
  BY <1>2 DEF Known
<1>5. InLine'
  BY <1>1 DEF InLine
<1>6. Apart'
  BY <1>1 DEF Apart
<1>7. Absent'
  BY DEF Absent, Unsent
<1>8. Answered'
  <2>. SUFFICES ASSUME NEW f \in Flows, NEW r \in BatchRows(f) \ UnsentOf(flush'[f])
                PROVE  r \in Range(db) \/ owner[r] \in deletedUsers'
    BY <1>1 DEF Answered, Unsent
  <2>. QED
    BY DEF Answered, Unsent
<1>9. Tallied'
  BY <1>1 DEF Tallied
<1>10. NonEmpty'
  BY DEF NonEmpty
<1>11. Ordered'
  BY DEF Ordered, Unsent, Flows
<1>12. Persisted' /\ LossesCounted'
  BY <1>2, <1>3 DEF Persisted, LossesCounted
<1>13. GoodRowsSurvive'
  <2>1. /\ IsFiniteSet(GoodLost) /\ Cardinality(GoodLost') <= Cardinality(GoodLost)
        /\ Cardinality(GoodLost) \in Nat /\ Cardinality(GoodLost') \in Nat
    BY <1>3, Basics, FS_Subset, FS_CardinalityType
  <2>2. Cardinality(GoodLost) <= dropped["queue_full"] + dropped["write_failed"] + abandoned
    BY DEF GoodRowsSurvive, GoodLost
  <2>3. dropped["queue_full"] + dropped["write_failed"] + abandoned \in Nat
    BY DEF IInv, TypeOK, Reasons
  <2>4. Cardinality(GoodLost') <= dropped["queue_full"] + dropped["write_failed"] + abandoned
    BY <2>1, <2>2, <2>3
  <2>. QED
    BY <2>4 DEF GoodRowsSurvive, GoodLost
<1>14. DepthGauge'
  <2>1. (\A f \in Flows : ~Active(f)') => \A f \in Flows : ~Active(f)
    OBVIOUS
  <2>. QED
    BY <2>1 DEF DepthGauge
<1>. QED
  BY <1>2, <1>4, <1>5, <1>6, <1>7, <1>8, <1>9, <1>10, <1>11, <1>12, <1>13, <1>14

LEMMA BystanderRows ==
    ASSUME IInv, RowInv,
           Start \/ StopCancel \/ (\E u \in Users : DeleteUser(u)) \/ UNCHANGED vars
    PROVE  RowInv' /\ Pending' = Pending
<1>1. IInv'
  BY BystanderInv
<1>2. /\ UNCHANGED <<queue, db, owner, arrivals, written, dropped, abandoned, depth, flush>>
      /\ deletedUsers \subseteq deletedUsers'
      /\ task = "cancelled" => task' = "cancelled"
  BY DEF Start, StopCancel, DeleteUser, vars
<1>3. \A f \in Flows : Active(f)' = Active(f)
  BY <1>2 DEF Active
<1>. QED
  BY <1>1, <1>2, <1>3, Quiet

LEMMA ContinueRows ==
    ASSUME IInv, RowInv, IInv', NEW f \in Flows, Active(f), NEW s,
           s.batch = flush[f].batch, s.mode # "idle",
           CountedOf(s) = CountedOf(flush[f]),
           UnsentOf(s) \subseteq UnsentOf(flush[f]),
           \A r \in UnsentOf(flush[f]) \ UnsentOf(s) : owner[r] \in deletedUsers,
           Continue(f, s)
    PROVE  RowInv' /\ Pending' = Pending
<1>1. /\ UNCHANGED <<queue, db, owner, arrivals, written, dropped, abandoned, depth>>
      /\ deletedUsers' = deletedUsers /\ task' = task
  BY DEF Continue
<1>2. flush'[f] = s /\ \A g \in Flows \ {f} : flush'[g] = flush[g]
  BY DEF Continue, IInv, TypeOK
<1>3. \A g \in Flows :
         /\ flush'[g].batch = flush[g].batch
         /\ CountedOf(flush'[g]) = CountedOf(flush[g])
         /\ UnsentOf(flush'[g]) \subseteq UnsentOf(flush[g])
         /\ Active(g)' = Active(g)
         /\ \A r \in UnsentOf(flush[g]) \ UnsentOf(flush'[g]) : owner[r] \in deletedUsers
  <2>. SUFFICES ASSUME NEW g \in Flows
                PROVE  /\ flush'[g].batch = flush[g].batch
                       /\ CountedOf(flush'[g]) = CountedOf(flush[g])
                       /\ UnsentOf(flush'[g]) \subseteq UnsentOf(flush[g])
                       /\ Active(g)' = Active(g)
                       /\ \A r \in UnsentOf(flush[g]) \ UnsentOf(flush'[g]) :
                             owner[r] \in deletedUsers
    OBVIOUS
  <2>1. CASE g = f
    BY <1>2, <2>1 DEF Active
  <2>2. CASE g # f
    BY <1>2, <2>2 DEF Active
  <2>. QED
    BY <2>1, <2>2
<1>. QED
  BY <1>1, <1>3, Quiet

LEMMA BatchRefusedRows ==
    ASSUME IInv, RowInv, NEW f \in Flows, BatchRefused(f) PROVE RowInv' /\ Pending' = Pending
<1>. DEFINE s == flush[f]
            t == [s EXCEPT !.mode = "rows"]
<1>1. IInv' /\ Active(f) /\ s.mode = "batch" /\ ~s.landed /\ Continue(f, t)
  BY BatchRefusedInv DEF BatchRefused, Resumable
<1>2. s \in FlushStates /\ FlushStateOK(s)
  BY Basics DEF RowInv
<1>. HIDE DEF s
<1>3. t.batch = s.batch /\ t.mode = "rows" /\ UnsentOf(t) = UnsentOf(s)
      /\ CountedOf(t) = CountedOf(s)
  BY <1>1, <1>2, Retry
<1>. HIDE DEF t
<1>. QED
  BY <1>1, <1>3, ContinueRows DEF s

LEMMA RowWrittenRows ==
    ASSUME IInv, RowInv, NEW f \in Flows, RowWritten(f) PROVE RowInv' /\ Pending' = Pending
<1>. DEFINE s == flush[f]
            t == [s EXCEPT !.written = @ + 1, !.landed = FALSE]
<1>1. IInv' /\ Active(f) /\ s.mode = "rows" /\ s.landed /\ Continue(f, t)
  BY RowWrittenInv DEF RowWritten, Resumable
<1>2. s \in FlushStates
  BY Basics DEF RowInv
<1>. HIDE DEF s
<1>3. t.batch = s.batch /\ t.mode = "rows" /\ UnsentOf(t) = UnsentOf(s)
      /\ CountedOf(t) = CountedOf(s)
  BY <1>1, <1>2, Learning
<1>. HIDE DEF t
<1>. QED
  BY <1>1, <1>3, ContinueRows DEF s

\* The statement of a flow, told from its state alone.
LEMMA StatementOf ==
    ASSUME IInv, NEW f \in Flows, Statement(f) # <<>>
    PROVE  \/ flush[f].mode = "batch" /\ Statement(f) = flush[f].batch
           \/ /\ flush[f].mode = "rows"
              /\ flush[f].written + flush[f].rejected < Size(flush[f])
              /\ Statement(f) = <<flush[f].batch[flush[f].written + flush[f].rejected + 1]>>
BY DEF Statement, Remaining, Settled, Held, Size, IInv, TypeOK, FlushStates

\* The database has none of the rows of a statement in flight, so it can only
\* refuse one for want of its owner.
LEMMA RowRefusedRows ==
    ASSUME IInv, RowInv, NEW f \in Flows, RowRefused(f) PROVE RowInv' /\ Pending' = Pending
<1>. DEFINE s == flush[f]
            t == [s EXCEPT !.rejected = @ + 1]
            r == s.batch[s.written + s.rejected + 1]
<1>1. IInv' /\ Active(f) /\ s.mode = "rows" /\ ~s.landed /\ Continue(f, t)
  BY RowRefusedInv DEF RowRefused, Resumable
<1>2. s \in FlushStates /\ FlushStateOK(s) /\ Increasing(s.batch)
  BY Basics DEF RowInv
<1>3. PICK x \in Range(Statement(f)) : Refused(x)
  BY DEF RowRefused, StatementRefused
<1>4. s.written + s.rejected < Size(s) /\ x = r
  <2>1. Statement(f) # <<>>
    BY <1>3 DEF Range
  <2>2. s.written + s.rejected < Size(s) /\ Statement(f) = <<r>>
    BY <1>1, <2>1, StatementOf
  <2>3. Range(<<r>>) = {r}
    BY DEF Range
  <2>. QED
    BY <1>3, <2>2, <2>3
<1>. HIDE DEF s
<1>5. /\ t.batch = s.batch /\ t.mode = "rows"
      /\ UnsentOf(s) = {r} \cup UnsentOf(t)
      /\ CountedOf(t) = CountedOf(s)
  BY <1>1, <1>2, <1>4, Refusal
<1>. HIDE DEF t, r
<1>6. owner[r] \in deletedUsers
  BY <1>3, <1>4, <1>5 DEF Refused, RowInv, PlacesOK, Absent, Unsent, s
<1>. QED
  BY <1>1, <1>5, <1>6, ContinueRows DEF s

-----------------------------------------------------------------------------
(* Steps that put a batch down                                             *)

\* Putting a batch down can lose only the rows of it that the table misses,
\* and of rows whose owner exists only the unsent ones.
LEMMA PutDown ==
    ASSUME IInv, RowInv, NEW f \in Flows,
           flush' = [flush EXCEPT ![f] = Idle],
           UNCHANGED <<queue, db, owner, arrivals, deletedUsers>>
    PROVE  /\ PlacesOK'
           /\ ThisProcess' = ThisProcess
           /\ Pending' = Pending \ BatchRows(f)
           /\ Lost' \subseteq Lost \cup Missing(f)
           /\ GoodLost' \subseteq GoodLost \cup Unsent(f)
<1>. USE DEF RowInv, PlacesOK
<1>1. flush'[f] = Idle /\ \A g \in Flows \ {f} : flush'[g] = flush[g]
  BY DEF IInv, TypeOK
<1>2. /\ BatchRows(f)' = {} /\ Unsent(f)' = {} /\ Held(f)' = 0 /\ ~Active(f)'
      /\ Increasing(flush'[f].batch) /\ CountedOf(flush'[f]) = 0 /\ Missing(f)' = {}
  BY <1>1, IdleRows, IdleType DEF BatchRows, Unsent, Held, Active, Missing
<1>3. \A g \in Flows \ {f} :
         /\ BatchRows(g)' = BatchRows(g) /\ Unsent(g)' = Unsent(g) /\ Held(g)' = Held(g)
         /\ Active(g)' = Active(g) /\ Missing(g)' = Missing(g)
  BY <1>1 DEF BatchRows, Unsent, Held, Active, Missing
<1>4. \A g \in Flows : g # f => BatchRows(g) \cap BatchRows(f) = {}
  BY DEF Apart
<1>5. Range(queue) \cap BatchRows(f) = {}
  <2>1. \A x \in BatchRows(f) : x \in Nat
    BY Basics, RangeAt DEF BatchRows
  <2>. QED
    BY <2>1 DEF InLine
<1>6. Pending' = Pending \ BatchRows(f)
  <2>1. Pending' = Range(queue) \cup UNION {BatchRows(g) : g \in Flows \ {f}}
    BY <1>2, <1>3 DEF Pending
  <2>. QED
    BY <1>4, <1>5, <2>1 DEF Pending
<1>7. ThisProcess' = ThisProcess /\ issued' = issued
  BY DEF ThisProcess, issued
<1>8. Lost' \subseteq Lost \cup Missing(f)
  BY <1>6, <1>7 DEF Lost, Missing
<1>9. GoodLost' \subseteq GoodLost \cup Unsent(f)
  <2>. SUFFICES ASSUME NEW r \in GoodLost' PROVE r \in GoodLost \cup Unsent(f)
    OBVIOUS
  <2>1. r \in Lost' /\ owner[r] \notin deletedUsers
    BY DEF GoodLost
  <2>2. CASE r \in Lost
    BY <2>1, <2>2 DEF GoodLost
  <2>3. CASE r \in Missing(f)
    BY <2>1, <2>3 DEF Missing, Answered
  <2>. QED
    BY <1>8, <2>1, <2>2, <2>3
<1>10. Known'
  BY <1>6, <1>7 DEF Known
<1>11. InLine'
  BY <1>1, <1>2, <1>3 DEF InLine
<1>12. Apart'
  BY <1>2, <1>3 DEF Apart
<1>13. Absent'
  BY <1>2, <1>3 DEF Absent
<1>14. Answered'
  BY <1>2, <1>3 DEF Answered
<1>15. Tallied'
  <2>1. Cardinality({}) = 0
    BY FS_EmptySet
  <2>. SUFFICES ASSUME NEW g \in Flows
                PROVE  Cardinality(Missing(g)') + CountedOf(flush'[g]) <= Held(g)'
    BY DEF Tallied
  <2>2. CASE g = f
    <3>1. Cardinality(Missing(f)') = 0 /\ CountedOf(flush'[f]) = 0 /\ Held(f)' = 0
      BY <1>2, <2>1
    <3>. QED
      BY <2>2, <3>1
  <2>3. CASE g # f
    BY <1>1, <1>3, <2>3 DEF Tallied
  <2>. QED
    BY <2>2, <2>3
<1>16. NonEmpty'
  BY <1>1, <1>2, <1>3 DEF NonEmpty
<1>17. Ordered'
  BY <1>2, <1>3 DEF Ordered, Flows
<1>. QED
  BY <1>6, <1>7, <1>8, <1>9, <1>10, <1>11, <1>12, <1>13, <1>14, <1>15, <1>16, <1>17

\* The counters of a flush that ends own up to every row it loses, and to no
\* row it stored: what it reports as written is in the table.
LEMMA FinishRows ==
    ASSUME IInv, RowInv, NEW f \in Flows, Active(f),
           NEW wrote \in Nat, NEW rejected \in Nat, NEW failed \in Nat,
           wrote + rejected + failed = Held(f),
           wrote <= CountedOf(flush[f]),
           Held(f) - SentOf(flush[f]) <= failed,
           Finish(f, wrote, Losses(rejected, failed))
    PROVE  RowInv'
<1>1. /\ flush' = [flush EXCEPT ![f] = Idle]
      /\ UNCHANGED <<queue, db, owner, arrivals, deletedUsers, abandoned>>
      /\ written' = written + wrote /\ depth' = Len(queue)
  BY DEF Finish
<1>2. /\ PlacesOK' /\ ThisProcess' = ThisProcess
      /\ Pending' = Pending \ BatchRows(f)
      /\ Lost' \subseteq Lost \cup Missing(f)
      /\ GoodLost' \subseteq GoodLost \cup Unsent(f)
  BY <1>1, PutDown
<1>3. PICK q \in Nat, j \in Nat, e \in Nat, a \in Nat :
         /\ dropped["queue_full"] = q /\ dropped["rejected"] = j
         /\ dropped["write_failed"] = e /\ abandoned = a
  BY DEF IInv, TypeOK, Reasons
<1>4. /\ dropped'["queue_full"] = q /\ dropped'["rejected"] = j + rejected
      /\ dropped'["write_failed"] = e + failed /\ abandoned' = a
  <2>1. dropped' = [reason \in Reasons |-> dropped[reason] + Losses(rejected, failed)[reason]]
    BY DEF Finish
  <2>. QED
    BY <1>1, <1>3, <2>1, LossesType DEF Reasons
<1>5. PICK h \in Nat, c \in Nat, n \in Nat :
         h = Held(f) /\ c = CountedOf(flush[f]) /\ n = SentOf(flush[f])
  <2>1. flush[f] \in FlushStates /\ FlushStateOK(flush[f]) /\ Held(f) = Size(flush[f])
    BY Basics DEF RowInv
  <2>2. Held(f) \in Nat /\ CountedOf(flush[f]) \in Nat /\ SentOf(flush[f]) \in 0..Held(f)
    BY <2>1, SentType
  <2>3. SentOf(flush[f]) \in Nat
    BY <2>2
  <2>. QED
    BY <2>2, <2>3, Zenon
<1>6. /\ IsFiniteSet(BatchRows(f)) /\ Cardinality(BatchRows(f)) = h
      /\ IsFiniteSet(Unsent(f)) /\ Cardinality(Unsent(f)) <= h - n
      /\ BatchRows(f) \subseteq Pending
      /\ IsFiniteSet(ThisProcess) /\ IsFiniteSet(Lost) /\ IsFiniteSet(GoodLost)
  BY <1>5, Basics DEF RowInv
<1>7. PICK m \in Nat, k \in Nat :
         /\ m = Cardinality(Missing(f)) /\ k = Cardinality(BatchRows(f) \cap Range(db))
         /\ IsFiniteSet(Missing(f)) /\ IsFiniteSet(BatchRows(f) \cap Range(db))
         /\ h = m + k
  <2>. DEFINE S == BatchRows(f)
              D == Range(db)
  <2>1. IsFiniteSet(S) /\ Cardinality(S) = h /\ Missing(f) = S \ D
    BY <1>6 DEF Missing
  <2>. HIDE DEF S, D
  <2>2. /\ IsFiniteSet(S \ D) /\ IsFiniteSet(S \cap D)
        /\ Cardinality(S \ D) \in Nat /\ Cardinality(S \cap D) \in Nat
        /\ Cardinality(S) = Cardinality(S \ D) + Cardinality(S \cap D)
    BY <2>1, SplitSize
  <2>. QED
    BY <2>1, <2>2 DEF S, D
<1>8. m + c <= h /\ wrote <= c /\ wrote + rejected + failed = h /\ h - n <= failed
  BY <1>5, <1>7 DEF RowInv, PlacesOK, Tallied
<1>9. Persisted'
  <2>. DEFINE Stored == (Range(db) \cap ThisProcess) \ Pending
  <2>1. Stored' = Stored \cup (BatchRows(f) \cap Range(db))
        /\ Stored \cap (BatchRows(f) \cap Range(db)) = {}
    BY <1>1, <1>2, <1>6 DEF RowInv, PlacesOK, Known
  <2>2. IsFiniteSet(Stored)
    BY <1>6, FS_Subset
  <2>. HIDE DEF Stored
  <2>3. PICK p \in Nat : p = Cardinality(Stored) /\ Cardinality(Stored') = p + k
    BY <1>7, <2>1, <2>2, DisjointSizes
  <2>4. written \in Nat /\ written <= p
    BY <2>3 DEF RowInv, CountsOK, Persisted, Stored, IInv, TypeOK
  <2>5. written + wrote <= p + k
    BY ONLY <1>7, <1>8, <2>4, p \in Nat, k \in Nat, m \in Nat, h \in Nat, c \in Nat,
            wrote \in Nat
  <2>. QED
    BY <1>1, <2>3, <2>5 DEF Persisted, Stored
<1>10. LossesCounted'
  <2>1. PICK l \in Nat, l2 \in Nat :
           l = Cardinality(Lost) /\ l2 = Cardinality(Lost') /\ l2 <= l + m
    BY <1>2, <1>6, <1>7, CoveredSize
  <2>2. l <= (q + j + e) + a
    BY <1>3, <2>1 DEF RowInv, CountsOK, LossesCounted, Total
  <2>3. l2 <= (q + (j + rejected) + (e + failed)) + a
    BY ONLY <1>8, <2>1, <2>2, q \in Nat, j \in Nat, e \in Nat, a \in Nat, l \in Nat,
            l2 \in Nat, m \in Nat, h \in Nat, c \in Nat, wrote \in Nat, rejected \in Nat,
            failed \in Nat
  <2>. QED
    BY <1>4, <2>1, <2>3 DEF LossesCounted, Total
<1>11. GoodRowsSurvive'
  <2>1. PICK l \in Nat, l2 \in Nat, x \in Nat :
           /\ l = Cardinality(GoodLost) /\ l2 = Cardinality(GoodLost')
           /\ x = Cardinality(Unsent(f)) /\ l2 <= l + x
    BY <1>2, <1>6, CoveredSize
  <2>2. l <= q + e + a
    BY <1>3, <2>1 DEF RowInv, CountsOK, GoodRowsSurvive, GoodLost
  <2>3. x <= h - n
    BY <1>6, <2>1
  <2>4. l2 <= q + (e + failed) + a
    BY ONLY <1>8, <2>1, <2>2, <2>3, q \in Nat, e \in Nat, a \in Nat, l \in Nat, l2 \in Nat,
            x \in Nat, h \in Nat, n \in Nat, failed \in Nat
  <2>. QED
    BY <1>4, <2>1, <2>4 DEF GoodRowsSurvive, GoodLost
<1>12. DepthGauge'
  BY <1>1, CountersType DEF DepthGauge, IInv
<1>. QED
  BY <1>2, <1>9, <1>10, <1>11, <1>12 DEF RowInv, CountsOK

\* How a flush ends: whichever way it does, its report adds up to its batch,
\* claims no row the table misses, and counts every unsent row as failed.
Ending(f, wrote, rejected, failed) ==
    /\ Active(f)
    /\ wrote + rejected + failed = Held(f)
    /\ wrote <= CountedOf(flush[f])
    /\ Held(f) - SentOf(flush[f]) <= failed
    /\ Finish(f, wrote, Losses(rejected, failed))

LEMMA EndingCounts ==
    ASSUME IInv, NEW f \in Flows,
           BatchWritten(f) \/ BatchFailed(f) \/ RowsFailed(f) \/ RowsDone(f)
    PROVE  \E wrote, rejected, failed \in Nat : Ending(f, wrote, rejected, failed)
<1>. DEFINE s == flush[f]
<1>1. s \in FlushStates /\ FlushStateOK(s) /\ Size(s) = Held(f)
  BY DEF IInv, TypeOK, FlushOK, Size, Held
<1>2. PICK w \in Nat, r \in Nat, h \in Nat, n \in Nat, c \in Nat :
         /\ w = s.written /\ r = s.rejected /\ h = Held(f)
         /\ n = SentOf(s) /\ c = CountedOf(s)
         /\ w <= c /\ n <= h /\ w + r <= h
         /\ s.mode = "rows" => w + r <= n
  <2>. HIDE DEF s
  <2>1. /\ SentOf(s) \in 0..Size(s) /\ CountedOf(s) \in Nat
        /\ s.written \in Nat /\ s.rejected \in Nat /\ Size(s) \in Nat
        /\ s.written <= CountedOf(s)
        /\ s.mode = "rows" => s.written + s.rejected <= SentOf(s)
    BY <1>1, SentType
  <2>2. s.written + s.rejected <= Size(s)
    BY <1>1 DEF FlushStateOK
  <2>. QED
    BY <1>1, <2>1, <2>2
<1>3. Active(f)
  BY DEF BatchWritten, BatchFailed, RowsFailed, RowsDone, Resumable
<1>4. CASE BatchWritten(f)
  <2>1. s.mode = "batch" /\ s.landed /\ Finish(f, Held(f), Losses(0, 0))
    BY <1>4 DEF BatchWritten
  <2>2. w = 0 /\ r = 0
    BY <1>1, <1>2, <2>1 DEF FlushStateOK
  <2>3. n = h /\ c = h
    BY <1>1, <1>2, <2>1, <2>2 DEF SentOf, CountedOf
  <2>4. h + 0 + 0 = h /\ h <= c /\ h - n <= 0
    BY <2>3
  <2>. QED
    BY <1>2, <1>3, <2>1, <2>4 DEF Ending
<1>5. CASE BatchFailed(f)
  <2>1. Finish(f, 0, Losses(0, Held(f)))
    BY <1>5 DEF BatchFailed
  <2>2. 0 + 0 + h = h /\ 0 <= c /\ h - n <= h
    OBVIOUS
  <2>. QED
    BY <1>2, <1>3, <2>1, <2>2 DEF Ending
<1>6. CASE RowsFailed(f)
  <2>1. s.mode = "rows" /\ Finish(f, w, Losses(r, h - (w + r)))
    BY <1>2, <1>6 DEF RowsFailed, Settled
  <2>2. h - (w + r) \in Nat /\ w + r + (h - (w + r)) = h /\ h - n <= h - (w + r)
    BY <1>2, <2>1
  <2>. QED
    BY <1>2, <1>3, <2>1, <2>2 DEF Ending
<1>7. CASE RowsDone(f)
  <2>1. s.mode = "rows" /\ Finish(f, w, Losses(r, 0)) /\ ~(w + r < h)
    BY <1>2, <1>7 DEF RowsDone, Remaining, Settled
  <2>2. w + r + 0 = h /\ h - n <= 0
    BY <1>2, <2>1
  <2>. QED
    BY <1>2, <1>3, <2>1, <2>2 DEF Ending
<1>. QED
  BY <1>4, <1>5, <1>6, <1>7

LEMMA EndingRows ==
    ASSUME IInv, RowInv, NEW f \in Flows,
           BatchWritten(f) \/ BatchFailed(f) \/ RowsFailed(f) \/ RowsDone(f)
    PROVE  RowInv'
<1>1. PICK wrote \in Nat, rejected \in Nat, failed \in Nat :
         Ending(f, wrote, rejected, failed)
  BY EndingCounts
<1>. QED
  BY <1>1, FinishRows DEF Ending

\* A cancelled flush gives up a batch, which has rows: abandoned tells.
LEMMA CancelledRows == ASSUME IInv, RowInv, Cancelled PROVE RowInv'
<1>. DEFINE f == "consumer"
<1>1. /\ flush' = [flush EXCEPT ![f] = Idle] /\ f \in Flows
      /\ UNCHANGED <<queue, db, owner, arrivals, deletedUsers, written, dropped, depth>>
      /\ abandoned' = abandoned + Held(f)
  BY DEF Cancelled, Flows
<1>. HIDE DEF f
<1>2. /\ PlacesOK' /\ ThisProcess' = ThisProcess
      /\ Pending' = Pending \ BatchRows(f)
      /\ Lost' \subseteq Lost \cup Missing(f)
      /\ GoodLost' \subseteq GoodLost \cup Unsent(f)
  BY <1>1, PutDown
<1>3. PICK h \in Nat, a \in Nat : h = Held(f) /\ a = abandoned
  BY <1>1, Basics DEF RowInv, IInv, TypeOK
<1>4. /\ IsFiniteSet(BatchRows(f)) /\ Cardinality(BatchRows(f)) = h
      /\ Unsent(f) \subseteq BatchRows(f)
      /\ BatchRows(f) \subseteq Pending
      /\ IsFiniteSet(ThisProcess) /\ IsFiniteSet(Lost) /\ IsFiniteSet(GoodLost)
  BY <1>1, <1>3, Basics DEF RowInv
<1>5. Lost' \subseteq Lost \cup BatchRows(f) /\ GoodLost' \subseteq GoodLost \cup BatchRows(f)
  BY <1>2, <1>4 DEF Missing
<1>6. Persisted'
  <2>. DEFINE Stored == (Range(db) \cap ThisProcess) \ Pending
  <2>1. Stored \subseteq Stored' /\ IsFiniteSet(Stored')
    BY <1>1, <1>2, <1>4, FS_Subset
  <2>. HIDE DEF Stored
  <2>2. /\ IsFiniteSet(Stored) /\ Cardinality(Stored) <= Cardinality(Stored')
        /\ Cardinality(Stored) \in Nat /\ Cardinality(Stored') \in Nat
    BY <2>1, FS_Subset, FS_CardinalityType
  <2>3. written \in Nat /\ written <= Cardinality(Stored)
    BY DEF RowInv, CountsOK, Persisted, Stored, IInv, TypeOK
  <2>4. written <= Cardinality(Stored')
    BY <2>2, <2>3
  <2>. QED
    BY <1>1, <2>4 DEF Persisted, Stored
<1>7. LossesCounted'
  <2>1. PICK l \in Nat, l2 \in Nat :
           l = Cardinality(Lost) /\ l2 = Cardinality(Lost') /\ l2 <= l + h
    BY <1>4, <1>5, CoveredSize
  <2>2. PICK t \in Nat : t = Total(dropped) /\ l <= t + a
    BY <1>3, <2>1, TotalType DEF RowInv, CountsOK, LossesCounted, IInv
  <2>3. l2 <= t + (a + h)
    BY <2>1, <2>2
  <2>. QED
    BY <1>1, <1>3, <2>1, <2>2, <2>3 DEF LossesCounted
<1>8. GoodRowsSurvive'
  <2>1. PICK l \in Nat, l2 \in Nat :
           l = Cardinality(GoodLost) /\ l2 = Cardinality(GoodLost') /\ l2 <= l + h
    BY <1>4, <1>5, CoveredSize
  <2>2. PICK q \in Nat, e \in Nat :
           q = dropped["queue_full"] /\ e = dropped["write_failed"] /\ l <= q + e + a
    BY <1>3, <2>1 DEF RowInv, CountsOK, GoodRowsSurvive, GoodLost, IInv, TypeOK, Reasons
  <2>3. l2 <= q + e + (a + h)
    BY <2>1, <2>2
  <2>. QED
    BY <1>1, <1>3, <2>1, <2>2, <2>3 DEF GoodRowsSurvive, GoodLost
<1>9. DepthGauge'
  <2>1. depth' >= Len(queue')
    BY <1>1 DEF RowInv, CountsOK, DepthGauge
  <2>2. ASSUME \A g \in Flows : ~Active(g)', depth' # Len(queue') PROVE abandoned' > 0
    <3>. SUFFICES ASSUME ~(abandoned' > 0) PROVE FALSE
      OBVIOUS
    <3>1. a = 0 /\ h = 0
      BY <1>1, <1>3
    <3>2. flush[f].batch = <<>>
      BY <1>1, <1>3, <3>1, EmptySeq DEF Held, IInv, TypeOK, FlushStates
    <3>3. ~Active(f)
      BY <1>1, <3>2 DEF RowInv, PlacesOK, NonEmpty
    <3>4. \A g \in Flows : ~Active(g)
      BY <1>1, <2>2, <3>3 DEF Active, IInv, TypeOK
    <3>. QED
      BY <1>1, <1>3, <2>2, <3>1, <3>4 DEF RowInv, CountsOK, DepthGauge
  <2>3. task' = "cancelled"
    BY DEF Cancelled
  <2>. QED
    BY <2>1, <2>2, <2>3 DEF DepthGauge
<1>. QED
  BY <1>2, <1>6, <1>7, <1>8, <1>9 DEF RowInv, CountsOK

-----------------------------------------------------------------------------
(* Steps that take a batch from the queue                                  *)

\* An idle flow takes the first n rows of the queue: they stay pending, ahead
\* of the rest, apart from the other batches, and unsent.
LEMMA TakeUpRows ==
    ASSUME IInv, RowInv, NEW f \in Flows, ~Active(f), ~FlushNowUsed => f # "flush_now",
           NEW n \in Nat, n > 0, n <= Len(queue),
           flush' = [flush EXCEPT ![f] = Flushing(SubSeq(queue, 1, n))],
           queue' = SubSeq(queue, n + 1, Len(queue)),
           UNCHANGED <<db, owner, arrivals, deletedUsers, written, dropped, abandoned, depth>>
    PROVE  RowInv' /\ Pending' = Pending
<1>. USE DEF RowInv, PlacesOK, CountsOK
<1>. DEFINE a == SubSeq(queue, 1, n)
            b == SubSeq(queue, n + 1, Len(queue))
<1>1. queue \in Seq(Rows) /\ Increasing(queue) /\ Len(queue) \in Nat /\ n \in 0..Len(queue)
  BY LenProperties DEF IInv, TypeOK, InLine
<1>2. /\ a \in Seq(Rows) /\ Len(a) = n /\ b \in Seq(Rows) /\ Len(b) = Len(queue) - n
  BY <1>1, CutProperties
<1>3. /\ Increasing(a) /\ Increasing(b) /\ Range(a) \cup Range(b) = Range(queue)
      /\ \A x \in Range(a), y \in Range(b) : x < y
  BY <1>1, IncreasingCut
<1>4. flush'[f] = Flushing(a) /\ queue' = b /\ \A g \in Flows \ {f} : flush'[g] = flush[g]
  BY DEF IInv, TypeOK
<1>. HIDE DEF a, b
<1>5. /\ flush'[f].batch = a /\ BatchRows(f)' = Range(a) /\ Unsent(f)' = Range(a)
      /\ Held(f)' = n /\ Active(f)' /\ CountedOf(flush'[f]) = 0
  <2>1. /\ Flushing(a).batch = a /\ UnsentOf(Flushing(a)) = Range(a)
        /\ CountedOf(Flushing(a)) = 0 /\ Flushing(a).mode = "batch"
    BY <1>2, FreshRows, FlushingType
  <2>2. flush'[f].batch = a /\ CountedOf(flush'[f]) = 0
    BY <1>4, <2>1
  <2>3. BatchRows(f)' = Range(a) /\ Unsent(f)' = Range(a)
    BY <1>4, <2>1 DEF BatchRows, Unsent
  <2>4. Held(f)' = n /\ Active(f)'
    BY <1>2, <1>4, <2>1 DEF Held, Active
  <2>. QED
    BY <2>2, <2>3, <2>4
<1>6. BatchRows(f) = {}
  <2>1. flush[f] = Idle
    BY DEF IInv, FlushOK, FlushStateOK, Active
  <2>. QED
    BY <2>1, IdleRows DEF BatchRows
<1>7. \A g \in Flows \ {f} :
         /\ BatchRows(g)' = BatchRows(g) /\ Unsent(g)' = Unsent(g) /\ Held(g)' = Held(g)
         /\ Active(g)' = Active(g) /\ Missing(g)' = Missing(g)
  BY <1>4 DEF BatchRows, Unsent, Held, Active, Missing
<1>8. Pending' = Pending /\ ThisProcess' = ThisProcess /\ issued' = issued
  <2>1. Pending' = Range(b) \cup (Range(a) \cup UNION {BatchRows(g) : g \in Flows \ {f}})
    BY <1>4, <1>5, <1>7 DEF Pending
  <2>2. Pending = Range(queue) \cup UNION {BatchRows(g) : g \in Flows \ {f}}
    BY <1>6 DEF Pending
  <2>. QED
    BY <1>3, <2>1, <2>2 DEF ThisProcess, issued
<1>9. Lost' = Lost /\ GoodLost' = GoodLost
  BY <1>8 DEF Lost, GoodLost
<1>10. Known'
  BY <1>8 DEF Known
<1>11. InLine'
  <2>. SUFFICES ASSUME NEW g \in Flows
                PROVE  /\ Increasing(flush'[g].batch)
                       /\ \A x \in BatchRows(g)', y \in Range(b) : x < y
    BY <1>3, <1>4 DEF InLine
  <2>1. CASE g = f
    BY <1>3, <1>5, <2>1
  <2>2. CASE g # f
    BY <1>3, <1>4, <1>7, <2>2 DEF InLine
  <2>. QED
    BY <2>1, <2>2
<1>12. Apart'
  <2>1. ASSUME NEW g \in Flows, g # f PROVE BatchRows(g) \cap Range(a) = {}
    <3>1. \A x \in BatchRows(g) : x \in Nat
      BY Basics, RangeAt DEF BatchRows
    <3>. QED
      BY <1>3, <3>1 DEF InLine
  <2>. SUFFICES ASSUME NEW g \in Flows, NEW k \in Flows, g # k
                PROVE  BatchRows(g)' \cap BatchRows(k)' = {}
    BY DEF Apart
  <2>2. CASE g = f
    BY <1>5, <1>7, <2>1, <2>2
  <2>3. CASE k = f
    BY <1>5, <1>7, <2>1, <2>3
  <2>4. CASE g # f /\ k # f
    BY <1>7, <2>4 DEF Apart
  <2>. QED
    BY <2>2, <2>3, <2>4
<1>13. Absent'
  <2>1. Range(b) \cap Range(db) = {} /\ Range(a) \cap Range(db) = {}
    BY <1>3 DEF Absent
  <2>. SUFFICES ASSUME NEW g \in Flows PROVE Unsent(g)' \cap Range(db) = {}
    BY <1>4, <2>1 DEF Absent
  <2>. QED
    BY <1>5, <1>7, <2>1 DEF Absent
<1>14. Answered'
  BY <1>5, <1>7 DEF Answered
<1>15. Tallied'
  <2>. SUFFICES ASSUME NEW g \in Flows
                PROVE  Cardinality(Missing(g)') + CountedOf(flush'[g]) <= Held(g)'
    BY DEF Tallied
  <2>1. CASE g = f
    <3>1. IsFiniteSet(Range(a)) /\ Cardinality(Range(a)) = n /\ Missing(f)' \subseteq Range(a)
      BY <1>2, <1>3, <1>5, IncreasingSize DEF Missing
    <3>2. Cardinality(Missing(f)') <= n /\ Cardinality(Missing(f)') \in Nat
      BY <3>1, FS_Subset, FS_CardinalityType
    <3>3. Cardinality(Missing(f)') + 0 <= n
      BY <3>2
    <3>. QED
      BY <1>5, <2>1, <3>3
  <2>2. CASE g # f
    BY <1>4, <1>7, <2>2 DEF Tallied
  <2>. QED
    BY <2>1, <2>2
<1>16. NonEmpty'
  <2>1. a # <<>>
    BY <1>2
  <2>. QED
    BY <1>4, <1>5, <1>7, <2>1 DEF NonEmpty
<1>17. Ordered'
  <2>. SUFFICES ASSUME ~FlushNowUsed
                PROVE  /\ ~Active("flush_now")'
                       /\ Increasing(db)
                       /\ \A x \in Range(db), y \in Range(b) : x < y
                       /\ \A g \in Flows : \A x \in Range(db), y \in Unsent(g)' : x < y
    BY <1>4 DEF Ordered
  <2>1. ~Active("flush_now")'
    BY <1>7 DEF Ordered, Flows
  <2>2. \A x \in Range(db), y \in Range(queue) : x < y
    BY DEF Ordered
  <2>3. ASSUME NEW g \in Flows PROVE \A x \in Range(db), y \in Unsent(g)' : x < y
    BY <1>3, <1>5, <1>7, <2>2 DEF Ordered
  <2>. QED
    BY <1>3, <2>1, <2>2, <2>3 DEF Ordered
<1>18. Persisted' /\ LossesCounted' /\ GoodRowsSurvive'
  BY <1>8, <1>9 DEF Persisted, LossesCounted, GoodRowsSurvive, GoodLost
<1>19. DepthGauge'
  <2>1. Len(queue') <= Len(queue) /\ Len(queue') \in Nat
    BY <1>1, <1>2, <1>4
  <2>2. depth \in Nat /\ depth >= Len(queue)
    BY DEF DepthGauge, IInv, TypeOK
  <2>. QED
    BY <1>1, <1>5, <2>1, <2>2 DEF DepthGauge
<1>. QED
  BY <1>8, <1>10, <1>11, <1>12, <1>13, <1>14, <1>15, <1>16, <1>17, <1>18, <1>19

LEMMA TakeBatchRows == ASSUME IInv, RowInv, TakeBatch PROVE RowInv' /\ Pending' = Pending
<1>. DEFINE n == Lesser(BatchSize, Len(queue))
<1>1. Len(queue) \in Nat /\ queue # <<>> /\ Len(queue) > 0
  BY LenProperties, EmptySeq DEF IInv, TypeOK, TakeBatch
<1>2. n \in Nat /\ n > 0 /\ n <= Len(queue)
  BY <1>1, WriterAssumption DEF Lesser
<1>3. /\ flush' = [flush EXCEPT !["consumer"] = Flushing(SubSeq(queue, 1, n))]
      /\ queue' = SubSeq(queue, n + 1, Len(queue))
      /\ UNCHANGED <<db, owner, arrivals, deletedUsers, written, dropped, abandoned, depth>>
      /\ ~Active("consumer") /\ "consumer" \in Flows /\ "consumer" # "flush_now"
  BY DEF TakeBatch, Flows
<1>. HIDE DEF n
<1>. QED
  BY <1>2, <1>3, TakeUpRows

LEMMA DrainRows ==
    ASSUME IInv, RowInv, IInv', NEW f \in Flows, ~Active(f), ~FlushNowUsed => f # "flush_now",
           DrainInto(f),
           UNCHANGED <<db, owner, arrivals, deletedUsers, written, dropped, abandoned, depth>>
    PROVE  RowInv' /\ Pending' = Pending
<1>1. CASE queue = <<>>
  <2>1. flush' = flush /\ queue' = queue
    BY <1>1 DEF DrainInto
  <2>2. \A g \in Flows : Active(g)' = Active(g)
    BY <2>1 DEF Active
  <2>. QED
    BY <1>1, <2>1, <2>2, Quiet
<1>2. CASE queue # <<>>
  <2>. DEFINE n == Len(queue)
  <2>1. n \in Nat /\ n > 0 /\ queue \in Seq(Rows)
    BY <1>2, LenProperties, EmptySeq DEF IInv, TypeOK
  <2>2. SubSeq(queue, 1, n) = queue /\ SubSeq(queue, n + 1, n) = <<>>
    BY <2>1, SubSeqProperties, EmptySeq
  <2>3. /\ flush' = [flush EXCEPT ![f] = Flushing(SubSeq(queue, 1, n))]
        /\ queue' = SubSeq(queue, n + 1, Len(queue))
    BY <1>2, <2>2 DEF DrainInto
  <2>4. n <= Len(queue)
    BY <2>1
  <2>. HIDE DEF n
  <2>. QED
    BY <2>1, <2>3, <2>4, TakeUpRows
<1>. QED
  BY <1>1, <1>2

LEMMA StopDrainRows == ASSUME IInv, RowInv, StopDrain PROVE RowInv' /\ Pending' = Pending
<1>1. "stop" \in Flows /\ ~Active("stop") /\ "stop" # "flush_now"
  BY DEF IInv, StopOK, StopDrain, Flows
<1>2. /\ DrainInto("stop")
      /\ UNCHANGED <<db, owner, arrivals, deletedUsers, written, dropped, abandoned, depth>>
  BY DEF StopDrain
<1>. QED
  BY <1>1, <1>2, StopDrainInv, DrainRows

LEMMA FlushNowRows == ASSUME IInv, RowInv, FlushNow PROVE RowInv' /\ Pending' = Pending
<1>1. "flush_now" \in Flows /\ ~Active("flush_now") /\ FlushNowUsed
  BY DEF FlushNow, Flows
<1>2. /\ DrainInto("flush_now")
      /\ UNCHANGED <<db, owner, arrivals, deletedUsers, written, dropped, abandoned, depth>>
  BY DEF FlushNow
<1>. QED
  BY <1>1, <1>2, FlushNowInv, DrainRows

-----------------------------------------------------------------------------
(* The commit                                                              *)

LEMMA IdleFlow ==
    ASSUME IInv, NEW f \in Flows, ~Active(f)
    PROVE  BatchRows(f) = {} /\ Unsent(f) = {}
<1>1. flush[f] = Idle
  BY DEF IInv, FlushOK, FlushStateOK, Active
<1>. QED
  BY <1>1, IdleRows DEF BatchRows, Unsent

\* Without flush_now the consumer and the drain never hold batches together.
LEMMA OneFlow ==
    ASSUME IInv, Ordered, ~FlushNowUsed, NEW f \in Flows, NEW g \in Flows, Active(f), g # f
    PROVE  Unsent(g) = {}
<1>1. ~Active(g)
  BY DEF IInv, TypeOK, StopOK, Ordered, Flows
<1>. QED
  BY <1>1, IdleFlow

\* What a commit inserts: unsent rows, in order, which leave the unsent ones.
LEMMA CommitEffect ==
    ASSUME IInv, RowInv, NEW f \in Flows, Commit(f)
    PROVE  LET st == Statement(f)
           IN /\ st \in Seq(Rows) /\ Increasing(st) /\ st # <<>> /\ Len(st) \in Nat
              /\ IsFiniteSet(Range(st)) /\ Cardinality(Range(st)) = Len(st)
              /\ Active(f)
              /\ db' = db \o st /\ Range(db') = Range(db) \cup Range(st)
              /\ UNCHANGED <<queue, owner, arrivals, deletedUsers, written, dropped,
                             abandoned, depth>>
              /\ flush'[f].batch = flush[f].batch
              /\ Unsent(f) = Range(st) \cup Unsent(f)'
              /\ \A x \in Range(st), y \in Unsent(f)' : x < y
              /\ CountedOf(flush'[f]) = CountedOf(flush[f]) + Len(st)
              /\ \A g \in Flows \ {f} : flush'[g] = flush[g]
              /\ \A g \in Flows : Active(g)' = Active(g)
<1>. DEFINE st == Statement(f)
            s == flush[f]
            t == [s EXCEPT !.landed = TRUE]
<1>1. /\ st # <<>> /\ ~s.landed /\ db' = db \o st
      /\ flush' = [flush EXCEPT ![f] = t]
      /\ UNCHANGED <<queue, owner, arrivals, deletedUsers, written, dropped, abandoned, depth>>
  BY DEF Commit
<1>2. s \in FlushStates /\ FlushStateOK(s) /\ Increasing(s.batch) /\ st \in Seq(Rows)
  BY Basics, StatementType DEF RowInv, IInv
<1>3. \/ s.mode = "batch" /\ st = s.batch
      \/ /\ s.mode = "rows" /\ s.written + s.rejected < Size(s)
         /\ st = <<s.batch[s.written + s.rejected + 1]>>
  BY <1>1, StatementOf
<1>4. flush'[f] = t /\ \A g \in Flows \ {f} : flush'[g] = flush[g]
  BY <1>1 DEF IInv, TypeOK
<1>5. t.mode = s.mode
  BY <1>2 DEF FlushStates
<1>. HIDE DEF st, s
<1>6. /\ t.batch = s.batch
      /\ Range(st) \cup UnsentOf(t) = UnsentOf(s)
      /\ \A x \in Range(st), y \in UnsentOf(t) : x < y
      /\ Increasing(st)
      /\ CountedOf(t) = CountedOf(s) + Len(st)
  BY <1>1, <1>2, <1>3, Landing
<1>. HIDE DEF t
<1>7. IsFiniteSet(Range(st)) /\ Cardinality(Range(st)) = Len(st) /\ Len(st) \in Nat
  BY <1>2, <1>6, IncreasingSize, LenProperties
<1>8. Range(db') = Range(db) \cup Range(st)
  <2>1. db \in Seq(Rows)
    BY DEF IInv, TypeOK
  <2>. QED
    BY <1>1, <1>2, <2>1, RangeConcatenation
<1>9. Active(f) /\ \A g \in Flows : Active(g)' = Active(g)
  BY <1>3, <1>4, <1>5 DEF Active, s
<1>. QED
  BY <1>1, <1>2, <1>4, <1>6, <1>7, <1>8, <1>9 DEF Unsent, s, st

LEMMA CommitRows == ASSUME IInv, RowInv, NEW f \in Flows, Commit(f) PROVE RowInv' /\ Pending' = Pending
<1>. USE DEF RowInv, PlacesOK, CountsOK
<1>. DEFINE st == Statement(f)
            new == Range(st)
<1>1. /\ st \in Seq(Rows) /\ Increasing(st) /\ Len(st) \in Nat
      /\ IsFiniteSet(new) /\ Cardinality(new) = Len(st)
      /\ Active(f)
      /\ db' = db \o st /\ Range(db') = Range(db) \cup new
      /\ UNCHANGED <<queue, owner, arrivals, deletedUsers, written, dropped, abandoned, depth>>
      /\ flush'[f].batch = flush[f].batch
      /\ Unsent(f) = new \cup Unsent(f)'
      /\ \A x \in new, y \in Unsent(f)' : x < y
      /\ CountedOf(flush'[f]) = CountedOf(flush[f]) + Len(st)
      /\ \A g \in Flows \ {f} : flush'[g] = flush[g]
      /\ \A g \in Flows : Active(g)' = Active(g)
  BY CommitEffect
<1>2. /\ new \subseteq Unsent(f) /\ new \subseteq BatchRows(f) /\ new \subseteq Pending
      /\ new \cap Range(db) = {}
      /\ \A x \in new : x \in Nat
  <2>1. new \subseteq Unsent(f)
    BY <1>1
  <2>2. Unsent(f) \subseteq BatchRows(f) /\ BatchRows(f) \subseteq Pending
    BY Basics
  <2>3. \A x \in new : x \in Nat
    BY <1>1, RangeAt, RowsAreNumbers
  <2>. QED
    BY <2>1, <2>2, <2>3 DEF Absent
<1>. HIDE DEF st, new
<1>3. \A g \in Flows : /\ BatchRows(g)' = BatchRows(g)
                       /\ Held(g)' = Held(g)
                       /\ flush'[g].batch = flush[g].batch
                       /\ g # f => Unsent(g)' = Unsent(g)
  BY <1>1 DEF BatchRows, Held, Unsent
<1>4. \A g \in Flows : g # f => BatchRows(g) \cap new = {}
  BY <1>2 DEF Apart
<1>5. Pending' = Pending /\ ThisProcess' = ThisProcess /\ issued' = issued
  BY <1>1, <1>3 DEF Pending, ThisProcess, issued
<1>6. Lost' \subseteq Lost /\ GoodLost' \subseteq GoodLost
  BY <1>1, <1>5 DEF Lost, GoodLost
<1>7. Known'
  <2>1. ThisProcess \subseteq 1..issued
    <3>1. issued \in Nat /\ arrivals \in Nat /\ arrivals <= issued
      BY Basics DEF Known
    <3>. QED
      BY <3>1 DEF ThisProcess
  <2>. QED
    BY <1>1, <1>2, <1>5, <2>1 DEF Known
<1>8. InLine'
  BY <1>1, <1>3 DEF InLine
<1>9. Apart'
  BY <1>3 DEF Apart
<1>10. Absent'
  <2>1. Range(queue) \cap new = {}
    BY <1>2 DEF InLine
  <2>2. Unsent(f)' \cap new = {}
    BY <1>1, <1>2
  <2>3. ASSUME NEW g \in Flows PROVE Unsent(g)' \cap Range(db') = {}
    <3>1. CASE g = f
      BY <1>1, <2>2, <3>1 DEF Absent
    <3>2. CASE g # f
      BY <1>1, <1>3, <1>4, <3>2, Basics DEF Absent
    <3>. QED
      BY <3>1, <3>2
  <2>. QED
    BY <1>1, <2>1, <2>3 DEF Absent
<1>11. Answered'
  <2>. SUFFICES ASSUME NEW g \in Flows, NEW r \in BatchRows(g) \ Unsent(g)'
                PROVE  r \in Range(db') \/ owner[r] \in deletedUsers
    BY <1>1, <1>3 DEF Answered
  <2>. QED
    BY <1>1, <1>3 DEF Answered
<1>12. Tallied'
  <2>. SUFFICES ASSUME NEW g \in Flows
                PROVE  Cardinality(Missing(g)') + CountedOf(flush'[g]) <= Held(g)
    BY <1>3 DEF Tallied
  <2>1. CASE g # f
    <3>1. Missing(g)' = Missing(g) /\ flush'[g] = flush[g]
      BY <1>1, <1>3, <1>4, <2>1 DEF Missing
    <3>. QED
      BY <3>1 DEF Tallied
  <2>2. CASE g = f
    <3>1. Missing(f) = Missing(f)' \cup new /\ Missing(f)' \cap new = {}
      BY <1>1, <1>2, <1>3 DEF Missing
    <3>2. IsFiniteSet(Missing(f)')
      <4>1. IsFiniteSet(BatchRows(f)) /\ Missing(f)' \subseteq BatchRows(f)
        BY <1>3, Basics DEF Missing
      <4>. QED
        BY <4>1, FS_Subset
    <3>3. PICK m \in Nat, l \in Nat :
             m = Cardinality(Missing(f)') /\ l = Len(st) /\ Cardinality(Missing(f)) = m + l
      <4>. DEFINE M == Missing(f)'
      <4>1. IsFiniteSet(M) /\ M \cap new = {} /\ Missing(f) = M \cup new
        BY <3>1, <3>2
      <4>. HIDE DEF M
      <4>2. Cardinality(M) \in Nat /\ Cardinality(M \cup new) = Cardinality(M) + Cardinality(new)
        BY <1>1, <4>1, DisjointSizes
      <4>. QED
        BY <1>1, <4>1, <4>2 DEF M
    <3>4. PICK c \in Nat, h \in Nat : c = CountedOf(flush[f]) /\ h = Held(f)
      BY Basics, SentType
    <3>5. (m + l) + c <= h
      BY <3>3, <3>4 DEF Tallied
    <3>6. m + (c + l) <= h
      BY <3>5
    <3>. QED
      BY <1>1, <2>2, <3>3, <3>4, <3>6
  <2>. QED
    BY <2>1, <2>2
<1>13. NonEmpty'
  BY <1>1, <1>3 DEF NonEmpty
<1>14. Ordered'
  <2>. SUFFICES ASSUME ~FlushNowUsed
                PROVE  /\ ~Active("flush_now")
                       /\ Increasing(db')
                       /\ \A x \in Range(db'), y \in Range(queue) : x < y
                       /\ \A g \in Flows : \A x \in Range(db'), y \in Unsent(g)' : x < y
    BY <1>1 DEF Ordered, Flows
  <2>1. Increasing(db')
    <3>1. db \in Seq(Rows) /\ Increasing(db) /\ \A x \in Range(db), y \in new : x < y
      BY <1>2 DEF Ordered, IInv, TypeOK
    <3>. QED
      BY <1>1, <3>1, IncreasingConcat DEF new
  <2>2. \A x \in new, y \in Range(queue) : x < y
    BY <1>2 DEF InLine
  <2>3. ASSUME NEW g \in Flows PROVE \A x \in Range(db'), y \in Unsent(g)' : x < y
    <3>1. CASE g = f
      BY <1>1, <3>1 DEF Ordered
    <3>2. CASE g # f
      BY <1>1, <1>3, <3>2, OneFlow
    <3>. QED
      BY <3>1, <3>2
  <2>. QED
    BY <1>1, <2>1, <2>2, <2>3 DEF Ordered
<1>15. Persisted'
  <2>1. ((Range(db) \cap ThisProcess) \ Pending)' = (Range(db) \cap ThisProcess) \ Pending
    BY <1>1, <1>2, <1>5
  <2>. QED
    BY <1>1, <2>1 DEF Persisted
<1>16. LossesCounted'
  <2>1. PICK l \in Nat, l2 \in Nat : l = Cardinality(Lost) /\ l2 = Cardinality(Lost') /\ l2 <= l
    BY <1>6, Basics, FS_Subset, FS_CardinalityType
  <2>2. PICK t \in Nat : t = Total(dropped) + abandoned /\ l <= t
    BY <2>1, TotalType, CountersType DEF LossesCounted, IInv
  <2>3. l2 <= t
    BY <2>1, <2>2
  <2>. QED
    BY <1>1, <2>1, <2>2, <2>3 DEF LossesCounted
<1>17. GoodRowsSurvive'
  <2>1. PICK l \in Nat, l2 \in Nat :
           l = Cardinality(GoodLost) /\ l2 = Cardinality(GoodLost') /\ l2 <= l
    BY <1>6, Basics, FS_Subset, FS_CardinalityType
  <2>2. PICK t \in Nat : t = dropped["queue_full"] + dropped["write_failed"] + abandoned /\ l <= t
    <3>1. dropped["queue_full"] \in Nat /\ dropped["write_failed"] \in Nat /\ abandoned \in Nat
      BY DEF IInv, TypeOK, Reasons
    <3>2. dropped["queue_full"] + dropped["write_failed"] + abandoned \in Nat
      BY <3>1
    <3>. QED
      BY <2>1, <3>2 DEF GoodRowsSurvive, GoodLost
  <2>3. l2 <= t
    BY <2>1, <2>2
  <2>. QED
    BY <1>1, <2>1, <2>2, <2>3 DEF GoodRowsSurvive, GoodLost
<1>18. DepthGauge'
  BY <1>1 DEF DepthGauge
<1>. QED
  BY <1>5, <1>7, <1>8, <1>9, <1>10, <1>11, <1>12, <1>13, <1>14, <1>15, <1>16, <1>17, <1>18

-----------------------------------------------------------------------------
(* Offers, the crash, and the start                                        *)

\* The number of the row that is offered next is new, and it is the largest.
LEMMA OfferEffect ==
    ASSUME IInv, PlacesOK, NEW u \in Users, Offered(u)
    PROVE  LET r == issued + 1
           IN /\ r \in Rows /\ r \in Nat /\ issued' = r /\ arrivals' = arrivals + 1
              /\ arrivals' <= issued' /\ issued' <= MaxRows
              /\ ThisProcess' = ThisProcess \cup {r}
              /\ ThisProcess \subseteq 1..issued
              /\ \A x \in 1..issued : x \in 1..r /\ x < r /\ owner'[x] = owner[x]
              /\ r \in 1..r
<1>1. PICK i \in Nat, a \in Nat : i = issued /\ a = arrivals /\ owner \in Seq(Users)
  BY Basics
<1>2. owner' = Append(owner, u) /\ arrivals' = a + 1 /\ i < MaxRows /\ MaxRows \in Nat
  BY <1>1, WriterAssumption DEF Offered
<1>3. issued' = i + 1 /\ \A x \in 1..i : owner'[x] = owner[x]
  BY <1>1, <1>2, AppendProperties DEF issued
<1>4. a <= i
  BY <1>1 DEF PlacesOK, Known
<1>5. (i + 1 - (a + 1) + 1)..(i + 1) = ((i - a + 1)..i) \cup {i + 1}
  BY <1>4
<1>6. ThisProcess = (i - a + 1)..i /\ ThisProcess' = (i + 1 - (a + 1) + 1)..(i + 1)
  BY <1>1, <1>2, <1>3 DEF ThisProcess
<1>7. /\ i + 1 \in Rows /\ i + 1 \in Nat /\ a + 1 <= i + 1 /\ i + 1 <= MaxRows
      /\ ((i - a + 1)..i) \subseteq 1..i
      /\ \A x \in 1..i : x \in 1..(i + 1) /\ x < i + 1
      /\ i + 1 \in 1..(i + 1)
  BY <1>2, <1>4 DEF Rows
<1>. QED
  BY <1>1, <1>2, <1>3, <1>5, <1>6, <1>7

LEMMA AcceptRows ==
    ASSUME IInv, RowInv, NEW u \in Users, Accept(u)
    PROVE  /\ RowInv'
           /\ issued + 1 \in Rows \ (Pending \cup Range(db))
           /\ Pending' = Pending \cup {issued + 1}
<1>. USE DEF RowInv, PlacesOK, CountsOK
<1>. DEFINE r == issued + 1
            top == issued
<1>1. /\ r \in Rows /\ r \in Nat /\ issued' = r
      /\ arrivals' <= issued' /\ issued' <= MaxRows
      /\ ThisProcess' = ThisProcess \cup {r} /\ ThisProcess \subseteq 1..top
      /\ \A x \in 1..top : x \in 1..r /\ x < r /\ owner'[x] = owner[x]
      /\ r \in 1..r
  BY OfferEffect DEF Accept
<1>2. /\ UNCHANGED <<flush, written, dropped, db, deletedUsers, abandoned>>
      /\ queue' = Append(queue, r) /\ depth' = Len(queue) + 1
  BY DEF Accept
<1>3. queue \in Seq(Rows) /\ Increasing(queue)
  BY DEF IInv, TypeOK, InLine
<1>4. Range(db) \subseteq 1..top /\ Pending \subseteq 1..top
  BY <1>1 DEF Known
<1>. HIDE DEF r, top
<1>5. ~(r < r)
  BY <1>1
<1>6. /\ r \notin Range(db) /\ r \notin Pending /\ r \notin ThisProcess
      /\ \A x \in Range(db) : x < r
      /\ \A x \in Pending : x < r
  BY <1>1, <1>4, <1>5
<1>7. Range(queue) \subseteq Pending /\ \A f \in Flows : BatchRows(f) \subseteq Pending
  BY Basics
<1>8. Increasing(queue') /\ Range(queue') = Range(queue) \cup {r}
  BY <1>1, <1>2, <1>3, <1>6, <1>7, IncreasingAppend
<1>9. \A f \in Flows :
         /\ BatchRows(f)' = BatchRows(f) /\ Unsent(f)' = Unsent(f) /\ Held(f)' = Held(f)
         /\ Active(f)' = Active(f) /\ Missing(f)' = Missing(f)
  BY <1>2 DEF BatchRows, Unsent, Held, Active, Missing
<1>10. Pending' = Pending \cup {r}
  BY <1>8, <1>9 DEF Pending
<1>11. Lost' = Lost
  BY <1>1, <1>2, <1>6, <1>10 DEF Lost
<1>12. GoodLost' = GoodLost
  BY <1>1, <1>2, <1>11 DEF GoodLost, Lost
<1>13. Known'
  BY <1>1, <1>2, <1>4, <1>10 DEF Known
<1>14. InLine'
  BY <1>2, <1>6, <1>7, <1>8, <1>9 DEF InLine
<1>15. Apart'
  BY <1>9 DEF Apart
<1>16. Absent'
  BY <1>2, <1>6, <1>8, <1>9 DEF Absent
<1>17. Answered'
  <2>. SUFFICES ASSUME NEW f \in Flows, NEW x \in BatchRows(f) \ Unsent(f)
                PROVE  x \in Range(db) \/ owner'[x] \in deletedUsers
    BY <1>2, <1>9 DEF Answered
  <2>1. x \in 1..top
    BY <1>4, <1>7
  <2>. QED
    BY <1>1, <2>1 DEF Answered
<1>18. Tallied'
  BY <1>2, <1>9 DEF Tallied
<1>19. NonEmpty'
  BY <1>2, <1>9 DEF NonEmpty
<1>20. Ordered'
  BY <1>2, <1>6, <1>8, <1>9 DEF Ordered, Flows
<1>21. Persisted'
  <2>1. ((Range(db) \cap ThisProcess) \ Pending)' = (Range(db) \cap ThisProcess) \ Pending
    BY <1>1, <1>2, <1>6, <1>10
  <2>. QED
    BY <1>2, <2>1 DEF Persisted
<1>22. LossesCounted' /\ GoodRowsSurvive'
  BY <1>2, <1>11, <1>12 DEF LossesCounted, GoodRowsSurvive, GoodLost
<1>23. DepthGauge'
  <2>1. Len(queue') = Len(queue) + 1 /\ Len(queue) \in Nat
    BY <1>1, <1>2, <1>3, AppendProperties, LenProperties
  <2>. QED
    BY <1>2, <2>1 DEF DepthGauge
<1>. QED
  BY <1>1, <1>6, <1>10, <1>13, <1>14, <1>15, <1>16, <1>17, <1>18, <1>19, <1>20, <1>21, <1>22, <1>23
     DEF r

\* A row that is shed is lost, and counted in the same step.
LEMMA ShedRows == ASSUME IInv, RowInv, NEW u \in Users, Shed(u) PROVE RowInv' /\ Pending' = Pending
<1>. USE DEF RowInv, PlacesOK, CountsOK
<1>. DEFINE r == issued + 1
            top == issued
<1>1. /\ issued' = r
      /\ arrivals' <= issued' /\ issued' <= MaxRows
      /\ ThisProcess' = ThisProcess \cup {r} /\ ThisProcess \subseteq 1..top
      /\ \A x \in 1..top : x \in 1..r /\ x < r /\ owner'[x] = owner[x]
      /\ r \in Nat
  BY OfferEffect DEF Shed
<1>2. /\ UNCHANGED <<queue, flush, written, db, deletedUsers, abandoned, depth>>
      /\ dropped' = [dropped EXCEPT !["queue_full"] = @ + 1]
  BY DEF Shed
<1>3. Range(db) \subseteq 1..top /\ Pending \subseteq 1..top
  BY <1>1 DEF Known
<1>. HIDE DEF r, top
<1>4. r \notin Range(db)
  <2>1. ~(r < r)
    BY <1>1
  <2>. QED
    BY <1>1, <1>3, <2>1
<1>5. \A f \in Flows :
         /\ BatchRows(f)' = BatchRows(f) /\ Unsent(f)' = Unsent(f) /\ Held(f)' = Held(f)
         /\ Active(f)' = Active(f) /\ Missing(f)' = Missing(f)
  BY <1>2 DEF BatchRows, Unsent, Held, Active, Missing
<1>6. Pending' = Pending
  BY <1>2, <1>5 DEF Pending
<1>7. Lost' \subseteq Lost \cup {r}
  BY <1>1, <1>2, <1>6 DEF Lost
<1>8. GoodLost' \subseteq GoodLost \cup {r}
  <2>. SUFFICES ASSUME NEW x \in GoodLost', x # r PROVE x \in GoodLost
    OBVIOUS
  <2>1. x \in Lost /\ owner'[x] \notin deletedUsers
    BY <1>2, <1>7 DEF GoodLost
  <2>2. x \in 1..top
    BY <1>1, <2>1 DEF Lost
  <2>. QED
    BY <1>1, <2>1, <2>2 DEF GoodLost
<1>9. PICK q \in Nat, j \in Nat, e \in Nat, a \in Nat :
         /\ dropped["queue_full"] = q /\ dropped["rejected"] = j
         /\ dropped["write_failed"] = e /\ abandoned = a
  BY DEF IInv, TypeOK, Reasons
<1>10. /\ dropped'["queue_full"] = q + 1 /\ dropped'["rejected"] = j
       /\ dropped'["write_failed"] = e /\ abandoned' = a
  BY <1>2, <1>9 DEF IInv, TypeOK, Reasons
<1>11. /\ IsFiniteSet({r}) /\ Cardinality({r}) = 1
       /\ IsFiniteSet(Lost) /\ IsFiniteSet(GoodLost)
  BY Basics, FS_Singleton
<1>12. Known'
  BY <1>1, <1>2, <1>3, <1>6 DEF Known
<1>13. InLine'
  BY <1>2, <1>5 DEF InLine
<1>14. Apart'
  BY <1>5 DEF Apart
<1>15. Absent'
  BY <1>2, <1>5 DEF Absent
<1>16. Answered'
  <2>. SUFFICES ASSUME NEW f \in Flows, NEW x \in BatchRows(f) \ Unsent(f)
                PROVE  x \in Range(db) \/ owner'[x] \in deletedUsers
    BY <1>2, <1>5 DEF Answered
  <2>1. x \in 1..top
    BY <1>3, Basics
  <2>. QED
    BY <1>1, <2>1 DEF Answered
<1>17. Tallied'
  BY <1>2, <1>5 DEF Tallied
<1>18. NonEmpty'
  BY <1>2, <1>5 DEF NonEmpty
<1>19. Ordered'
  BY <1>2, <1>5 DEF Ordered, Flows
<1>20. Persisted'
  <2>1. ((Range(db) \cap ThisProcess) \ Pending)' = (Range(db) \cap ThisProcess) \ Pending
    BY <1>1, <1>2, <1>4, <1>6
  <2>. QED
    BY <1>2, <2>1 DEF Persisted
<1>21. LossesCounted'
  <2>1. PICK l \in Nat, l2 \in Nat :
           l = Cardinality(Lost) /\ l2 = Cardinality(Lost') /\ l2 <= l + 1
    BY <1>7, <1>11, CoveredSize
  <2>2. l <= (q + j + e) + a
    BY <1>9, <2>1 DEF LossesCounted, Total
  <2>3. l2 <= ((q + 1) + j + e) + a
    BY <2>1, <2>2
  <2>. QED
    BY <1>10, <2>1, <2>3 DEF LossesCounted, Total
<1>22. GoodRowsSurvive'
  <2>1. PICK l \in Nat, l2 \in Nat :
           l = Cardinality(GoodLost) /\ l2 = Cardinality(GoodLost') /\ l2 <= l + 1
    BY <1>8, <1>11, CoveredSize
  <2>2. l <= q + e + a
    BY <1>9, <2>1 DEF GoodRowsSurvive, GoodLost
  <2>3. l2 <= (q + 1) + e + a
    BY <2>1, <2>2
  <2>. QED
    BY <1>10, <2>1, <2>3 DEF GoodRowsSurvive, GoodLost
<1>23. DepthGauge'
  BY <1>2, <1>5 DEF DepthGauge, Shed
<1>. QED
  BY <1>6, <1>12, <1>13, <1>14, <1>15, <1>16, <1>17, <1>18, <1>19, <1>20, <1>21, <1>22, <1>23

\* A process that has just started knows no rows, whatever the table holds.
JustStarted ==
    /\ TypeOK
    /\ queue = <<>> /\ \A f \in Flows : flush[f] = Idle
    /\ written = 0 /\ depth = 0 /\ arrivals = 0 /\ abandoned = 0
    /\ \A reason \in Reasons : dropped[reason] = 0
    /\ issued <= MaxRows /\ Range(db) \subseteq 1..issued
    /\ ~FlushNowUsed => Increasing(db)

LEMMA NothingYet == JustStarted => RowInv
<1>. SUFFICES ASSUME JustStarted PROVE RowInv
  OBVIOUS
<1>. USE DEF JustStarted
<1>1. /\ Range(queue) = {} /\ Increasing(queue) /\ Len(queue) = 0 /\ Cardinality({}) = 0
  BY EmptyInOrder, EmptySeq, FS_EmptySet
<1>2. \A f \in Flows :
         /\ BatchRows(f) = {} /\ Unsent(f) = {} /\ Held(f) = 0 /\ ~Active(f)
         /\ Increasing(flush[f].batch) /\ CountedOf(flush[f]) = 0 /\ Missing(f) = {}
  BY IdleRows, IdleType DEF BatchRows, Unsent, Held, Active, Missing
<1>3. Pending = {}
  BY <1>1, <1>2 DEF Pending
<1>4. issued \in Nat
  BY LenProperties DEF TypeOK, issued
<1>5. ThisProcess = {}
  BY <1>4 DEF ThisProcess
<1>6. Lost = {} /\ GoodLost = {}
  BY <1>5 DEF Lost, GoodLost
<1>7. Known
  BY <1>3, <1>4 DEF Known
<1>8. InLine
  BY <1>1, <1>2 DEF InLine
<1>9. Apart /\ Absent /\ Answered
  BY <1>1, <1>2 DEF Apart, Absent, Answered
<1>10. Tallied
  <2>. SUFFICES ASSUME NEW f \in Flows
                PROVE  Cardinality(Missing(f)) + CountedOf(flush[f]) <= Held(f)
    BY DEF Tallied
  <2>1. Cardinality(Missing(f)) = 0
    BY <1>1, <1>2, Zenon
  <2>. QED
    BY <1>2, <2>1
<1>11. NonEmpty
  BY <1>2 DEF NonEmpty
<1>12. Ordered
  BY <1>1, <1>2 DEF Ordered, Flows
<1>13. Persisted
  <2>1. (Range(db) \cap ThisProcess) \ Pending = {}
    BY <1>5
  <2>2. Cardinality((Range(db) \cap ThisProcess) \ Pending) = 0
    BY <1>1, <2>1, Zenon
  <2>. QED
    BY <2>2 DEF Persisted
<1>14. LossesCounted
  BY <1>1, <1>6 DEF LossesCounted, Total, Reasons
<1>15. GoodRowsSurvive
  BY <1>1, <1>6 DEF GoodRowsSurvive, GoodLost, Reasons
<1>16. DepthGauge
  BY <1>1 DEF DepthGauge
<1>. QED
  BY <1>7, <1>8, <1>9, <1>10, <1>11, <1>12, <1>13, <1>14, <1>15, <1>16
     DEF RowInv, PlacesOK, CountsOK

LEMMA InitRows == Init => RowInv
<1>. SUFFICES ASSUME Init PROVE RowInv
  OBVIOUS
<1>1. TypeOK
  BY InitInv DEF IInv
<1>2. /\ queue = <<>> /\ \A f \in Flows : flush[f] = Idle
      /\ written = 0 /\ depth = 0 /\ arrivals = 0 /\ abandoned = 0
      /\ \A reason \in Reasons : dropped[reason] = 0
      /\ owner = <<>> /\ db = <<>>
  BY DEF Init
<1>3. issued <= MaxRows /\ Range(db) \subseteq 1..issued /\ Increasing(db)
  BY <1>2, EmptyInOrder, EmptySeq, WriterAssumption DEF issued
<1>. QED
  BY <1>1, <1>2, <1>3, NothingYet DEF JustStarted

LEMMA NothingYetNext == JustStarted' => RowInv'
BY NothingYet, PTL

LEMMA CrashRows == ASSUME IInv, RowInv, Crash PROVE RowInv'
<1>1. TypeOK'
  BY CrashInv DEF IInv
<1>2. /\ queue' = <<>> /\ \A f \in Flows : flush'[f] = Idle
      /\ written' = 0 /\ depth' = 0 /\ arrivals' = 0 /\ abandoned' = 0
      /\ \A reason \in Reasons : dropped'[reason] = 0
      /\ owner' = owner /\ db' = db
  BY DEF Crash
<1>3. issued' <= MaxRows /\ Range(db') \subseteq 1..issued' /\ (~FlushNowUsed => Increasing(db'))
  BY <1>2 DEF RowInv, PlacesOK, Known, Ordered, issued
<1>. QED
  BY <1>1, <1>2, <1>3, NothingYetNext DEF JustStarted

-----------------------------------------------------------------------------
(* Theorems                                                                *)

\* Every step of the writer, of its environment and of the database keeps every
\* row where it belongs, and the counters true to where the rows are.
THEOREM RowsInductive == IInv /\ RowInv /\ [Next]_vars => RowInv'
<1>. SUFFICES ASSUME IInv, RowInv, [Next]_vars PROVE RowInv'
  OBVIOUS
<1>1. ASSUME NEW u \in Users, Accept(u) PROVE RowInv'
  BY <1>1, AcceptRows
<1>2. ASSUME NEW u \in Users, Shed(u) PROVE RowInv'
  BY <1>2, ShedRows
<1>3. CASE TakeBatch
  BY <1>3, TakeBatchRows
<1>4. ASSUME NEW f \in Flows, Commit(f) PROVE RowInv'
  BY <1>4, CommitRows
<1>5. ASSUME NEW f \in Flows, FlushStep(f) PROVE RowInv'
  BY <1>5, BatchRefusedRows, RowWrittenRows, RowRefusedRows, EndingRows DEF FlushStep
<1>6. CASE StopStep
  BY <1>6, CancelledRows, StopDrainRows DEF StopStep
<1>7. CASE FlushNow
  BY <1>7, FlushNowRows
<1>8. CASE Crash
  BY <1>8, CrashRows
<1>9. CASE Start \/ StopCancel \/ (\E u \in Users : DeleteUser(u)) \/ UNCHANGED vars
  BY <1>9, BystanderRows
<1>. QED
  BY <1>1, <1>2, <1>3, <1>4, <1>5, <1>6, <1>7, <1>8, <1>9 DEF Next

LEMMA RowsInvariant == Spec => [](IInv /\ RowInv)
<1>. QED
  BY InitInv, InitRows, Inductive, RowsInductive, PTL DEF Spec

\* No row is lost without being counted, except with the batch of a cancelled
\* task: rows neither stored nor pending never outnumber the counted losses.
THEOREM EveryLossCounted == Spec => []LossesCounted
<1>1. IInv /\ RowInv => LossesCounted
  BY DEF RowInv, CountsOK
<1>. QED
  BY <1>1, RowsInvariant, PTL

\* The row by row retry keeps its promise: a row whose owner exists is lost to
\* the queue, to the database or to the stop, never to another row of its batch.
THEOREM OneBadRowCostsOneRow == Spec => []GoodRowsSurvive
<1>1. IInv /\ RowInv => GoodRowsSurvive
  BY DEF RowInv, CountsOK
<1>. QED
  BY <1>1, RowsInvariant, PTL

\* The gauge never shows less than the queue.  Between flushes it shows the queue;
\* after a cancelled flush it may show too much, but only until stop drains what is
\* queued or, with nothing queued, until a row arrives.
THEOREM GaugeTrue == Spec => []DepthGauge
<1>1. IInv /\ RowInv => DepthGauge
  BY DEF RowInv, CountsOK
<1>. QED
  BY <1>1, RowsInvariant, PTL

\* Without flush_now, rows reach the table in the order in which they arrived.
THEOREM ArrivalOrderKept == Spec => []LogInArrivalOrder
<1>1. IInv /\ RowInv => LogInArrivalOrder
  BY DEF RowInv, PlacesOK, Ordered, Increasing, LogInArrivalOrder
<1>. QED
  BY <1>1, RowsInvariant, PTL

\* No statement of _flush or of _flush_row_by_row carries a row the table has,
\* so a refusal always means that an owner is gone.
THEOREM NothingInsertedTwice == Spec => []NeverReinserted
<1>1. ASSUME IInv, RowInv, NEW f \in Flows, ~flush[f].landed
      PROVE  Range(Statement(f)) \cap Range(db) = {}
  <2>1. CASE Statement(f) = <<>>
    BY <2>1, EmptyInOrder
  <2>2. CASE Statement(f) # <<>>
    <3>. DEFINE s == flush[f]
                st == Statement(f)
                t == [s EXCEPT !.landed = TRUE]
    <3>1. /\ s \in FlushStates /\ FlushStateOK(s) /\ Increasing(s.batch) /\ st \in Seq(Rows)
          /\ ~s.landed
      BY <1>1, Basics, StatementType DEF RowInv, IInv
    <3>2. \/ s.mode = "batch" /\ st = s.batch
          \/ /\ s.mode = "rows" /\ s.written + s.rejected < Size(s)
             /\ st = <<s.batch[s.written + s.rejected + 1]>>
      BY <1>1, <2>2, StatementOf
    <3>. HIDE DEF s, st
    <3>3. Range(st) \cup UnsentOf(t) = UnsentOf(s)
      BY <3>1, <3>2, Landing
    <3>. HIDE DEF t
    <3>4. Range(st) \subseteq Unsent(f)
      BY <3>3 DEF Unsent, s
    <3>. QED
      BY <1>1, <3>4 DEF st, RowInv, PlacesOK, Absent
  <2>. QED
    BY <2>1, <2>2
<1>2. IInv /\ RowInv => NeverReinserted
  BY <1>1 DEF NeverReinserted
<1>. QED
  BY <1>2, RowsInvariant, PTL

\* Rows the table holds of a batch are at least those its flow has tallied.
LEMMA TalliedAreStored ==
    ASSUME IInv, RowInv, NEW f \in Flows
    PROVE  LET A == BatchRows(f) \cap Range(db)
           IN /\ IsFiniteSet(A) /\ Cardinality(A) \in Nat
              /\ flush[f].written \in Nat /\ CountedOf(flush[f]) \in Nat
              /\ flush[f].written <= CountedOf(flush[f])
              /\ CountedOf(flush[f]) <= Cardinality(A)
<1>. DEFINE S == BatchRows(f)
            D == Range(db)
<1>1. PICK h \in Nat, c \in Nat, w \in Nat :
         h = Held(f) /\ c = CountedOf(flush[f]) /\ w = flush[f].written /\ w <= c
  BY Basics, SentType DEF RowInv
<1>2. IsFiniteSet(S) /\ Cardinality(S) = h /\ Missing(f) = S \ D
  BY <1>1, Basics DEF RowInv, Missing
<1>. HIDE DEF S, D
<1>3. PICK m \in Nat, k \in Nat :
         /\ m = Cardinality(S \ D) /\ k = Cardinality(S \cap D) /\ h = m + k
         /\ IsFiniteSet(S \cap D)
  BY <1>2, SplitSize
<1>4. m + c <= h
  BY <1>1, <1>2, <1>3 DEF RowInv, PlacesOK, Tallied
<1>5. c <= k
  BY <1>3, <1>4
<1>. QED
  BY <1>1, <1>3, <1>5 DEF S, D

\* A row counted as written is in the table, and so is one a flow has tallied.
THEOREM CountedIsPersisted == Spec => []WrittenIsPersisted
<1>1. ASSUME IInv, RowInv PROVE WrittenIsPersisted
  <2>. DEFINE A(f) == BatchRows(f) \cap Range(db)
              S == (Range(db) \cap ThisProcess) \ Pending
              C == A("consumer")
              P == A("stop")
              N == A("flush_now")
              T == Range(db) \cap ThisProcess
  <2>1. \A f \in Flows : /\ IsFiniteSet(A(f)) /\ Cardinality(A(f)) \in Nat
                         /\ flush[f].written \in Nat
                         /\ flush[f].written <= Cardinality(A(f))
    <3>. SUFFICES ASSUME NEW f \in Flows
                  PROVE  /\ IsFiniteSet(A(f)) /\ Cardinality(A(f)) \in Nat
                         /\ flush[f].written \in Nat
                         /\ flush[f].written <= Cardinality(A(f))
      OBVIOUS
    <3>1. PICK c \in Nat, k \in Nat, w \in Nat :
             /\ c = CountedOf(flush[f]) /\ k = Cardinality(A(f)) /\ w = flush[f].written
             /\ w <= c /\ c <= k /\ IsFiniteSet(A(f))
      BY <1>1, TalliedAreStored
    <3>2. w <= k
      BY <3>1
    <3>. QED
      BY <3>1, <3>2
  <2>2. PICK w \in Nat, c \in Nat, p \in Nat, n \in Nat :
           /\ w = written /\ c = flush["consumer"].written
           /\ p = flush["stop"].written /\ n = flush["flush_now"].written
    BY <1>1, <2>1 DEF IInv, TypeOK, Flows
  <2>3. /\ IsFiniteSet(C) /\ IsFiniteSet(P) /\ IsFiniteSet(N)
        /\ c <= Cardinality(C) /\ p <= Cardinality(P) /\ n <= Cardinality(N)
    BY <2>1, <2>2 DEF Flows
  <2>4. IsFiniteSet(S) /\ w <= Cardinality(S) /\ IsFiniteSet(T)
    BY <1>1, <2>2, Basics, FS_Subset DEF RowInv, CountsOK, Persisted
  <2>5. \A f \in Flows : A(f) \subseteq Pending /\ A(f) \subseteq T
    BY <1>1, Basics DEF RowInv, PlacesOK, Known
  <2>6. C \cap P = {} /\ C \cap N = {} /\ P \cap N = {}
    BY <1>1 DEF RowInv, PlacesOK, Apart, Flows
  <2>7. S \cap C = {} /\ (S \cup C) \cap P = {} /\ ((S \cup C) \cup P) \cap N = {}
    BY <2>5, <2>6 DEF Flows
  <2>8. ((S \cup C) \cup P) \cup N \subseteq T
    BY <2>5 DEF Flows
  <2>. HIDE DEF A, S, C, P, N, T
  <2>. DEFINE U == S \cup C
              V == U \cup P
              W == V \cup N
  <2>9. S \cap C = {} /\ U \cap P = {} /\ V \cap N = {} /\ W \subseteq T
    BY <2>7, <2>8
  <2>10. PICK x \in Nat, y \in Nat :
            /\ x = Cardinality(S) /\ y = Cardinality(C)
            /\ IsFiniteSet(U) /\ Cardinality(U) = x + y
    BY <2>3, <2>4, <2>9, DisjointSizes
  <2>. HIDE DEF U
  <2>11. PICK z \in Nat : /\ z = Cardinality(P) /\ IsFiniteSet(V)
                          /\ Cardinality(V) = (x + y) + z
    <3>1. IsFiniteSet(U) /\ IsFiniteSet(P) /\ U \cap P = {}
      BY <2>3, <2>9, <2>10
    <3>2. /\ Cardinality(P) \in Nat /\ IsFiniteSet(V)
          /\ Cardinality(V) = Cardinality(U) + Cardinality(P)
      BY ONLY <3>1, DisjointSizes
    <3>. HIDE DEF V
    <3>. QED
      BY <2>10, <3>2
  <2>. HIDE DEF V
  <2>12. PICK v \in Nat, l \in Nat :
            v = Cardinality(N) /\ l = Cardinality(T) /\ ((x + y) + z) + v <= l
    <3>1. Cardinality(N) \in Nat /\ Cardinality(W) = ((x + y) + z) + Cardinality(N)
      <4>1. IsFiniteSet(V) /\ IsFiniteSet(N) /\ V \cap N = {}
        BY <2>3, <2>9, <2>11
      <4>2. Cardinality(N) \in Nat /\ Cardinality(W) = Cardinality(V) + Cardinality(N)
        BY ONLY <4>1, DisjointSizes
      <4>. HIDE DEF W
      <4>. QED
        BY <2>11, <4>2
    <3>. HIDE DEF W
    <3>2. Cardinality(W) <= Cardinality(T) /\ Cardinality(T) \in Nat
      BY <2>4, <2>9, FS_Subset, FS_CardinalityType
    <3>. QED
      BY <3>1, <3>2
  <2>13. w <= x /\ c <= y /\ p <= z /\ n <= v
    BY <2>3, <2>4, <2>10, <2>11, <2>12
  <2>14. w + c + p + n <= l
    BY ONLY <2>12, <2>13, w \in Nat, c \in Nat, p \in Nat, n \in Nat, x \in Nat, y \in Nat,
            z \in Nat, v \in Nat, l \in Nat
  <2>. QED
    BY <2>2, <2>12, <2>14 DEF WrittenIsPersisted, T
<1>2. IInv /\ RowInv => WrittenIsPersisted
  BY <1>1
<1>. QED
  BY <1>2, RowsInvariant, PTL

-----------------------------------------------------------------------------
(* The refinement: every step of the writer is a step of the log           *)

LEMMA LogSizes == \A S : Log!Cardinality(S) = Cardinality(S)
BY Zenon DEF Cardinality, Log!Cardinality

\* A flush that ends accounts for its batch: of the rows the table has, it
\* counts as many as written as it claims, and the rest as dropped.
LEMMA EndingAccounts ==
    ASSUME IInv, RowInv, NEW f \in Flows,
           BatchWritten(f) \/ BatchFailed(f) \/ RowsFailed(f) \/ RowsDone(f)
    PROVE  \E S \in SUBSET Pending : \E W \in SUBSET (S \cap Range(db)) : Log!Account(S, W)
<1>1. PICK wrote \in Nat, rejected \in Nat, failed \in Nat :
         Ending(f, wrote, rejected, failed)
  BY EndingCounts
<1>2. /\ flush' = [flush EXCEPT ![f] = Idle]
      /\ UNCHANGED <<queue, db, owner, arrivals, deletedUsers, abandoned>>
      /\ written' = written + wrote
      /\ dropped' = [reason \in Reasons |-> dropped[reason] + Losses(rejected, failed)[reason]]
  BY <1>1 DEF Ending, Finish
<1>3. Pending' = Pending \ BatchRows(f)
  BY <1>2, PutDown
<1>. DEFINE S == BatchRows(f)
            A == S \cap Range(db)
<1>4. PICK h \in Nat, c \in Nat, k \in Nat :
         /\ h = Held(f) /\ c = CountedOf(flush[f]) /\ k = Cardinality(A)
         /\ c <= k /\ IsFiniteSet(A)
  BY Basics, TalliedAreStored DEF RowInv
<1>5. wrote <= c /\ wrote + rejected + failed = h
  BY <1>1, <1>4 DEF Ending
<1>6. IsFiniteSet(S) /\ Cardinality(S) = h /\ S \subseteq Pending
  BY <1>4, Basics DEF RowInv
<1>7. A \subseteq S
  OBVIOUS
<1>. HIDE DEF A, S
<1>8. PICK W \in SUBSET A : Cardinality(W) = wrote
  <2>1. wrote <= Cardinality(A)
    BY <1>4, <1>5
  <2>. QED
    BY <1>4, <2>1, SubsetOfSize
<1>9. Cardinality(S \ W) = rejected + failed
  <2>1. S \cap W = W
    BY <1>7, <1>8
  <2>2. /\ Cardinality(S \ W) \in Nat
        /\ Cardinality(S) = Cardinality(S \ W) + Cardinality(S \cap W)
    BY <1>6, SplitSize
  <2>3. Cardinality(S) = Cardinality(S \ W) + wrote
    BY <1>8, <2>1, <2>2
  <2>. QED
    BY <1>5, <1>6, <2>2, <2>3
<1>10. Total(dropped)' = Total(dropped) + (rejected + failed)
  <2>1. dropped \in [Reasons -> Nat]
    BY DEF IInv, TypeOK
  <2>2. /\ dropped'["queue_full"] = dropped["queue_full"]
        /\ dropped'["rejected"] = dropped["rejected"] + rejected
        /\ dropped'["write_failed"] = dropped["write_failed"] + failed
    BY <1>2, <2>1, LossesType DEF Reasons
  <2>. QED
    BY <2>1, <2>2 DEF Total, Reasons
<1>11. Log!Account(S, W)
  BY <1>2, <1>3, <1>6, <1>7, <1>8, <1>9, <1>10, LogSizes DEF Log!Account, S, A
<1>. QED
  BY <1>6, <1>8, <1>11 DEF A

\* Init of the writer is Init of the log.
LEMMA LogInitially == Init => Log!LogInit
<1>. SUFFICES ASSUME Init PROVE Log!LogInit
  OBVIOUS
<1>1. Range(queue) = {} /\ Range(db) = {} /\ \A f \in Flows : BatchRows(f) = {}
  BY EmptyInOrder, IdleRows DEF Init, BatchRows
<1>2. Pending = {}
  BY <1>1 DEF Pending
<1>3. Total(dropped) = 0
  BY DEF Init, Total, Reasons
<1>. QED
  BY <1>1, <1>2, <1>3 DEF Init, Log!LogInit

LEMMA LogStep == IInv /\ RowInv /\ [Next]_vars => [Log!LogNext]_(Log!logVars)
<1>. SUFFICES ASSUME IInv, RowInv, [Next]_vars PROVE Log!LogNext \/ UNCHANGED Log!logVars
  OBVIOUS
<1>1. ASSUME NEW u \in Users, Accept(u) PROVE Log!LogNext
  <2>1. /\ issued + 1 \in Rows /\ issued + 1 \notin Pending \cup Range(db)
        /\ Pending' = Pending \cup {issued + 1}
    BY <1>1, AcceptRows
  <2>2. arrivals' = arrivals + 1 /\ UNCHANGED <<db, written, dropped, abandoned>>
    BY <1>1 DEF Accept, Offered
  <2>3. Log!Offer(issued + 1)
    BY <2>1, <2>2 DEF Log!Offer
  <2>. QED
    BY <2>1, <2>3 DEF Log!LogNext
<1>2. ASSUME NEW u \in Users, Shed(u) PROVE Log!LogNext
  <2>1. Pending' = Pending
    BY <1>2, ShedRows
  <2>2. arrivals' = arrivals + 1 /\ UNCHANGED <<db, written, abandoned>>
        /\ dropped' = [dropped EXCEPT !["queue_full"] = @ + 1]
    BY <1>2 DEF Shed, Offered
  <2>3. dropped \in [Reasons -> Nat]
    BY DEF IInv, TypeOK
  <2>4. Total(dropped)' = Total(dropped) + 1
    BY <2>2, <2>3 DEF Total, Reasons
  <2>. QED
    BY <2>1, <2>2, <2>4 DEF Log!LogNext, Log!Shed
<1>3. CASE TakeBatch
  <2>1. Pending' = Pending
    BY <1>3, TakeBatchRows
  <2>. QED
    BY <1>3, <2>1 DEF TakeBatch, Log!logVars
<1>4. ASSUME NEW f \in Flows, Commit(f) PROVE Log!LogNext
  <2>. DEFINE S == Range(Statement(f))
  <2>1. Pending' = Pending
    BY <1>4, CommitRows
  <2>2. /\ Range(db') = Range(db) \cup S
        /\ UNCHANGED <<arrivals, written, dropped, abandoned>>
        /\ S \subseteq Unsent(f)
    BY <1>4, CommitEffect
  <2>3. S \subseteq Pending \ Range(db)
    BY <2>2, Basics DEF RowInv, PlacesOK, Absent
  <2>. HIDE DEF S
  <2>4. Log!Persist(S)
    BY <2>1, <2>2, <2>3 DEF Log!Persist
  <2>. QED
    BY <2>3, <2>4 DEF Log!LogNext
<1>5. ASSUME NEW f \in Flows, FlushStep(f) PROVE Log!LogNext \/ UNCHANGED Log!logVars
  <2>1. CASE BatchRefused(f) \/ RowWritten(f) \/ RowRefused(f)
    <3>1. Pending' = Pending
      BY <2>1, BatchRefusedRows, RowWrittenRows, RowRefusedRows
    <3>2. UNCHANGED <<db, arrivals, written, dropped, abandoned>>
      BY <2>1 DEF BatchRefused, RowWritten, RowRefused, Continue
    <3>. QED
      BY <3>1, <3>2 DEF Log!logVars
  <2>2. CASE BatchWritten(f) \/ BatchFailed(f) \/ RowsFailed(f) \/ RowsDone(f)
    BY <2>2, EndingAccounts DEF Log!LogNext
  <2>. QED
    BY <1>5, <2>1, <2>2 DEF FlushStep
<1>6. CASE Cancelled
  <2>. DEFINE f == "consumer"
              S == BatchRows(f)
  <2>1. /\ flush' = [flush EXCEPT ![f] = Idle] /\ f \in Flows
        /\ UNCHANGED <<queue, db, owner, arrivals, deletedUsers, written, dropped>>
        /\ abandoned' = abandoned + Held(f)
    BY <1>6 DEF Cancelled, Flows
  <2>. HIDE DEF f
  <2>2. Pending' = Pending \ S
    BY <2>1, PutDown
  <2>3. Cardinality(S) = Held(f) /\ S \subseteq Pending
    BY <2>1, Basics DEF RowInv
  <2>. HIDE DEF S
  <2>4. Log!Abandon(S)
    BY <2>1, <2>2, <2>3, LogSizes DEF Log!Abandon
  <2>. QED
    BY <2>3, <2>4 DEF Log!LogNext
<1>7. CASE StopDrain
  <2>1. Pending' = Pending
    BY <1>7, StopDrainRows
  <2>. QED
    BY <1>7, <2>1 DEF StopDrain, Log!logVars
<1>8. CASE FlushNow
  <2>1. Pending' = Pending
    BY <1>8, FlushNowRows
  <2>. QED
    BY <1>8, <2>1 DEF FlushNow, Log!logVars
<1>9. CASE Crash
  <2>1. Range(queue') = {} /\ \A f \in Flows : BatchRows(f)' = {}
    BY <1>9, EmptyInOrder, IdleRows DEF Crash, BatchRows
  <2>2. Pending' = {}
    BY <2>1 DEF Pending
  <2>3. Total(dropped)' = 0
    BY <1>9 DEF Crash, Total, Reasons
  <2>. QED
    BY <1>9, <2>2, <2>3 DEF Crash, Log!LogNext, Log!Die
<1>10. CASE Start \/ StopCancel \/ (\E u \in Users : DeleteUser(u)) \/ UNCHANGED vars
  <2>1. Pending' = Pending
    BY <1>10, BystanderRows
  <2>2. UNCHANGED <<db, arrivals, written, dropped, abandoned>>
    BY <1>10 DEF Start, StopCancel, DeleteUser, vars
  <2>. QED
    BY <2>1, <2>2 DEF Log!logVars
<1>. QED
  BY <1>1, <1>2, <1>3, <1>4, <1>5, <1>6, <1>7, <1>8, <1>9, <1>10 DEF Next, StopStep

\* The writer, with its queue, its three coroutines, its retry and its stop,
\* does what the log promises and nothing else.
THEOREM WriterKeepsThePromise == Spec => KeepsThePromise
<1>. QED
  BY LogInitially, LogStep, RowsInvariant, PTL DEF Spec, KeepsThePromise, Log!LogSpec

-----------------------------------------------------------------------------
(* One row's fate, as OutcomeReports takes it from the writer              *)

\* A report finds its row unknown, pending, stored or lost; a row that is in
\* the table is stored, whether it is counted already or not.
Fate(r) ==
    IF r \in Range(db) THEN "stored"
    ELSE IF r \in Pending THEN "pending"
    ELSE IF r <= issued THEN "lost"
    ELSE "unknown"

\* Predict, Store and Lose of OutcomeReports; a row that is shed is predicted
\* and lost at once.
Moves == {<<"unknown", "pending">>, <<"unknown", "lost">>,
          <<"pending", "stored">>, <<"pending", "lost">>}
Moved(r) == Fate(r)' = Fate(r) \/ <<Fate(r), Fate(r)'>> \in Moves

\* What a step does to a row follows from what it does to the table, to the
\* rows that are held and to the last number given.
LEMMA MovesWith ==
    ASSUME NEW r \in Rows, issued \in Nat, issued' \in {issued, issued + 1},
           Range(db) \subseteq Range(db'), Range(db') \subseteq Range(db) \cup Pending,
           Pending \subseteq 1..issued, Pending' \subseteq Pending \cup {issued + 1}
    PROVE  Moved(r)
<1>. DEFINE top == issued
<1>0. r \in Nat /\ top \in Nat /\ issued' \in Nat /\ top <= issued'
  BY RowsAreNumbers
<1>1. CASE r \in Range(db)
  <2>1. Fate(r) = "stored" /\ Fate(r)' = "stored"
    BY <1>1 DEF Fate
  <2>. QED
    BY <2>1 DEF Moved
<1>2. CASE r \notin Range(db) /\ r \in Pending
  <2>1. Fate(r) = "pending"
    BY <1>2 DEF Fate
  <2>2. r <= issued'
    BY <1>0, <1>2
  <2>3. r \in Range(db') => Fate(r)' = "stored"
    BY DEF Fate
  <2>4. r \notin Range(db') /\ r \in Pending' => Fate(r)' = "pending"
    BY DEF Fate
  <2>5. r \notin Range(db') /\ r \notin Pending' /\ r <= issued' => Fate(r)' = "lost"
    BY DEF Fate
  <2>6. Fate(r)' \in {"stored", "pending", "lost"}
    BY <2>2, <2>3, <2>4, <2>5
  <2>. QED
    BY <2>1, <2>6 DEF Moved, Moves
<1>3. CASE r \notin Range(db) /\ r \notin Pending /\ r <= issued
  <2>1. r # issued + 1 /\ r <= issued'
    BY <1>0, <1>3
  <2>2. r \notin Range(db') /\ r \notin Pending'
    BY <1>3, <2>1
  <2>3. Fate(r) = "lost" /\ Fate(r)' = "lost"
    BY <1>3, <2>1, <2>2 DEF Fate
  <2>. QED
    BY <2>3 DEF Moved
<1>4. CASE r \notin Range(db) /\ r \notin Pending /\ ~(r <= issued)
  <2>1. Fate(r) = "unknown" /\ r \notin Range(db')
    BY <1>4 DEF Fate
  <2>2. Fate(r)' \in {"unknown", "pending", "lost"}
    BY <2>1 DEF Fate
  <2>. QED
    BY <2>1, <2>2 DEF Moved, Moves
<1>. QED
  BY <1>1, <1>2, <1>3, <1>4

\* The log's step says what happens to the table.
LEMMA TableMoves ==
    ASSUME IInv, RowInv, [Next]_vars
    PROVE  Range(db) \subseteq Range(db') /\ Range(db') \subseteq Range(db) \cup Pending
<1>1. Log!LogNext \/ UNCHANGED Log!logVars
  BY LogStep
<1>2. Range(db)' = Range(db) \/ \E S \in SUBSET Pending : Range(db)' = Range(db) \cup S
  BY <1>1 DEF Log!LogNext, Log!logVars, Log!Offer, Log!Shed, Log!Persist, Log!Account,
              Log!Abandon, Log!Die
<1>. QED
  BY <1>2

\* Only an offer brings a row in, and it brings the next one.
LEMMA HeldMoves ==
    ASSUME IInv, RowInv, [Next]_vars
    PROVE  /\ issued' \in {issued, issued + 1}
           /\ Pending' \subseteq Pending \cup {issued + 1}
<1>1. ASSUME NEW u \in Users, Accept(u) \/ Shed(u)
      PROVE  issued' = issued + 1 /\ Pending' \subseteq Pending \cup {issued + 1}
  <2>1. owner' = Append(owner, u) /\ owner \in Seq(Users)
    BY <1>1 DEF IInv, TypeOK, Accept, Shed, Offered
  <2>2. issued' = issued + 1
    BY <2>1 DEF issued
  <2>. QED
    BY <1>1, <2>2, AcceptRows, ShedRows
<1>2. CASE TakeBatch \/ StopDrain \/ FlushNow \/ (\E f \in Flows : Commit(f))
  <2>1. Pending' = Pending
    BY <1>2, TakeBatchRows, StopDrainRows, FlushNowRows, CommitRows
  <2>2. owner' = owner
    BY <1>2 DEF TakeBatch, StopDrain, FlushNow, Commit
  <2>. QED
    BY <2>1, <2>2 DEF issued
<1>3. ASSUME NEW f \in Flows, BatchRefused(f) \/ RowWritten(f) \/ RowRefused(f)
      PROVE  Pending' = Pending /\ owner' = owner
  <2>1. Pending' = Pending
    BY <1>3, BatchRefusedRows, RowWrittenRows, RowRefusedRows
  <2>. QED
    BY <1>3, <2>1 DEF BatchRefused, RowWritten, RowRefused, Continue
<1>4. ASSUME NEW f \in Flows,
             BatchWritten(f) \/ BatchFailed(f) \/ RowsFailed(f) \/ RowsDone(f)
      PROVE  Pending' \subseteq Pending /\ owner' = owner
  <2>1. PICK wrote \in Nat, rejected \in Nat, failed \in Nat :
           Ending(f, wrote, rejected, failed)
    BY <1>4, EndingCounts
  <2>2. /\ flush' = [flush EXCEPT ![f] = Idle]
        /\ UNCHANGED <<queue, db, owner, arrivals, deletedUsers>>
    BY <2>1 DEF Ending, Finish
  <2>3. Pending' = Pending \ BatchRows(f)
    BY <2>2, PutDown
  <2>. QED
    BY <2>2, <2>3
<1>5. CASE Cancelled
  <2>. DEFINE f == "consumer"
  <2>1. /\ flush' = [flush EXCEPT ![f] = Idle] /\ f \in Flows
        /\ UNCHANGED <<queue, db, owner, arrivals, deletedUsers>>
    BY <1>5 DEF Cancelled, Flows
  <2>. HIDE DEF f
  <2>2. Pending' = Pending \ BatchRows(f)
    BY <2>1, PutDown
  <2>. QED
    BY <2>1, <2>2 DEF issued
<1>6. CASE Crash
  <2>1. Range(queue') = {} /\ \A f \in Flows : BatchRows(f)' = {}
    BY <1>6, EmptyInOrder, IdleRows DEF Crash, BatchRows
  <2>2. Pending' = {}
    BY <2>1 DEF Pending
  <2>. QED
    BY <1>6, <2>2 DEF Crash, issued
<1>7. CASE Start \/ StopCancel \/ (\E u \in Users : DeleteUser(u)) \/ UNCHANGED vars
  <2>1. Pending' = Pending
    BY <1>7, BystanderRows
  <2>2. owner' = owner
    BY <1>7 DEF Start, StopCancel, DeleteUser, vars
  <2>. QED
    BY <2>1, <2>2 DEF issued
<1>8. ASSUME NEW f \in Flows, FlushStep(f)
      PROVE  issued' = issued /\ Pending' \subseteq Pending
  BY <1>3, <1>4, <1>8 DEF FlushStep, issued
<1>. QED
  BY <1>1, <1>2, <1>5, <1>6, <1>7, <1>8 DEF Next, StopStep

\* Whatever happens to a prediction in the writer is what OutcomeReports lets
\* happen to it: it is offered, then stored or lost, for good.
THEOREM FatesAreThoseOfTheReports == Spec => [][\A r \in Rows : Moved(r)]_vars
<1>1. ASSUME IInv, RowInv, [Next]_vars, NEW r \in Rows PROVE Moved(r)
  <2>1. issued \in Nat /\ Pending \subseteq 1..issued
    BY <1>1, Basics DEF RowInv, PlacesOK, Known, ThisProcess
  <2>2. /\ issued' \in {issued, issued + 1} /\ Pending' \subseteq Pending \cup {issued + 1}
        /\ Range(db) \subseteq Range(db') /\ Range(db') \subseteq Range(db) \cup Pending
    BY <1>1, HeldMoves, TableMoves
  <2>. QED
    BY ONLY <2>1, <2>2, MovesWith
<1>2. IInv /\ RowInv /\ [Next]_vars => [\A r \in Rows : Moved(r)]_vars
  BY <1>1
<1>. QED
  BY <1>2, RowsInvariant, PTL DEF Spec
=============================================================================
