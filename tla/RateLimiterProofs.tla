--------------------------- MODULE RateLimiterProofs ---------------------------
(***************************************************************************)
(* Theorems about RateLimiter, for any number of requests and clients, any *)
(* limit and any window no shorter than the clock skew and the timeouts    *)
(* together.                                                               *)
(*                                                                         *)
(* The argument for LimitHolds: while a request of window b may still wait *)
(* for its INCR, now is before FreshUntil of its key, and until then the   *)
(* counter has not expired.  So it only grows, and the replies of the      *)
(* requests that wait for them are all different.                          *)
(***************************************************************************)
EXTENDS RateLimiter, FiniteSetTheorems, TLAPS

Counted(p) == wire[p] \in {"expire", "done"}

\* The earliest moment at which the counter of a window may be gone.
FreshUntil(k) == k[2] * Window + Ttl - MaxSkew
Fresh(k) == now < FreshUntil(k)

CallersOK ==
    \A p \in Requests :
        /\ at[p] = "idle" <=> wire[p] = "nothing"
        /\ at[p] \in {"served", "refused"} => wire[p] = "done"
        /\ at[p] # "idle" =>
             since[p] <= now /\ since[p] <= read[p] /\ read[p] <= since[p] + MaxSkew
        /\ at[p] = "waiting" => now <= since[p] + Patience

\* No counter is lost to its expiry while its window needs it.
CountersKept ==
    \A k \in Keys : counter[k] > 0 => expires[k] = NoTtl \/ expires[k] >= FreshUntil(k)

RepliesOK ==
    \A p \in Requests : Counted(p) =>
        /\ reply[p] > 0
        /\ life[p] <= restarts
        /\ life[p] = restarts /\ Fresh(KeyOf(p)) => reply[p] <= counter[KeyOf(p)]

Rivals(p, q) ==
    /\ p # q
    /\ Counted(p) /\ Counted(q)
    /\ at[p] # "let_through" /\ at[q] # "let_through"
    /\ KeyOf(p) = KeyOf(q)
    /\ life[p] = life[q]

RepliesDiffer == \A p, q \in Requests : Rivals(p, q) => reply[p] # reply[q]

ServedInLimit == \A p \in Requests : at[p] = "served" => reply[p] <= Limit

IInv ==
    /\ TypeOK
    /\ CallersOK
    /\ CountersKept
    /\ RepliesOK
    /\ RepliesDiffer
    /\ ServedInLimit
    /\ CountersExpire

-----------------------------------------------------------------------------
(* Windows, keys and time                                                  *)

\* The window a time falls into, and its bounds.
LEMMA BucketBounds ==
    ASSUME NEW t \in Nat
    PROVE  /\ Bucket(t) \in Nat
           /\ Bucket(t) * Window <= t
           /\ t < Bucket(t) * Window + Window
BY LimiterAssumption DEF Bucket

LEMMA BucketType ==
    ASSUME NEW t \in 0..(MaxTime + MaxSkew) PROVE Bucket(t) \in Buckets
<1>. DEFINE m == MaxTime + MaxSkew
            b == Bucket(t)
            c == Bucket(m)
<1>1. m \in Nat /\ t \in Nat /\ t <= m
  BY LimiterAssumption
<1>2. /\ b \in Nat /\ c \in Nat
      /\ b * Window <= t /\ m < c * Window + Window
  BY <1>1, BucketBounds
<1>. HIDE DEF b, c, m
<1>3. b <= c
  <2>. SUFFICES ASSUME b >= c + 1 PROVE FALSE
    BY <1>2
  <2>1. b * Window >= (c + 1) * Window
    BY <1>2, LimiterAssumption
  <2>2. (c + 1) * Window = c * Window + Window
    BY <1>2, LimiterAssumption
  <2>3. b * Window \in Int /\ c * Window \in Int
    BY <1>2, LimiterAssumption
  <2>. QED
    BY <1>1, <1>2, <2>1, <2>2, <2>3, LimiterAssumption
<1>4. c = m \div Window
  BY DEF c, m, Bucket
<1>. QED
  BY <1>2, <1>3, <1>4 DEF Buckets, b, m

LEMMA KeyType ==
    ASSUME TypeOK, NEW p \in Requests
    PROVE  KeyOf(p) \in Keys /\ KeyOf(p)[2] = Bucket(read[p])
BY BucketType DEF TypeOK, KeyOf, Keys

LEMMA FreshType ==
    ASSUME NEW k \in Keys
    PROVE  k[2] * Window \in Nat /\ FreshUntil(k) \in Int
BY LimiterAssumption DEF Keys, Buckets, FreshUntil, Ttl

\* A request that still waits finds its counter in its window.
LEMMA WaitingIsFresh ==
    ASSUME TypeOK, CallersOK, NEW p \in Requests, at[p] = "waiting"
    PROVE  Fresh(KeyOf(p))
<1>. DEFINE t == read[p]
            e == Bucket(t) * Window
<1>1. /\ now \in Nat /\ since[p] \in Nat /\ t \in Nat
      /\ since[p] <= t /\ now <= since[p] + Patience
  BY LimiterAssumption DEF TypeOK, CallersOK
<1>2. e \in Nat /\ t < e + Window
  BY <1>1, BucketBounds, LimiterAssumption
<1>3. FreshUntil(KeyOf(p)) = e + 2 * Window - MaxSkew
  BY KeyType DEF FreshUntil, Ttl
<1>. HIDE DEF e, t
<1>. QED
  BY <1>1, <1>2, <1>3, LimiterAssumption, TimingAssumption DEF Fresh

\* While a key is fresh its counter has not expired.
LEMMA FreshIsLive ==
    ASSUME TypeOK, CountersKept, NEW k \in Keys, Fresh(k)
    PROVE  Live(k) = counter[k]
<1>1. now \in Nat /\ counter[k] \in Nat /\ expires[k] \in Nat /\ FreshUntil(k) \in Int
  BY FreshType DEF TypeOK
<1>. QED
  BY <1>1 DEF CountersKept, Fresh, Live

LEMMA LiveType == ASSUME TypeOK, NEW k \in Keys PROVE Live(k) \in Nat
BY DEF TypeOK, Live

\* Whatever a request's EXPIRE does, it does after the request's clock reading.
LEMMA ExpiryIsLate ==
    ASSUME TypeOK, CallersOK, NEW p \in Requests, at[p] # "idle"
    PROVE  now + Ttl >= FreshUntil(KeyOf(p)) /\ now + Ttl \in Nat /\ now + Ttl # NoTtl
<1>. DEFINE t == read[p]
            e == Bucket(t) * Window
<1>1. /\ now \in Nat /\ since[p] \in Nat /\ t \in Nat
      /\ since[p] <= now /\ t <= since[p] + MaxSkew
  BY LimiterAssumption DEF TypeOK, CallersOK
<1>2. e \in Nat /\ e <= t
  BY <1>1, BucketBounds, LimiterAssumption
<1>3. FreshUntil(KeyOf(p)) = e + Ttl - MaxSkew
  BY KeyType DEF FreshUntil
<1>4. Ttl \in Nat /\ Ttl > 0
  BY LimiterAssumption DEF Ttl
<1>. HIDE DEF e, t
<1>. QED
  BY <1>1, <1>2, <1>3, <1>4, LimiterAssumption DEF NoTtl

-----------------------------------------------------------------------------
(* Each action preserves the invariant                                     *)

LEMMA InitInv == Init => IInv
<1>. SUFFICES ASSUME Init PROVE IInv
  OBVIOUS
<1>1. TypeOK
  BY LimiterAssumption DEF Init, TypeOK, NoTtl
<1>. QED
  BY <1>1 DEF Init, IInv, CallersOK, CountersKept, RepliesOK, RepliesDiffer, Rivals,
     ServedInLimit, CountersExpire, Counted

LEMMA BeginInv == ASSUME IInv, NEW p \in Requests, Begin(p) PROVE IInv'
<1>1. PICK skew \in 0..MaxSkew : read' = [read EXCEPT ![p] = now + skew]
  BY DEF Begin
<1>2. /\ \A q \in Requests \ {p} :
           /\ at'[q] = at[q] /\ wire'[q] = wire[q]
           /\ read'[q] = read[q] /\ since'[q] = since[q]
      /\ at'[p] = "waiting" /\ wire'[p] = "incr"
      /\ read'[p] = now + skew /\ since'[p] = now
      /\ at[p] = "idle" /\ wire[p] = "nothing"
      /\ UNCHANGED <<now, client, reply, counter, expires, restarts, life>>
  BY <1>1 DEF IInv, TypeOK, CallersOK, Begin
<1>3. /\ now \in Nat /\ now <= MaxTime
      /\ now + skew \in 0..(MaxTime + MaxSkew)
      /\ now <= now + skew /\ now + skew <= now + MaxSkew /\ now <= now + Patience
  BY LimiterAssumption DEF IInv, TypeOK
<1>4. TypeOK'
  BY <1>1, <1>3 DEF IInv, TypeOK, Begin
<1>5. CallersOK'
  BY <1>2, <1>3 DEF IInv, CallersOK
<1>6. CountersKept'
  BY <1>2 DEF IInv, CountersKept, FreshUntil
<1>7. \A q \in Requests : Counted(q)' => q # p /\ Counted(q) /\ KeyOf(q)' = KeyOf(q)
  BY <1>2 DEF Counted, KeyOf
<1>8. RepliesOK'
  BY <1>2, <1>7 DEF IInv, RepliesOK, Fresh, FreshUntil
<1>9. RepliesDiffer'
  BY <1>2, <1>7 DEF IInv, RepliesDiffer, Rivals
<1>10. ServedInLimit'
  BY <1>2 DEF IInv, ServedInLimit
<1>11. CountersExpire'
  <2>. SUFFICES ASSUME NEW k \in Keys, counter[k] > 0, expires[k] = NoTtl
                PROVE  \E q \in Requests : KeyOf(q)' = k /\ wire'[q] = "expire"
    BY <1>2 DEF CountersExpire
  <2>1. PICK q \in Requests : KeyOf(q) = k /\ wire[q] = "expire"
    BY DEF IInv, CountersExpire
  <2>. QED
    BY <1>2, <2>1 DEF KeyOf
<1>. QED
  BY <1>4, <1>5, <1>6, <1>8, <1>9, <1>10, <1>11 DEF IInv

\* The reply of a request that still waits is greater than all those before it.
LEMMA IncrInv == ASSUME IInv, NEW p \in Requests, Incr(p) PROVE IInv'
<1>. DEFINE key == KeyOf(p)
            n == Live(key) + 1
<1>1. key \in Keys /\ n \in Nat /\ n > 0
  BY KeyType, LiveType DEF IInv
<1>2. /\ \A q \in Requests \ {p} :
           wire'[q] = wire[q] /\ reply'[q] = reply[q] /\ life'[q] = life[q]
      /\ wire[p] = "incr" /\ wire'[p] = "expire"
      /\ reply'[p] = n /\ life'[p] = restarts
      /\ \A k \in Keys : counter'[k] = IF k = key THEN n ELSE counter[k]
      /\ \A k \in Keys :
           expires'[k] = IF k = key /\ Live(key) = 0 THEN NoTtl ELSE expires[k]
      /\ UNCHANGED <<now, at, client, read, since, restarts>>
      /\ \A q \in Requests : KeyOf(q)' = KeyOf(q)
  BY <1>1 DEF IInv, TypeOK, Incr, KeyOf
<1>3. TypeOK'
  BY <1>1 DEF IInv, TypeOK, Incr, NoTtl
<1>. HIDE DEF key, n
<1>4. CallersOK'
  BY <1>2 DEF IInv, CallersOK
<1>5. CountersKept'
  <2>. SUFFICES ASSUME NEW k \in Keys, counter'[k] > 0
                PROVE  expires'[k] = NoTtl \/ expires'[k] >= FreshUntil(k)
    BY DEF CountersKept, FreshUntil
  <2>1. CASE k = key /\ Live(key) = 0
    BY <1>2, <2>1
  <2>2. CASE k = key /\ Live(key) # 0
    BY <1>1, <1>2, <2>2 DEF IInv, TypeOK, CountersKept, Live
  <2>3. CASE k # key
    BY <1>2, <2>3 DEF IInv, CountersKept
  <2>. QED
    BY <2>1, <2>2, <2>3
<1>6. \A k \in Keys : Fresh(k)' = Fresh(k)
  BY <1>2 DEF Fresh, FreshUntil
<1>7. \A k \in Keys : Fresh(k) => counter[k] \in Nat /\ counter'[k] >= counter[k]
  BY <1>1, <1>2, FreshIsLive DEF IInv, TypeOK, n
<1>8. RepliesOK'
  <2>. SUFFICES ASSUME NEW q \in Requests, Counted(q)'
                PROVE  /\ reply'[q] > 0
                       /\ life'[q] <= restarts
                       /\ life'[q] = restarts /\ Fresh(KeyOf(q)) =>
                            reply'[q] <= counter'[KeyOf(q)]
    BY <1>2, <1>6, KeyType DEF IInv, RepliesOK
  <2>1. restarts \in Nat /\ KeyOf(q) \in Keys /\ reply[q] \in Nat
    BY KeyType, LimiterAssumption DEF IInv, TypeOK
  <2>2. CASE q = p
    BY <1>1, <1>2, <2>1, <2>2 DEF key
  <2>3. CASE q # p
    BY <1>2, <1>3, <1>7, <2>1, <2>3 DEF IInv, RepliesOK, Counted, TypeOK
  <2>. QED
    BY <2>2, <2>3
<1>9. \A q \in Requests : Rivals(p, q)' => reply[q] < n /\ q # p
  <2>. SUFFICES ASSUME NEW q \in Requests, Rivals(p, q)' PROVE reply[q] < n /\ q # p
    OBVIOUS
  <2>1. /\ q # p /\ Counted(q) /\ KeyOf(q) = key /\ life[q] = restarts
        /\ at[p] # "let_through"
    BY <1>2 DEF Rivals, Counted, key
  <2>2. at[p] = "waiting"
    BY <1>2, <2>1 DEF IInv, TypeOK, CallersOK
  <2>3. Fresh(key)
    BY <2>2, WaitingIsFresh DEF IInv, key
  <2>4. reply[q] <= counter[key]
    BY <2>1, <2>3 DEF IInv, RepliesOK
  <2>5. Live(key) = counter[key] /\ counter[key] \in Nat /\ reply[q] \in Nat
    BY <1>1, <2>3, FreshIsLive DEF IInv, TypeOK
  <2>. QED
    BY <2>1, <2>4, <2>5 DEF n
<1>10. RepliesDiffer'
  <2>. SUFFICES ASSUME NEW q \in Requests, NEW r \in Requests, Rivals(q, r)'
                PROVE  reply'[q] # reply'[r]
    BY DEF RepliesDiffer
  <2>1. reply[q] \in Nat /\ reply[r] \in Nat
    BY DEF IInv, TypeOK
  <2>2. CASE q = p
    BY <1>1, <1>2, <1>9, <2>1, <2>2
  <2>3. CASE r = p
    <3>1. Rivals(p, q)'
      BY <2>3 DEF Rivals
    <3>. QED
      BY <1>1, <1>2, <1>9, <2>1, <2>3, <3>1
  <2>4. CASE q # p /\ r # p
    <3>1. Rivals(q, r)
      BY <1>2, <2>4 DEF Rivals, Counted
    <3>. QED
      BY <1>2, <2>4, <3>1 DEF IInv, RepliesDiffer
  <2>. QED
    BY <2>2, <2>3, <2>4
<1>11. ServedInLimit'
  BY <1>2 DEF IInv, CallersOK, ServedInLimit
<1>12. CountersExpire'
  <2>. SUFFICES ASSUME NEW k \in Keys, counter'[k] > 0, expires'[k] = NoTtl
                PROVE  \E q \in Requests : KeyOf(q) = k /\ wire'[q] = "expire"
    BY <1>2 DEF CountersExpire
  <2>1. CASE k = key
    BY <1>2, <2>1 DEF key
  <2>2. CASE k # key
    BY <1>2, <2>2 DEF IInv, CountersExpire
  <2>. QED
    BY <2>1, <2>2
<1>. QED
  BY <1>3, <1>4, <1>5, <1>8, <1>10, <1>11, <1>12 DEF IInv

LEMMA ExpireInv == ASSUME IInv, NEW p \in Requests, Expire(p) PROVE IInv'
<1>. DEFINE key == KeyOf(p)
<1>1. key \in Keys /\ at[p] # "idle"
  BY KeyType DEF IInv, CallersOK, Expire
<1>2. now + Ttl >= FreshUntil(key) /\ now + Ttl \in Nat /\ now + Ttl # NoTtl
  BY <1>1, ExpiryIsLate DEF IInv
<1>3. /\ \A q \in Requests \ {p} : wire'[q] = wire[q]
      /\ wire[p] = "expire" /\ wire'[p] = "done"
      /\ \A k \in Keys :
           expires'[k] = IF k = key /\ Live(key) > 0 THEN now + Ttl ELSE expires[k]
      /\ UNCHANGED <<now, at, client, read, since, reply, counter, restarts, life>>
      /\ \A q \in Requests : KeyOf(q)' = KeyOf(q)
  BY <1>1 DEF IInv, TypeOK, Expire, KeyOf
<1>4. TypeOK'
  BY <1>1, <1>2 DEF IInv, TypeOK, Expire
<1>. HIDE DEF key
<1>5. CallersOK'
  BY <1>3 DEF IInv, CallersOK
<1>6. CountersKept'
  BY <1>2, <1>3 DEF IInv, CountersKept, FreshUntil
<1>7. \A q \in Requests : Counted(q)' = Counted(q)
  BY <1>3 DEF Counted
<1>8. RepliesOK'
  BY <1>3, <1>7 DEF IInv, RepliesOK, Fresh, FreshUntil
<1>9. RepliesDiffer'
  BY <1>3, <1>7 DEF IInv, RepliesDiffer, Rivals
<1>10. ServedInLimit'
  BY <1>3 DEF IInv, ServedInLimit
<1>11. CountersExpire'
  <2>. SUFFICES ASSUME NEW k \in Keys, counter[k] > 0, expires'[k] = NoTtl
                PROVE  \E q \in Requests : KeyOf(q) = k /\ wire'[q] = "expire"
    BY <1>3 DEF CountersExpire
  <2>1. expires[k] = NoTtl
    BY <1>2, <1>3
  <2>2. Live(k) = counter[k]
    BY <2>1 DEF Live
  <2>3. k # key
    BY <1>2, <1>3, <2>2
  <2>4. PICK q \in Requests : KeyOf(q) = k /\ wire[q] = "expire"
    BY <2>1 DEF IInv, CountersExpire
  <2>. QED
    BY <1>3, <2>3, <2>4 DEF key
<1>. QED
  BY <1>4, <1>5, <1>6, <1>8, <1>9, <1>10, <1>11 DEF IInv

\* Only a request that got its reply within the limit is served.
LEMMA CallerInv ==
    ASSUME IInv, NEW p \in Requests, Answer(p) \/ FailOpen(p) PROVE IInv'
<1>1. /\ \A q \in Requests \ {p} : at'[q] = at[q]
      /\ at[p] = "waiting" /\ at'[p] \in {"served", "refused", "let_through"}
      /\ at'[p] \in {"served", "refused"} => wire[p] = "done"
      /\ at'[p] = "served" => ~Over(reply[p])
      /\ UNCHANGED <<now, wire, client, read, since, reply, counter, expires, restarts, life>>
      /\ \A q \in Requests : KeyOf(q)' = KeyOf(q)
  BY DEF IInv, TypeOK, Answer, FailOpen, KeyOf
<1>2. TypeOK'
  BY DEF IInv, TypeOK, Answer, FailOpen
<1>3. CallersOK'
  BY <1>1 DEF IInv, CallersOK
<1>4. CountersKept'
  BY <1>1 DEF IInv, CountersKept, FreshUntil
<1>5. RepliesOK'
  BY <1>1 DEF IInv, RepliesOK, Counted, Fresh, FreshUntil
<1>6. RepliesDiffer'
  BY <1>1 DEF IInv, RepliesDiffer, Rivals, Counted
<1>7. ServedInLimit'
  BY <1>1, LimiterAssumption DEF IInv, TypeOK, ServedInLimit, Over
<1>8. CountersExpire'
  BY <1>1 DEF IInv, CountersExpire
<1>. QED
  BY <1>2, <1>3, <1>4, <1>5, <1>6, <1>7, <1>8 DEF IInv

LEMMA RestartInv == ASSUME IInv, Restart PROVE IInv'
<1>1. /\ restarts' = restarts + 1 /\ restarts \in Nat
      /\ \A k \in Keys : counter'[k] = 0
      /\ UNCHANGED <<now, at, wire, client, read, since, reply, life>>
      /\ \A q \in Requests : KeyOf(q)' = KeyOf(q) /\ KeyOf(q) \in Keys
  BY KeyType, LimiterAssumption DEF IInv, TypeOK, Restart, KeyOf
<1>2. TypeOK'
  BY LimiterAssumption DEF IInv, TypeOK, Restart, NoTtl
<1>3. CallersOK'
  BY <1>1 DEF IInv, CallersOK
<1>4. CountersKept' /\ CountersExpire'
  BY <1>1 DEF CountersKept, CountersExpire
<1>5. RepliesOK'
  BY <1>1 DEF IInv, TypeOK, RepliesOK, Counted
<1>6. RepliesDiffer'
  BY <1>1 DEF IInv, RepliesDiffer, Rivals, Counted
<1>7. ServedInLimit'
  BY <1>1 DEF IInv, ServedInLimit
<1>. QED
  BY <1>2, <1>3, <1>4, <1>5, <1>6, <1>7 DEF IInv

\* A key that is fresh after a tick was fresh before.
LEMMA TickInv == ASSUME IInv, Tick PROVE IInv'
<1>1. /\ now' = now + 1 /\ now \in Nat /\ now' \in 0..MaxTime
      /\ \A q \in Requests : at[q] = "waiting" => now < since[q] + Patience
      /\ UNCHANGED <<at, wire, client, read, since, reply, counter, expires, restarts, life>>
      /\ \A q \in Requests : KeyOf(q)' = KeyOf(q) /\ KeyOf(q) \in Keys
  BY KeyType, LimiterAssumption DEF IInv, TypeOK, Tick, KeyOf
<1>2. TypeOK'
  BY <1>1 DEF IInv, TypeOK
<1>3. CallersOK'
  <2>. SUFFICES ASSUME NEW q \in Requests, at[q] # "idle"
                PROVE  /\ since[q] <= now + 1
                       /\ at[q] = "waiting" => now + 1 <= since[q] + Patience
    BY <1>1 DEF IInv, CallersOK
  <2>1. since[q] \in Nat
    BY LimiterAssumption DEF IInv, TypeOK
  <2>. QED
    BY <1>1, <2>1, LimiterAssumption DEF IInv, CallersOK
<1>4. CountersKept'
  BY <1>1 DEF IInv, CountersKept, FreshUntil
<1>5. \A k \in Keys : Fresh(k)' => Fresh(k)
  BY <1>1, FreshType DEF Fresh, FreshUntil
<1>6. RepliesOK'
  BY <1>1, <1>5 DEF IInv, RepliesOK, Counted
<1>7. RepliesDiffer'
  BY <1>1 DEF IInv, RepliesDiffer, Rivals, Counted
<1>8. ServedInLimit' /\ CountersExpire'
  BY <1>1 DEF IInv, ServedInLimit, CountersExpire
<1>. QED
  BY <1>2, <1>3, <1>4, <1>6, <1>7, <1>8 DEF IInv

-----------------------------------------------------------------------------
(* Theorems                                                                *)

\* Every step of the limiter, of Redis and of time preserves the invariant.
THEOREM Inductive == IInv /\ [Next]_vars => IInv'
<1>. SUFFICES ASSUME IInv, [Next]_vars PROVE IInv'
  OBVIOUS
<1>1. ASSUME NEW p \in Requests, Begin(p) PROVE IInv'
  BY <1>1, BeginInv
<1>2. ASSUME NEW p \in Requests, Incr(p) PROVE IInv'
  BY <1>2, IncrInv
<1>3. ASSUME NEW p \in Requests, Expire(p) PROVE IInv'
  BY <1>3, ExpireInv
<1>4. ASSUME NEW p \in Requests, Answer(p) \/ FailOpen(p) PROVE IInv'
  BY <1>4, CallerInv
<1>5. CASE Restart
  BY <1>5, RestartInv
<1>6. CASE Tick
  BY <1>6, TickInv
<1>7. CASE UNCHANGED vars
  BY <1>7 DEF vars, IInv, TypeOK, CallersOK, CountersKept, FreshUntil, RepliesOK, Fresh,
     RepliesDiffer, Rivals, Counted, ServedInLimit, CountersExpire, KeyOf
<1>. QED
  BY <1>1, <1>2, <1>3, <1>4, <1>5, <1>6, <1>7 DEF Next

LEMMA Invariant == Spec => []IInv
BY InitInv, Inductive, PTL DEF Spec

\* The replies of the requests served in one window, of one client, are
\* different numbers from 1 to Limit, so there are no more than Limit of them.
LEMMA LimitFromReplies == IInv => LimitHolds
<1>. SUFFICES ASSUME IInv, NEW c \in Clients, NEW b \in Buckets, NEW n \in 0..MaxRestarts
              PROVE  Cardinality({p \in Requests : at[p] = "served" /\ InWindow(p, c, b)
                                                    /\ life[p] = n}) <= Limit
  BY DEF LimitHolds
<1>. DEFINE S == {p \in Requests : at[p] = "served" /\ InWindow(p, c, b) /\ life[p] = n}
            f == [p \in S |-> reply[p]]
<1>1. \A p \in S : Counted(p) /\ KeyOf(p) = <<c, b>>
  BY DEF IInv, CallersOK, Counted, InWindow, KeyOf, Bucket
<1>2. \A p \in S : reply[p] \in 1..Limit
  BY <1>1, LimiterAssumption DEF IInv, TypeOK, RepliesOK, ServedInLimit
<1>3. \A p, q \in S : p # q => reply[p] # reply[q]
  BY <1>1 DEF IInv, RepliesDiffer, Rivals
<1>4. f \in Injection(S, 1..Limit)
  BY <1>2, <1>3 DEF Injection, IsInjective
<1>5. IsFiniteSet(1..Limit) /\ Cardinality(1..Limit) = Limit
  BY FS_Interval, LimiterAssumption
<1>. HIDE DEF S, f
<1>6. Cardinality(S) <= Limit
  BY <1>4, <1>5, FS_Injection
<1>. QED
  BY <1>6 DEF S

\* The variables keep their types, for every value of the constants.
THEOREM TypeCorrect == Spec => []TypeOK
<1>1. IInv => TypeOK
  BY DEF IInv
<1>. QED
  BY <1>1, Invariant, PTL

\* In one window no client has more than Limit requests served by the limiter's
\* own count, on any number of replicas, as long as clock skew and timeouts fit
\* in a window: the counter outlives the last request that needs it.
THEOREM LimitHoldsAlways == Spec => []LimitHolds
BY LimitFromReplies, Invariant, PTL

\* A counter without an expiry has a request whose EXPIRE is still to come.
THEOREM CountersExpireHolds == Spec => []CountersExpire
<1>1. IInv => CountersExpire
  BY DEF IInv
<1>. QED
  BY <1>1, Invariant, PTL

-----------------------------------------------------------------------------
(* Nobody is refused without cause: a second invariant on top of the first *)

CountedOn(k) == {q \in Requests : Counted(q) /\ KeyOf(q) = k}

\* No request is counted twice, nor under a key that is not its own.
CountsHonest ==
    /\ \A k \in Keys : counter[k] <= Cardinality(CountedOn(k))
    /\ \A p \in Requests : Counted(p) => reply[p] <= Cardinality(CountedOn(KeyOf(p)))

RefusedOverLimit == \A p \in Requests : at[p] = "refused" => reply[p] > Limit

CauseInv == CountsHonest /\ RefusedOverLimit

LEMMA CountedOnType ==
    ASSUME NEW k PROVE IsFiniteSet(CountedOn(k)) /\ Cardinality(CountedOn(k)) \in Nat
<1>1. CountedOn(k) \in SUBSET Requests
  BY DEF CountedOn
<1>. QED
  BY <1>1, LimiterAssumption, FS_Subset, FS_CardinalityType

LEMMA CauseInit == Init => CauseInv
<1>. SUFFICES ASSUME Init PROVE CauseInv
  OBVIOUS
<1>1. \A k \in Keys : counter[k] = 0 /\ Cardinality(CountedOn(k)) \in Nat
  BY CountedOnType DEF Init
<1>2. \A p \in Requests : ~Counted(p) /\ at[p] # "refused"
  BY DEF Init, Counted
<1>. QED
  BY <1>1, <1>2 DEF CauseInv, CountsHonest, RefusedOverLimit

\* A step that runs no INCR counts nobody anew.
LEMMA CauseUncounted ==
    ASSUME IInv, IInv', CauseInv,
           \A q \in Requests : Counted(q)' = Counted(q),
           \A q \in Requests : Counted(q) => KeyOf(q)' = KeyOf(q),
           \A k \in Keys : counter'[k] = counter[k] \/ counter'[k] = 0,
           reply' = reply,
           \A q \in Requests : at'[q] = "refused" => at[q] = "refused" \/ reply[q] > Limit
    PROVE  CauseInv'
<1>1. \A k \in Keys : CountedOn(k)' = CountedOn(k)
  BY DEF CountedOn
<1>2. \A k \in Keys : Cardinality(CountedOn(k)) \in Nat
  BY CountedOnType
<1>3. ASSUME NEW k \in Keys PROVE counter'[k] <= Cardinality(CountedOn(k)')
  <2>1. CountedOn(k)' = CountedOn(k) /\ Cardinality(CountedOn(k)) \in Nat
    BY <1>1, <1>2
  <2>2. counter[k] <= Cardinality(CountedOn(k))
    BY DEF CauseInv, CountsHonest
  <2>. QED
    BY <2>1, <2>2
<1>4. ASSUME NEW p \in Requests, Counted(p)'
      PROVE  reply'[p] <= Cardinality(CountedOn(KeyOf(p)))'
  <2>1. Counted(p) /\ KeyOf(p)' = KeyOf(p) /\ KeyOf(p) \in Keys
    BY <1>4, KeyType DEF IInv
  <2>2. (CountedOn(KeyOf(p)))' = CountedOn(KeyOf(p))
    BY <2>1 DEF CountedOn
  <2>3. reply[p] <= Cardinality(CountedOn(KeyOf(p)))
    BY <2>1 DEF CauseInv, CountsHonest
  <2>. QED
    BY <2>2, <2>3
<1>5. CountsHonest'
  BY <1>3, <1>4 DEF CountsHonest
<1>6. RefusedOverLimit'
  BY DEF CauseInv, RefusedOverLimit
<1>. QED
  BY <1>5, <1>6 DEF CauseInv

\* An INCR raises one counter by one and counts one request more under it.
LEMMA CauseIncr ==
    ASSUME IInv, CauseInv, NEW p \in Requests, Incr(p) PROVE CauseInv'
<1>. DEFINE key == KeyOf(p)
            S(k) == CountedOn(k)
<1>1. key \in Keys /\ Live(key) \in Nat /\ counter[key] \in Nat /\ Live(key) <= counter[key]
  BY KeyType, LiveType DEF IInv, TypeOK, Live
<1>2. /\ \A q \in Requests \ {p} : wire'[q] = wire[q] /\ reply'[q] = reply[q]
      /\ wire[p] = "incr" /\ wire'[p] = "expire"
      /\ reply'[p] = Live(key) + 1
      /\ \A k \in Keys : counter'[k] = IF k = key THEN Live(key) + 1 ELSE counter[k]
      /\ at' = at
      /\ \A q \in Requests : KeyOf(q)' = KeyOf(q) /\ KeyOf(q) \in Keys
  BY <1>1, KeyType DEF IInv, TypeOK, Incr, KeyOf
<1>3. ASSUME NEW k \in Keys
      PROVE  /\ Cardinality(S(k)) \in Nat
             /\ k # key => S(k)' = S(k)
             /\ k = key => Cardinality(S(k)') = Cardinality(S(k)) + 1
  <2>1. IsFiniteSet(S(k)) /\ Cardinality(S(k)) \in Nat
    BY CountedOnType
  <2>2. CASE k # key
    BY <1>2, <2>1, <2>2 DEF CountedOn, Counted
  <2>3. CASE k = key
    <3>1. S(k)' = S(k) \cup {p} /\ p \notin S(k)
      BY <1>2, <2>3 DEF CountedOn, Counted
    <3>. QED
      BY <2>1, <2>3, <3>1, FS_AddElement
  <2>. QED
    BY <2>2, <2>3, <2>1
<1>4. \A k \in Keys : counter[k] <= Cardinality(S(k)) /\ counter[k] \in Nat
  BY DEF CauseInv, CountsHonest, IInv, TypeOK
<1>. HIDE DEF S, key
<1>5. \A k \in Keys : counter'[k] <= Cardinality(S(k)')
  BY <1>1, <1>2, <1>3, <1>4
<1>6. ASSUME NEW q \in Requests, NEW k \in Keys, KeyOf(q) = k, Counted(q)'
      PROVE  reply'[q] <= Cardinality(S(k)')
  <2>1. reply[q] \in Nat
    BY DEF IInv, TypeOK
  <2>2. CASE q = p
    BY <1>1, <1>2, <1>3, <1>4, <1>6, <2>2 DEF key
  <2>3. CASE q # p
    <3>1. Counted(q) /\ reply'[q] = reply[q]
      BY <1>2, <1>6, <2>3 DEF Counted
    <3>2. reply[q] <= Cardinality(S(k))
      BY <1>6, <3>1 DEF CauseInv, CountsHonest, S
    <3>. QED
      BY <1>3, <2>1, <3>1, <3>2
  <2>. QED
    BY <2>2, <2>3
<1>7. CountsHonest'
  <2>1. \A k \in Keys : (counter[k] <= Cardinality(CountedOn(k)))'
    BY <1>5 DEF S
  <2>2. ASSUME NEW q \in Requests, Counted(q)'
        PROVE  reply'[q] <= Cardinality(CountedOn(KeyOf(q)))'
    <3>1. PICK k \in Keys : k = KeyOf(q) /\ k = KeyOf(q)'
      BY <1>2
    <3>2. (CountedOn(KeyOf(q)))' = (CountedOn(k))'
      BY <3>1 DEF CountedOn
    <3>3. reply'[q] <= Cardinality((CountedOn(k))')
      BY <1>6, <2>2, <3>1 DEF S
    <3>. QED
      BY <3>2, <3>3
  <2>. QED
    BY <2>1, <2>2 DEF CountsHonest
<1>8. RefusedOverLimit'
  BY <1>2 DEF CauseInv, RefusedOverLimit, IInv, CallersOK
<1>. QED
  BY <1>7, <1>8 DEF CauseInv

LEMMA CauseInductive == IInv /\ IInv' /\ CauseInv /\ [Next]_vars => CauseInv'
<1>. SUFFICES ASSUME IInv, IInv', CauseInv, [Next]_vars PROVE CauseInv'
  OBVIOUS
<1>1. ASSUME NEW p \in Requests, Incr(p) PROVE CauseInv'
  BY <1>1, CauseIncr
<1>2. ASSUME NEW p \in Requests, Begin(p) PROVE CauseInv'
  <2>1. /\ wire[p] = "nothing" /\ wire'[p] = "incr" /\ at'[p] = "waiting"
        /\ \A q \in Requests \ {p} : /\ wire'[q] = wire[q] /\ at'[q] = at[q]
                                     /\ read'[q] = read[q]
        /\ UNCHANGED <<client, counter, reply>>
    BY <1>2 DEF IInv, TypeOK, CallersOK, Begin
  <2>. QED
    BY <2>1, CauseUncounted DEF Counted, KeyOf
<1>3. ASSUME NEW p \in Requests, Expire(p) PROVE CauseInv'
  <2>1. /\ wire[p] = "expire" /\ wire'[p] = "done"
        /\ \A q \in Requests \ {p} : wire'[q] = wire[q]
        /\ UNCHANGED <<at, client, read, counter, reply>>
    BY <1>3 DEF IInv, TypeOK, Expire
  <2>. QED
    BY <2>1, CauseUncounted DEF Counted, KeyOf
<1>4. ASSUME NEW p \in Requests, Answer(p) \/ FailOpen(p) PROVE CauseInv'
  <2>1. /\ \A q \in Requests : at'[q] = "refused" => at[q] = "refused" \/ reply[q] > Limit
        /\ UNCHANGED <<wire, client, read, counter, reply>>
    BY <1>4 DEF IInv, TypeOK, Answer, FailOpen, Over
  <2>. QED
    BY <2>1, CauseUncounted DEF Counted, KeyOf
<1>5. CASE Restart \/ Tick \/ UNCHANGED vars
  <2>1. /\ \A k \in Keys : counter'[k] = counter[k] \/ counter'[k] = 0
        /\ UNCHANGED <<at, wire, client, read, reply>>
    BY <1>5 DEF Restart, Tick, vars
  <2>. QED
    BY <2>1, CauseUncounted DEF Counted, KeyOf
<1>. QED
  BY <1>1, <1>2, <1>3, <1>4, <1>5 DEF Next

\* A refused request was counted beside at least Limit others of its window.
LEMMA CauseFromCounts == IInv /\ CauseInv => RefusedForCause
<1>. SUFFICES ASSUME IInv, CauseInv, NEW p \in Requests, at[p] = "refused"
              PROVE  Cardinality({q \in Requests \ {p} :
                       at[q] # "idle" /\ InWindow(q, client[p], read[p] \div Window)}) >= Limit
  BY DEF RefusedForCause
<1>. DEFINE S == CountedOn(KeyOf(p))
            T == {q \in Requests \ {p} :
                    at[q] # "idle" /\ InWindow(q, client[p], read[p] \div Window)}
<1>1. p \in S /\ reply[p] > Limit /\ reply[p] <= Cardinality(S) /\ reply[p] \in Nat
  BY DEF IInv, TypeOK, CallersOK, CauseInv, CountsHonest, RefusedOverLimit, CountedOn, Counted
<1>2. IsFiniteSet(S) /\ Cardinality(S) \in Nat
  BY CountedOnType
<1>3. Cardinality(S \ {p}) = Cardinality(S) - 1
  BY <1>1, <1>2, FS_RemoveElement
<1>4. S \ {p} \subseteq T
  BY DEF IInv, CallersOK, CountedOn, Counted, KeyOf, Bucket, InWindow
<1>5. IsFiniteSet(T) /\ Cardinality(T) \in Nat
  <2>1. T \in SUBSET Requests
    OBVIOUS
  <2>. QED
    BY <2>1, LimiterAssumption, FS_Subset, FS_CardinalityType
<1>. HIDE DEF S, T
<1>6. Cardinality(S \ {p}) <= Cardinality(T)
  BY <1>4, <1>5, FS_Subset
<1>7. Cardinality(T) >= Limit
  BY <1>1, <1>2, <1>3, <1>5, <1>6, LimiterAssumption
<1>. QED
  BY <1>7 DEF T

\* No request is refused for what other clients did, nor for an earlier window:
\* Limit other requests of its client came in the same window.
THEOREM RefusedForCauseHolds == Spec => []RefusedForCause
<1>1. Spec => []CauseInv
  BY CauseInit, CauseInductive, Invariant, PTL DEF Spec
<1>. QED
  BY <1>1, CauseFromCounts, Invariant, PTL
=============================================================================
