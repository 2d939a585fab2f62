------------------------------ MODULE RateLimiter ------------------------------
(***************************************************************************)
(* The fixed-window rate limiter: enforce_rate_limit of                    *)
(* src/app/core/rate_limit.py over the Redis it shares with its replicas.  *)
(*                                                                         *)
(* A request reads the clock of its replica, derives the key of its        *)
(* counter, and sends INCR and EXPIRE in one round trip that is not a      *)
(* transaction: Redis runs the two commands in this order, but commands of *)
(* other requests, an expiry or a restart may come between them.  A        *)
(* request that waits too long, or whose connection breaks, is let         *)
(* through; the commands it sent may still be run later.                   *)
(*                                                                         *)
(* Time is true time, in ticks.  A replica's clock is ahead of it by at    *)
(* most MaxSkew, and the timeouts of redis_cache.py bound the wait of a    *)
(* request by Patience.                                                    *)
(***************************************************************************)
EXTENDS Integers, FiniteSets

CONSTANTS
    Requests,
    Clients,      \* what _client_id and _route_path tell apart
    Limit,        \* RATE_LIMIT_REQUESTS
    Window,       \* RATE_LIMIT_WINDOW_SECONDS, in ticks
    MaxSkew,      \* largest offset between the clocks of two replicas
    Patience,     \* connect timeout plus command timeout, in ticks
    MaxTime,      \* bound: the last tick
    MaxRestarts   \* bound: restarts of Redis

ASSUME LimiterAssumption ==
    /\ IsFiniteSet(Requests)
    /\ Limit \in Nat
    /\ Window \in Nat \ {0}
    /\ MaxSkew \in Nat
    /\ Patience \in Nat
    /\ MaxTime \in Nat
    /\ MaxRestarts \in Nat

\* Clock offsets and the two timeouts (0.25 s and 0.5 s) are far below a window.
ASSUME TimingAssumption == MaxSkew + Patience <= Window

VARIABLES
    now,       \* true time
    at,        \* of each request: where its caller is
    wire,      \* of each request: the command Redis runs next for it
    client,    \* of each request: whom it is counted against
    read,      \* of each request: the clock reading of its replica
    since,     \* of each request: the true time of that reading
    reply,     \* of each request: what its INCR returned
    counter,   \* Redis: the value stored under a key, 0 if there never was one
    expires,   \* Redis: when a key expires, NoTtl if it does not
    restarts,  \* how often Redis came back empty
    life       \* history, of each request: the restarts before its INCR

vars == <<now, at, wire, client, read, since, reply, counter, expires, restarts, life>>

Buckets == 0..((MaxTime + MaxSkew) \div Window)
Keys == Clients \X Buckets
NoTtl == 0

\* Mutation of Bucket: the key does not carry the window.
OneBucket(t) == 0
Bucket(t) == t \div Window

KeyOf(p) == <<client[p], Bucket(read[p])>>

\* Mutation of Ttl: the counter is kept for one window.
OneWindow == Window
Ttl == 2 * Window

\* Mutation of Live: a missing key reads as TTL reports it.
LiveOrMissing(k) == IF expires[k] = NoTtl \/ now < expires[k] THEN counter[k] ELSE -2
\* The value of a key: nothing once it has expired.
Live(k) == IF expires[k] = NoTtl \/ now < expires[k] THEN counter[k] ELSE 0

Init ==
    /\ now = 0
    /\ at = [p \in Requests |-> "idle"]
    /\ wire = [p \in Requests |-> "nothing"]
    /\ client \in [Requests -> Clients]
    /\ read = [p \in Requests |-> 0]
    /\ since = [p \in Requests |-> 0]
    /\ reply = [p \in Requests |-> 0]
    /\ counter = [k \in Keys |-> 0]
    /\ expires = [k \in Keys |-> NoTtl]
    /\ restarts = 0
    /\ life = [p \in Requests |-> 0]

-----------------------------------------------------------------------------

\* time.time(), the key, and the pipeline handed to the connection.
Begin(p) ==
    /\ at[p] = "idle"
    /\ at' = [at EXCEPT ![p] = "waiting"]
    /\ wire' = [wire EXCEPT ![p] = "incr"]
    /\ \E skew \in 0..MaxSkew : read' = [read EXCEPT ![p] = now + skew]
    /\ since' = [since EXCEPT ![p] = now]
    /\ UNCHANGED <<now, client, reply, counter, expires, restarts, life>>

\* INCR: a key that is not there starts at one, without an expiry.
Incr(p) ==
    /\ wire[p] = "incr"
    /\ reply' = [reply EXCEPT ![p] = Live(KeyOf(p)) + 1]
    /\ counter' = [counter EXCEPT ![KeyOf(p)] = Live(KeyOf(p)) + 1]
    /\ expires' = [expires EXCEPT ![KeyOf(p)] = IF Live(KeyOf(p)) = 0 THEN NoTtl ELSE @]
    /\ wire' = [wire EXCEPT ![p] = "expire"]
    /\ life' = [life EXCEPT ![p] = restarts]
    /\ UNCHANGED <<now, at, client, read, since, restarts>>

\* Mutation of Expire: the key is derived again, from the time it is by now.
ExpireOfTheMoment(p) ==
    /\ wire[p] = "expire"
    /\ LET k == <<client[p], Bucket(now)>>
       IN expires' = [expires EXCEPT ![k] = IF Live(k) > 0 THEN now + Ttl ELSE @]
    /\ wire' = [wire EXCEPT ![p] = "done"]
    /\ UNCHANGED <<now, at, client, read, since, reply, counter, restarts, life>>

\* EXPIRE: it has no effect on a key that is not there.
Expire(p) ==
    /\ wire[p] = "expire"
    /\ expires' = [expires EXCEPT ![KeyOf(p)] = IF Live(KeyOf(p)) > 0 THEN now + Ttl ELSE @]
    /\ wire' = [wire EXCEPT ![p] = "done"]
    /\ UNCHANGED <<now, at, client, read, since, reply, counter, restarts, life>>

\* Mutation of Over: the request that reaches the limit is refused.
AtLimit(count) == count >= Limit
Over(count) == count > Limit

\* The replies arrive: the request is served, or refused with 429.
Answer(p) ==
    /\ at[p] = "waiting"
    /\ wire[p] = "done"
    /\ at' = [at EXCEPT ![p] = IF Over(reply[p]) THEN "refused" ELSE "served"]
    /\ UNCHANGED <<now, wire, client, read, since, reply, counter, expires, restarts, life>>

\* RedisError, a timeout included: the request is let through.  The commands
\* that are on their way may or may not be run.
FailOpen(p) ==
    /\ at[p] = "waiting"
    /\ at' = [at EXCEPT ![p] = "let_through"]
    /\ UNCHANGED <<now, wire, client, read, since, reply, counter, expires, restarts, life>>

\* Redis comes back empty.
Restart ==
    /\ restarts < MaxRestarts
    /\ restarts' = restarts + 1
    /\ counter' = [k \in Keys |-> 0]
    /\ expires' = [k \in Keys |-> NoTtl]
    /\ UNCHANGED <<now, at, wire, client, read, since, reply, life>>

\* The timeouts end a wait in time, so time passes only while no wait is due.
Tick ==
    /\ now < MaxTime
    /\ \A p \in Requests : at[p] = "waiting" => now < since[p] + Patience
    /\ now' = now + 1
    /\ UNCHANGED <<at, wire, client, read, since, reply, counter, expires, restarts, life>>

Next ==
    \/ \E p \in Requests : Begin(p) \/ Incr(p) \/ Expire(p) \/ Answer(p) \/ FailOpen(p)
    \/ Restart
    \/ Tick

Spec == Init /\ [][Next]_vars

-----------------------------------------------------------------------------
(* Properties                                                              *)

\* The variables keep their types; Redis never holds a negative count.
TypeOK ==
    /\ now \in 0..MaxTime
    /\ at \in [Requests -> {"idle", "waiting", "served", "refused", "let_through"}]
    /\ wire \in [Requests -> {"nothing", "incr", "expire", "done"}]
    /\ client \in [Requests -> Clients]
    /\ read \in [Requests -> 0..(MaxTime + MaxSkew)]
    /\ since \in [Requests -> 0..MaxTime]
    /\ reply \in [Requests -> Nat]
    /\ counter \in [Keys -> Nat]
    /\ expires \in [Keys -> Nat]
    /\ restarts \in 0..MaxRestarts
    /\ life \in [Requests -> 0..MaxRestarts]

InWindow(p, c, b) == client[p] = c /\ read[p] \div Window = b

\* The limit holds across replicas: in one window, of one client, no more than
\* Limit requests are served, however their commands interleave, those of
\* requests that were given up included.  Each restart of Redis grants a budget
\* of its own; requests let through without an answer are not counted.
LimitHolds ==
    \A c \in Clients, b \in Buckets, n \in 0..MaxRestarts :
        Cardinality({p \in Requests : at[p] = "served" /\ InWindow(p, c, b) /\ life[p] = n})
            <= Limit

\* Nobody pays for another client, nor for an earlier window: a request is
\* refused only when Limit other requests of the same client in the same
\* window came to the limiter.
RefusedForCause ==
    \A p \in Requests : at[p] = "refused" =>
        Cardinality({q \in Requests \ {p} :
            at[q] # "idle" /\ InWindow(q, client[p], read[p] \div Window)}) >= Limit

\* Redis keeps no counter for ever: a key without an expiry has a request
\* whose EXPIRE is still to come, so only a connection cut between the two
\* commands leaves one behind.
CountersExpire ==
    \A k \in Keys : counter[k] > 0 /\ expires[k] = NoTtl =>
        \E p \in Requests : KeyOf(p) = k /\ wire[p] = "expire"
=============================================================================
