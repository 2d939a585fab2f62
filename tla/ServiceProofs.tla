---------------------------- MODULE ServiceProofs -----------------------------
(***************************************************************************)
(* Theorems about Service, for any number of requests and containers, any  *)
(* settings, starts and downgrades: what the shutdown leaves behind at     *)
(* each of its stages, whose id a log line carries, and what schema and    *)
(* settings a worker finds.                                                *)
(*                                                                         *)
(* The schema is a fold over lists of steps.  What is proved about it goes *)
(* by induction over the length of a list, in the form of a least counter- *)
(* example (LeastNat): the theorems of the library that take an operator   *)
(* as a parameter are out of the provers' reach.                           *)
(***************************************************************************)
EXTENDS Service, WellFoundedInduction, TLAPS

-----------------------------------------------------------------------------
(* The inductive invariant                                                 *)

Stages == {"down", "serving", "draining", "refresher_stopped", "writer_stopped",
           "redis_closed", "engine_disposed", "logging_stopped"}

\* Stages in which there may be requests and a refresher, and those with a writer.
Attended == {"serving", "draining"}
Writing == {"serving", "draining", "refresher_stopped"}

WorkerTypes ==
    /\ stage \in Stages
    /\ request \in [Requests -> {"idle", "running", "raised", "done"}]
    /\ context \in [Requests -> Requests \cup {"-"}]

\* What has been stopped is not used: the users of a resource end before it does.
Quiet ==
    /\ stage \notin Attended => refresher = "off" /\ \A r \in Requests : ~Open(r)
    /\ stage \notin Writing => writer = "off" /\ queued = FALSE
    /\ stage \in {"logging_stopped", "down"} => lines = {}
    /\ lost = FALSE

\* A request's id is set as long as the middleware runs.
ContextOK ==
    \A r \in Requests : IF request[r] = "running" THEN context[r] = r ELSE context[r] = "-"

IInv == WorkerTypes /\ Quiet /\ ContextOK /\ LinesCarryTheirRequest

-----------------------------------------------------------------------------
(* Lemmas about the order of the shutdown                                  *)

\* The stages that come after the closing of a resource.
LEMMA ReachedStages ==
    /\ Reached("redis_closed") => stage \in {"redis_closed", "engine_disposed", "logging_stopped"}
    /\ Reached("engine_disposed") => stage \in {"engine_disposed", "logging_stopped"}
    /\ Reached("logging_stopped") => stage = "logging_stopped"
<1>. DEFINE At(s) == \E i, j \in DOMAIN StopOrder :
                         i <= j /\ StopOrder[i] = s /\ StopOrder[j] = stage
<1>1. DOMAIN StopOrder = 1..6
  BY DEF StopOrder
<1>2. At("redis_closed") => stage \in {"redis_closed", "engine_disposed", "logging_stopped"}
  BY <1>1 DEF StopOrder
<1>3. At("engine_disposed") => stage \in {"engine_disposed", "logging_stopped"}
  BY <1>1 DEF StopOrder
<1>4. At("logging_stopped") => stage = "logging_stopped"
  BY <1>1 DEF StopOrder
<1>. QED
  BY <1>2, <1>3, <1>4 DEF Reached

\* Each stage of the shutdown and the one after it.
LEMMA StopPairs ==
    ASSUME NEW i \in 1..(Len(StopOrder) - 1)
    PROVE  \/ StopOrder[i] = "draining" /\ StopOrder[i + 1] = "refresher_stopped"
           \/ StopOrder[i] = "refresher_stopped" /\ StopOrder[i + 1] = "writer_stopped"
           \/ StopOrder[i] = "writer_stopped" /\ StopOrder[i + 1] = "redis_closed"
           \/ StopOrder[i] = "redis_closed" /\ StopOrder[i + 1] = "engine_disposed"
           \/ StopOrder[i] = "engine_disposed" /\ StopOrder[i + 1] = "logging_stopped"
BY DEF StopOrder

-----------------------------------------------------------------------------
(* Lemmas about logging                                                    *)

\* A line with the right id may be emitted wherever a listener runs.
LEMMA EmitInv ==
    ASSUME IInv, NEW r, NEW id, NEW where, Emit(r, id, where),
           stage \in Attended \cup Writing,
           where = "below" => id = r,
           where # "below" => id \in {r, "-"}
    PROVE  lost' = FALSE /\ LinesCarryTheirRequest'
<1>. DEFINE line == [request |-> r, id |-> id, where |-> where]
<1>1. lines' = lines \cup {line} /\ lost' = lost
  BY DEF Emit, Attended, Writing
<1>2. line.request = r /\ line.id = id /\ line.where = where
  OBVIOUS
<1>. QED
  BY <1>1, <1>2 DEF IInv, Quiet, LinesCarryTheirRequest

\* What a failing task of the background logs is no request's.
LEMMA MayLogInv ==
    ASSUME IInv, MayLog, stage \in Attended \cup Writing
    PROVE  lost' = FALSE /\ LinesCarryTheirRequest'
<1>1. CASE UNCHANGED logging
  BY <1>1 DEF IInv, Quiet, LinesCarryTheirRequest, logging
<1>2. CASE Emit("none", "-", "background")
  BY <1>2, EmitInv
<1>. QED
  BY <1>1, <1>2 DEF MayLog

-----------------------------------------------------------------------------
(* One lemma per action                                                    *)

LEMMA InitInv == Init => IInv
BY DEF Init, IInv, WorkerTypes, Quiet, ContextOK, LinesCarryTheirRequest, Stages, Attended,
       Writing, Open

\* The invariant is about the worker only.
LEMMA WorkerStays == ASSUME IInv, UNCHANGED worker PROVE IInv'
BY DEF IInv, worker, background, logging, WorkerTypes, Quiet, ContextOK, LinesCarryTheirRequest,
       Stages, Attended, Writing, Open

LEMMA KillInv == ASSUME IInv, NEW c \in Containers, Kill(c) PROVE IInv'
<1>1. CASE c # Watched
  BY <1>1, WorkerStays DEF Kill
<1>2. CASE c = Watched
  <2>1. /\ stage' = "down" /\ refresher' = "off" /\ writer' = "off" /\ queued' = FALSE
        /\ request' = [r \in Requests |-> IF request[r] = "idle" THEN "idle" ELSE "done"]
        /\ context' = [r \in Requests |-> "-"]
        /\ lines' = {} /\ lost' = lost
    BY <1>2 DEF Kill
  <2>2. WorkerTypes'
    BY <2>1 DEF WorkerTypes, Stages
  <2>3. Quiet' /\ ContextOK' /\ LinesCarryTheirRequest'
    BY <2>1 DEF IInv, Quiet, ContextOK, LinesCarryTheirRequest, Open, Attended, Writing
  <2>. QED
    BY <2>2, <2>3 DEF IInv
<1>. QED
  BY <1>1, <1>2

LEMMA BootInv == ASSUME IInv, Boot PROVE IInv'
BY DEF IInv, Boot, StartRefresher, logging, WorkerTypes, Quiet, ContextOK, LinesCarryTheirRequest, Stages,
       Attended, Writing, Open

LEMMA BeginInv == ASSUME IInv, NEW r \in Requests, Begin(r) PROVE IInv'
<1>1. /\ stage = "serving" /\ UNCHANGED <<stage, refresher, writer, queued, lines, lost>>
      /\ request' = [request EXCEPT ![r] = "running"]
      /\ context' = [context EXCEPT ![r] = r]
  BY DEF Begin, background, logging, SetContext
<1>2. WorkerTypes' /\ ContextOK'
  BY <1>1 DEF IInv, WorkerTypes, ContextOK, Stages
<1>3. Quiet' /\ LinesCarryTheirRequest'
  BY <1>1 DEF IInv, Quiet, LinesCarryTheirRequest, Attended, Writing
<1>. QED
  BY <1>2, <1>3 DEF IInv

\* An open request is one of a worker that still has its listener.
LEMMA OpenStage == ASSUME IInv, NEW r \in Requests, Open(r) PROVE stage \in Attended
BY DEF IInv, Quiet

LEMMA HandleInv == ASSUME IInv, NEW r \in Requests, Handle(r) PROVE IInv'
<1>1. /\ request[r] = "running" /\ stage \in Attended
      /\ UNCHANGED <<stage, refresher, writer, request, context>>
  BY OpenStage DEF Handle, Open
<1>2. context[r] = r
  BY <1>1 DEF IInv, ContextOK
<1>3. lost' = FALSE /\ LinesCarryTheirRequest'
  <2>1. CASE Emit(r, context[r], "below")
    BY <1>1, <1>2, <2>1, EmitInv
  <2>2. CASE UNCHANGED logging
    BY <2>2 DEF IInv, Quiet, LinesCarryTheirRequest, logging
  <2>. QED
    BY <2>1, <2>2 DEF Handle
<1>4. WorkerTypes' /\ ContextOK'
  BY <1>1 DEF IInv, WorkerTypes, ContextOK, Stages
<1>5. Quiet'
  BY <1>1, <1>3 DEF Quiet, Attended, Writing
<1>. QED
  BY <1>3, <1>4, <1>5 DEF IInv

LEMMA EndInv == ASSUME IInv, NEW r \in Requests, End(r) PROVE IInv'
<1>1. /\ request[r] = "running" /\ stage \in Attended
      /\ UNCHANGED <<stage, refresher, writer, queued>>
      /\ Emit(r, context[r], "below")
      /\ context' = [context EXCEPT ![r] = "-"]
  BY OpenStage DEF End, Open, background, SetContext
<1>2. PICK outcome \in {"done", "raised"} : request' = [request EXCEPT ![r] = outcome]
  BY DEF End
<1>3. context[r] = r
  BY <1>1 DEF IInv, ContextOK
<1>4. lost' = FALSE /\ LinesCarryTheirRequest'
  BY <1>1, <1>3, EmitInv
<1>5. WorkerTypes' /\ ContextOK'
  BY <1>1, <1>2 DEF IInv, WorkerTypes, ContextOK, Stages
<1>6. Quiet'
  BY <1>1, <1>4 DEF Quiet, Attended, Writing
<1>. QED
  BY <1>4, <1>5, <1>6 DEF IInv

LEMMA HandleExceptionInv == ASSUME IInv, NEW r \in Requests, HandleException(r) PROVE IInv'
<1>1. /\ request[r] = "raised" /\ stage \in Attended
      /\ UNCHANGED <<stage, refresher, writer, queued, context>>
      /\ Emit(r, context[r], "above")
      /\ request' = [request EXCEPT ![r] = "done"]
  BY OpenStage DEF HandleException, Open, background
<1>2. context[r] = "-"
  BY <1>1 DEF IInv, ContextOK
<1>3. lost' = FALSE /\ LinesCarryTheirRequest'
  BY <1>1, <1>2, EmitInv
<1>4. WorkerTypes' /\ ContextOK'
  BY <1>1, <1>2 DEF IInv, WorkerTypes, ContextOK, Stages
<1>5. Quiet'
  BY <1>1, <1>3 DEF Quiet, Attended, Writing
<1>. QED
  BY <1>3, <1>4, <1>5 DEF IInv

LEMMA WriteInv == ASSUME IInv, Write PROVE IInv'
<1>1. /\ lines' \subseteq lines
      /\ UNCHANGED <<stage, refresher, writer, queued, request, context, lost>>
  BY DEF Write, background
<1>2. WorkerTypes' /\ ContextOK'
  BY <1>1 DEF IInv, WorkerTypes, ContextOK, Stages
<1>3. Quiet' /\ LinesCarryTheirRequest'
  BY <1>1 DEF IInv, Quiet, LinesCarryTheirRequest, Open, Attended, Writing
<1>. QED
  BY <1>2, <1>3 DEF IInv

LEMMA FlushInv == ASSUME IInv, Flush PROVE IInv'
<1>1. /\ writer \in {"idle", "flushing"} /\ queued' \in {queued, FALSE}
      /\ UNCHANGED <<stage, refresher, request, context>>
  BY DEF Flush
<1>2. stage \in Writing
  BY <1>1 DEF IInv, Quiet
<1>3. lost' = FALSE /\ LinesCarryTheirRequest'
  <2>1. MayLog
    BY DEF Flush, MayLog
  <2>. QED
    BY <1>2, <2>1, MayLogInv
<1>4. WorkerTypes' /\ ContextOK'
  BY <1>1 DEF IInv, WorkerTypes, ContextOK, Stages
<1>5. Quiet'
  BY <1>1, <1>2, <1>3 DEF IInv, Quiet, Open, Attended, Writing
<1>. QED
  BY <1>3, <1>4, <1>5 DEF IInv

LEMMA RefreshInv == ASSUME IInv, Refresh PROVE IInv'
<1>1. /\ refresher \in {"asleep", "working"}
      /\ UNCHANGED <<stage, writer, queued, request, context>>
  BY DEF Refresh
<1>2. stage \in Attended
  BY <1>1 DEF IInv, Quiet
<1>3. lost' = FALSE /\ LinesCarryTheirRequest'
  <2>1. MayLog
    BY DEF Refresh, MayLog
  <2>. QED
    BY <1>2, <2>1, MayLogInv
<1>4. WorkerTypes' /\ ContextOK'
  BY <1>1 DEF IInv, WorkerTypes, ContextOK, Stages
<1>5. Quiet'
  BY <1>1, <1>2, <1>3 DEF Quiet, Attended, Writing
<1>. QED
  BY <1>3, <1>4, <1>5 DEF IInv

LEMMA RefresherEndsInv == ASSUME IInv, RefresherEnds PROVE IInv'
<1>1. refresher' = "off" /\ UNCHANGED <<stage, writer, queued, request, context, lines, lost>>
  BY DEF RefresherEnds, AfterCancel, logging
<1>2. WorkerTypes' /\ ContextOK'
  BY <1>1 DEF IInv, WorkerTypes, ContextOK, Stages
<1>3. Quiet' /\ LinesCarryTheirRequest'
  BY <1>1 DEF IInv, Quiet, LinesCarryTheirRequest, Open, Attended, Writing
<1>. QED
  BY <1>2, <1>3 DEF IInv

LEMMA TerminateInv == ASSUME IInv, Terminate PROVE IInv'
BY DEF IInv, Terminate, background, logging, WorkerTypes, Quiet, ContextOK,
       LinesCarryTheirRequest, Stages, Attended, Writing, Open

\* Each await of the shutdown ends the users of what the later ones close.
LEMMA StopInv == ASSUME IInv, Stop PROVE IInv'
<1>1. UNCHANGED <<request, context, lost>> /\ \A r \in Requests : ~Open(r)
  BY DEF Stop
<1>2. PICK i \in 1..(Len(StopOrder) - 1) :
          /\ stage = StopOrder[i]
          /\ \/ StopNext(StopOrder[i + 1])
             \/ StopOrder[i + 1] = "refresher_stopped" /\ CancelRefresher
  BY DEF Stop
<1>3. \A r \in Requests : ~Open(r)'
  BY <1>1 DEF Open
<1>4. stage \notin Attended => refresher = "off"
  BY DEF IInv, Quiet
<1>5. stage \notin Writing => writer = "off" /\ queued = FALSE
  BY DEF IInv, Quiet
<1>6. /\ stage' \in Stages /\ lines' \in {lines, {}}
      /\ stage' \notin Attended => refresher' = "off"
      /\ stage' \notin Writing => writer' = "off" /\ queued' = FALSE
      /\ stage' \in {"logging_stopped", "down"} => lines' = {}
  <2>1. CASE CancelRefresher /\ stage = "draining"
    BY <2>1 DEF CancelRefresher, Stages, Attended, Writing
  <2>2. CASE stage = "draining" /\ StopNext("refresher_stopped")
    BY <2>2 DEF StopNext, background, Stages, Attended, Writing
  <2>3. CASE stage = "refresher_stopped" /\ StopNext("writer_stopped")
    BY <1>4, <2>3 DEF StopNext, StopWriter, Stages, Attended, Writing
  <2>4. CASE stage = "writer_stopped" /\ StopNext("redis_closed")
    BY <1>4, <1>5, <2>4 DEF StopNext, background, Stages, Attended, Writing
  <2>5. CASE stage = "redis_closed" /\ StopNext("engine_disposed")
    BY <1>4, <1>5, <2>5 DEF StopNext, background, Stages, Attended, Writing
  <2>6. CASE stage = "engine_disposed" /\ StopNext("logging_stopped")
    BY <1>4, <1>5, <2>6 DEF StopNext, StopLogging, background, Stages, Attended, Writing
  <2>. QED
    BY <1>2, <2>1, <2>2, <2>3, <2>4, <2>5, <2>6, StopPairs
<1>7. WorkerTypes' /\ ContextOK'
  BY <1>1, <1>6 DEF IInv, WorkerTypes, ContextOK, Stages
<1>8. Quiet'
  BY <1>1, <1>3, <1>6 DEF IInv, Quiet, Attended, Writing
<1>9. LinesCarryTheirRequest'
  BY <1>6 DEF IInv, LinesCarryTheirRequest
<1>. QED
  BY <1>7, <1>8, <1>9 DEF IInv

LEMMA ExitInv == ASSUME IInv, Exit PROVE IInv'
BY DEF IInv, Exit, background, logging, WorkerTypes, Quiet, ContextOK, LinesCarryTheirRequest,
       Stages, Attended, Writing, Open

-----------------------------------------------------------------------------
(* Theorems                                                                *)

\* Every step of a start, a request, a task and the shutdown preserves the
\* invariant.
THEOREM Inductive == IInv /\ [Next]_vars => IInv'
<1>. SUFFICES ASSUME IInv, [Next]_vars PROVE IInv'
  OBVIOUS
<1>1. CASE UNCHANGED vars
  BY <1>1, WorkerStays DEF vars
<1>2. ASSUME NEW c \in Containers, Migrate(c) \/ MigrationEnds(c) \/ Kill(c) PROVE IInv'
  BY <1>2, WorkerStays, KillInv DEF Migrate, MigrationEnds
<1>3. CASE DowngradeOne
  BY <1>3, WorkerStays DEF DowngradeOne
<1>4. ASSUME NEW r \in Requests, Begin(r) \/ Handle(r) \/ End(r) \/ HandleException(r)
      PROVE  IInv'
  BY <1>4, BeginInv, HandleInv, EndInv, HandleExceptionInv
<1>5. CASE Boot \/ Write \/ Flush \/ Refresh \/ RefresherEnds \/ Terminate \/ Stop \/ Exit
  BY <1>5, BootInv, WriteInv, FlushInv, RefreshInv, RefresherEndsInv, TerminateInv, StopInv,
     ExitInv
<1>. QED
  BY <1>1, <1>2, <1>3, <1>4, <1>5 DEF Next

LEMMA Invariant == Spec => []IInv
BY InitInv, Inductive, PTL DEF Spec

\* Whenever the engine, Redis or the listener is gone, so is everybody who could
\* use it, and no log line is left behind.
THEOREM NothingUsesAClosedResourceHolds == Spec => []NothingUsesAClosedResource
<1>1. IInv => NothingUsesAClosedResource
  BY ReachedStages DEF IInv, Quiet, NothingUsesAClosedResource, Attended, Writing
<1>. QED
  BY <1>1, Invariant, PTL

\* However many requests are interleaved, a line logged below the middleware
\* carries its own request's id, and none carries another's.
THEOREM LinesCarryTheirRequestHolds == Spec => []LinesCarryTheirRequest
<1>1. IInv => LinesCarryTheirRequest
  BY DEF IInv
<1>. QED
  BY <1>1, Invariant, PTL

-----------------------------------------------------------------------------
(* The schema                                                              *)

\* The order of the natural numbers, for induction over the length of a list.
Less == {p \in Nat \X Nat : p[1] < p[2]}

\* A set of natural numbers that is not empty has a least element.
LEMMA LeastNat ==
    ASSUME NEW T, T \subseteq Nat, T # {}
    PROVE  \E x \in T : \A y \in T : x <= y
<1>1. OpToRel(<, Nat) = Less
  BY DEF OpToRel, Less
<1>2. PICK x \in T : \A y \in T : ~(<<y, x>> \in Less)
  BY <1>1, NatLessThanWellFounded, WFMin
<1>. QED
  <2>. SUFFICES ASSUME NEW y \in T PROVE x <= y
    OBVIOUS
  <2>1. ~(y < x)
    <3>. SUFFICES ASSUME y < x PROVE FALSE
      OBVIOUS
    <3>1. <<y, x>> \in Less
      BY SMT DEF Less
    <3>. QED
      BY <3>1, <1>2
  <2>. QED
    BY <2>1

\* What the fold takes next from a set.
LEMMA MaxIs ==
    ASSUME NEW S, S \subseteq Int, NEW m \in S, \A y \in S : m >= y
    PROVE  Max(S) = m
<1>1. \E x \in S : \A y \in S : x >= y
  OBVIOUS
<1>2. Max(S) \in S /\ \A y \in S : Max(S) >= y
  BY <1>1 DEF Max
<1>3. Max(S) \in Int /\ m \in Int /\ Max(S) >= m /\ m >= Max(S)
  BY <1>2
<1>. QED
  BY <1>3

\* Before the first step.
Base(objs) == [ok |-> TRUE, objects |-> objs]

\* The function the fold of Run iterates, for lists of length k.
Iterates(g, steps, objs, k) ==
    g = [s \in SUBSET (1..k) |->
            IF s = {} THEN Base(objs) ELSE Execute(g[s \ {Max(s)}], steps[Max(s)])]

\* There is such a function, hence CHOOSE yields one.
LEMMA IteratesExist ==
    ASSUME NEW steps, NEW objs
    PROVE  \A k \in Nat : \E g : Iterates(g, steps, objs, k)
<1>. DEFINE P(k) == \E g : Iterates(g, steps, objs, k)
            T == {k \in Nat : ~P(k)}
<1>1. P(0)
  <2>. DEFINE g == [s \in SUBSET (1..0) |-> Base(objs)]
  <2>1. Iterates(g, steps, objs, 0)
    BY DEF Iterates
  <2>. QED
    BY <2>1
<1>2. ASSUME NEW k \in Nat, P(k) PROVE P(k + 1)
  <2>1. PICK g : Iterates(g, steps, objs, k)
    BY <1>2
  <2>. DEFINE f == [s \in SUBSET (1..(k + 1)) |->
                      IF s = {} THEN Base(objs)
                      ELSE IF k + 1 \in s THEN Execute(g[s \ {k + 1}], steps[k + 1]) ELSE g[s]]
  <2>2. ASSUME NEW s \in SUBSET (1..(k + 1)), s # {}
        PROVE  f[s] = Execute(f[s \ {Max(s)}], steps[Max(s)])
    <3>1. CASE k + 1 \in s
      <4>1. Max(s) = k + 1
        <5>1. s \subseteq Int /\ \A y \in s : k + 1 >= y
          OBVIOUS
        <5>. QED
          BY <3>1, <5>1, MaxIs
      <4>2. s \ {k + 1} \in SUBSET (1..k)
        OBVIOUS
      <4>3. f[s \ {k + 1}] = g[s \ {k + 1}]
        BY <4>2, <2>1 DEF Iterates
      <4>. QED
        BY <3>1, <4>1, <4>3
    <3>2. CASE k + 1 \notin s
      <4>1. s \in SUBSET (1..k) /\ s \ {Max(s)} \in SUBSET (1..k)
        <5>1. \A y \in s : y \in 1..(k + 1) /\ y # k + 1
          BY <3>2
        <5>2. \A y \in s : y \in 1..k
          BY <5>1
        <5>. QED
          BY <5>2
      <4>2. f[s] = g[s]
        BY <2>2, <3>2
      <4>3. f[s \ {Max(s)}] = g[s \ {Max(s)}]
        BY <4>1, <2>1 DEF Iterates
      <4>4. g[s] = Execute(g[s \ {Max(s)}], steps[Max(s)])
        BY <2>1, <2>2, <4>1 DEF Iterates
      <4>. QED
        BY <4>2, <4>3, <4>4
    <3>. QED
      BY <3>1, <3>2
  <2>3. f = [s \in SUBSET (1..(k + 1)) |->
               IF s = {} THEN Base(objs) ELSE Execute(f[s \ {Max(s)}], steps[Max(s)])]
    <3>1. f[{}] = Base(objs)
      OBVIOUS
    <3>. QED
      BY <2>2, <3>1, Zenon
  <2>4. Iterates(f, steps, objs, k + 1)
    BY <2>3 DEF Iterates
  <2>. QED
    BY <2>4
<1>3. T = {}
  <2>. SUFFICES ASSUME T # {} PROVE FALSE
    OBVIOUS
  <2>1. PICK x \in T : \A y \in T : x <= y
    BY LeastNat
  <2>2. x \in Nat /\ ~P(x)
    OBVIOUS
  <2>. HIDE DEF P
  <2>3. x # 0
    BY <1>1, <2>2
  <2>4. x - 1 \in Nat /\ (x - 1) + 1 = x /\ ~(x <= x - 1)
    BY <2>2, <2>3
  <2>5. P(x - 1)
    BY <2>1, <2>4
  <2>. QED
    BY <1>2, <2>2, <2>4, <2>5
<1>. QED
  BY <1>3


Objects == Models \cup {"ix_user_id", "ix_company_year_created_at"}
\* The objects of all revisions, steps, and the objects after a list of steps.
Steps == [op : {"create", "drop"}, object : Objects]
Applied(steps, objs) == Run(steps, objs).objects

\* What a step does to the objects, whether it fits or not.
Effect(objs, step) ==
    IF step.op = "create" THEN objs \cup {step.object} ELSE objs \ {step.object}

\* The objects after each of the first n steps.
Trace(h, steps, objs, n) ==
    h[0] = objs /\ \A k \in 1..n : h[k] = Effect(h[k - 1], steps[k])

\* Whether a step fits changes nothing for what it does to the objects.
LEMMA ExecuteObjects ==
    ASSUME NEW db, NEW step
    PROVE  Execute(db, step).objects = Effect(db.objects, step)
BY DEF Execute, Effect

\* Run goes through the list step by step.
LEMMA RunTrace ==
    ASSUME NEW steps \in Seq(Steps), NEW objs
    PROVE  \E h : Trace(h, steps, objs, Len(steps)) /\ Applied(steps, objs) = h[Len(steps)]
<1>. DEFINE n == Len(steps)
<1>0. n \in Nat /\ DOMAIN steps = 1..n
  OBVIOUS
<1>. DEFINE g == CHOOSE g : Iterates(g, steps, objs, n)
            h == [k \in 0..n |-> g[1..k].objects]
<1>1. Run(steps, objs) = g[1..n]
  BY <1>0, Zenon DEF Run, FoldLeft, MapThenFoldSet, Iterates, Base
<1>2. Iterates(g, steps, objs, n)
  BY <1>0, IteratesExist, Zenon
<1>. HIDE DEF g, n
<1>3. h[0] = objs
  <2>1. 1..0 = {} /\ 1..0 \in SUBSET (1..n)
    OBVIOUS
  <2>2. g[1..0] = Base(objs)
    BY <1>2, <2>1 DEF Iterates
  <2>. QED
    BY <1>0, <2>2 DEF Base
<1>4. ASSUME NEW k \in 1..n PROVE h[k] = Effect(h[k - 1], steps[k])
  <2>1. Max(1..k) = k
    <3>1. (1..k) \subseteq Int /\ k \in 1..k /\ \A y \in 1..k : k >= y
      BY <1>0
    <3>. QED
      BY <3>1, MaxIs
  <2>2. (1..k) \ {k} = 1..(k - 1) /\ 1..k \in SUBSET (1..n) /\ 1..k # {}
    BY <1>0
  <2>3. g[1..k] = Execute(g[1..(k - 1)], steps[k])
    BY <1>2, <2>1, <2>2 DEF Iterates
  <2>4. g[1..k].objects = Effect(g[1..(k - 1)].objects, steps[k])
    BY <2>3, ExecuteObjects
  <2>5. k \in 0..n /\ k - 1 \in 0..n
    BY <1>0
  <2>. QED
    BY <2>4, <2>5
<1>5. Applied(steps, objs) = h[n]
  BY <1>0, <1>1 DEF Applied
<1>6. Trace(h, steps, objs, n)
  BY <1>3, <1>4 DEF Trace
<1>. QED
  BY <1>5, <1>6 DEF n

\* There is one way to go through it.
LEMMA TraceUnique ==
    ASSUME NEW n \in Nat, NEW h, NEW g, NEW steps, NEW objs,
           Trace(h, steps, objs, n), Trace(g, steps, objs, n)
    PROVE  h[n] = g[n]
<1>. DEFINE T == {k \in 0..n : h[k] # g[k]}
<1>1. SUFFICES ASSUME T # {} PROVE FALSE
  OBVIOUS
<1>2. PICK k \in T : \A y \in T : k <= y
  <2>1. T \subseteq Nat
    OBVIOUS
  <2>. HIDE DEF T
  <2>. QED
    BY <1>1, <2>1, LeastNat
<1>3. k # 0
  BY DEF Trace
<1>4. k \in 1..n /\ k - 1 \in 0..n /\ ~(k <= k - 1)
  BY <1>3
<1>5. h[k - 1] = g[k - 1]
  BY <1>2, <1>4
<1>6. h[k] = g[k]
  BY <1>4, <1>5 DEF Trace
<1>. QED
  BY <1>6

\* A list of steps is run by running its two parts in turn.
LEMMA AppliedConcat ==
    ASSUME NEW a \in Seq(Steps), NEW b \in Seq(Steps), NEW objs
    PROVE  Applied(a \o b, objs) = Applied(b, Applied(a, objs))
<1>. DEFINE n == Len(a)  m == Len(b)
<1>0. n \in Nat /\ m \in Nat /\ a \o b \in Seq(Steps) /\ Len(a \o b) = n + m
  OBVIOUS
<1>1. PICK h : Trace(h, a \o b, objs, n + m) /\ Applied(a \o b, objs) = h[n + m]
  BY <1>0, RunTrace
<1>2. PICK f : Trace(f, a, objs, n) /\ Applied(a, objs) = f[n]
  BY RunTrace
<1>3. PICK g : Trace(g, b, f[n], m) /\ Applied(b, f[n]) = g[m]
  BY RunTrace
<1>4. Trace(h, a, objs, n)
  <2>1. \A k \in 1..n : (a \o b)[k] = a[k] /\ k \in 1..(n + m)
    OBVIOUS
  <2>. QED
    BY <1>1, <2>1 DEF Trace
<1>5. h[n] = f[n]
  BY <1>0, <1>2, <1>4, TraceUnique
<1>. DEFINE d == [k \in 0..m |-> h[n + k]]
<1>6. Trace(d, b, f[n], m)
  <2>1. d[0] = f[n]
    BY <1>0, <1>5
  <2>2. ASSUME NEW k \in 1..m PROVE d[k] = Effect(d[k - 1], b[k])
    <3>1. n + k \in 1..(n + m) /\ (a \o b)[n + k] = b[k] /\ (n + k) - 1 = n + (k - 1)
      BY <1>0
    <3>2. h[n + k] = Effect(h[n + (k - 1)], b[k])
      BY <1>1, <3>1 DEF Trace
    <3>3. k \in 0..m /\ k - 1 \in 0..m
      BY <1>0
    <3>. QED
      BY <3>2, <3>3
  <2>. QED
    BY <2>1, <2>2 DEF Trace
<1>7. d[m] = g[m]
  BY <1>0, <1>3, <1>6, TraceUnique
<1>8. d[m] = h[n + m]
  BY <1>0
<1>. QED
  BY <1>1, <1>2, <1>3, <1>7, <1>8

\* Nothing to join.
LEMMA FlattenNone == FlattenSeq(<<>>) = <<>>
BY DEF FlattenSeq

\* FlattenSeq joins one list after the other.
Joins(f, seqs, n) ==
    f = [i \in 1..n |-> IF i = 1 THEN seqs[i] ELSE f[i - 1] \o seqs[i]]

\* There is such a function too.
LEMMA JoinsExist ==
    ASSUME NEW seqs
    PROVE  \A n \in Nat : \E f : Joins(f, seqs, n)
<1>. DEFINE P(k) == \E f : Joins(f, seqs, k)
            T == {k \in Nat : ~P(k)}
<1>1. P(0)
  <2>. DEFINE f == [i \in 1..0 |-> seqs[i]]
  <2>1. Joins(f, seqs, 0)
    BY DEF Joins
  <2>. QED
    BY <2>1
<1>2. ASSUME NEW k \in Nat, P(k) PROVE P(k + 1)
  <2>1. PICK g : Joins(g, seqs, k)
    BY <1>2
  <2>. DEFINE f == [i \in 1..(k + 1) |->
                       IF i = k + 1 THEN (IF i = 1 THEN seqs[i] ELSE g[i - 1] \o seqs[i]) ELSE g[i]]
  <2>2. ASSUME NEW i \in 1..(k + 1)
        PROVE  f[i] = IF i = 1 THEN seqs[i] ELSE f[i - 1] \o seqs[i]
    <3>1. CASE i = k + 1
      <4>1. i # 1 => f[i - 1] = g[i - 1]
        BY <3>1
      <4>. QED
        BY <3>1, <4>1
    <3>2. CASE i # k + 1
      <4>1. i \in 1..k
        BY <3>2
      <4>2. f[i] = g[i] /\ (i # 1 => f[i - 1] = g[i - 1])
        BY <3>2, <4>1
      <4>. QED
        BY <2>1, <4>1, <4>2 DEF Joins
    <3>. QED
      BY <3>1, <3>2
  <2>3. Joins(f, seqs, k + 1)
    BY <2>2, Zenon DEF Joins
  <2>. QED
    BY <2>3
<1>3. T = {}
  <2>. SUFFICES ASSUME T # {} PROVE FALSE
    OBVIOUS
  <2>1. PICK x \in T : \A y \in T : x <= y
    BY LeastNat
  <2>2. x \in Nat /\ ~P(x)
    OBVIOUS
  <2>. HIDE DEF P
  <2>3. x # 0
    BY <1>1, <2>2
  <2>4. x - 1 \in Nat /\ (x - 1) + 1 = x /\ ~(x <= x - 1)
    BY <2>2, <2>3
  <2>5. P(x - 1)
    BY <2>1, <2>4
  <2>. QED
    BY <1>2, <2>2, <2>4, <2>5
<1>. QED
  BY <1>3

\* FlattenSeq takes its last value.
LEMMA FlattenJoins ==
    ASSUME NEW n \in Nat \ {0}, NEW seqs, Len(seqs) = n
    PROVE  \E f : Joins(f, seqs, n) /\ FlattenSeq(seqs) = f[n]
<1>. DEFINE f == CHOOSE f : Joins(f, seqs, n)
<1>1. FlattenSeq(seqs) = f[n]
  BY Zenon DEF FlattenSeq, Joins
<1>2. Joins(f, seqs, n)
  BY JoinsExist, Zenon
<1>. QED
  BY <1>1, <1>2

\* Lists of one to four steps: a revision has no more.
LEMMA AppliedOne ==
    ASSUME NEW a \in Steps, NEW objs
    PROVE  Applied(<<a>>, objs) = Effect(objs, a)
<1>. DEFINE s == <<a>>
<1>1. /\ s \in Seq(Steps) /\ Len(s) = 1
      /\ s[1] = a
  OBVIOUS
<1>. HIDE DEF s
<1>2. PICK h : Trace(h, s, objs, 1) /\ Applied(s, objs) = h[1]
  BY <1>1, RunTrace
<1>3. h[0] = objs /\ h[1] = Effect(h[0], a)
  BY <1>1, <1>2 DEF Trace
<1>. QED
  BY <1>2, <1>3 DEF s

LEMMA AppliedTwo ==
    ASSUME NEW a \in Steps, NEW b \in Steps, NEW objs
    PROVE  Applied(<<a, b>>, objs) = Effect(Effect(objs, a), b)
<1>. DEFINE s == <<a, b>>
<1>1. /\ s \in Seq(Steps) /\ Len(s) = 2
      /\ s[1] = a /\ s[2] = b
  OBVIOUS
<1>. HIDE DEF s
<1>2. PICK h : Trace(h, s, objs, 2) /\ Applied(s, objs) = h[2]
  BY <1>1, RunTrace
<1>3. h[0] = objs /\ h[1] = Effect(h[0], a) /\ h[2] = Effect(h[1], b)
  BY <1>1, <1>2 DEF Trace
<1>. QED
  BY <1>2, <1>3 DEF s

LEMMA AppliedThree ==
    ASSUME NEW a \in Steps, NEW b \in Steps, NEW c \in Steps, NEW objs
    PROVE  Applied(<<a, b, c>>, objs) = Effect(Effect(Effect(objs, a), b), c)
<1>. DEFINE s == <<a, b, c>>
<1>1. /\ s \in Seq(Steps) /\ Len(s) = 3
      /\ s[1] = a /\ s[2] = b /\ s[3] = c
  OBVIOUS
<1>. HIDE DEF s
<1>2. PICK h : Trace(h, s, objs, 3) /\ Applied(s, objs) = h[3]
  BY <1>1, RunTrace
<1>3. h[0] = objs /\ h[1] = Effect(h[0], a) /\ h[2] = Effect(h[1], b) /\ h[3] = Effect(h[2], c)
  BY <1>1, <1>2 DEF Trace
<1>. QED
  BY <1>2, <1>3 DEF s

LEMMA AppliedFour ==
    ASSUME NEW a \in Steps, NEW b \in Steps, NEW c \in Steps, NEW d \in Steps, NEW objs
    PROVE  Applied(<<a, b, c, d>>, objs) = Effect(Effect(Effect(Effect(objs, a), b), c), d)
<1>. DEFINE s == <<a, b, c, d>>
<1>1. /\ s \in Seq(Steps) /\ Len(s) = 4
      /\ s[1] = a /\ s[2] = b /\ s[3] = c /\ s[4] = d
  OBVIOUS
<1>. HIDE DEF s
<1>2. PICK h : Trace(h, s, objs, 4) /\ Applied(s, objs) = h[4]
  BY <1>1, RunTrace
<1>3. /\ h[0] = objs /\ h[1] = Effect(h[0], a) /\ h[2] = Effect(h[1], b)
      /\ h[3] = Effect(h[2], c) /\ h[4] = Effect(h[3], d)
  BY <1>1, <1>2 DEF Trace
<1>. QED
  BY <1>2, <1>3 DEF s

\* The objects of each revision.
At1 == {"users", "ix_username", "predictions", "ix_user_id"}
At2 == At1 \cup {"ix_company_year_created_at"}
At3 == At2 \cup {"actual_price", "ix_actual_price_created_at"}
At4 == At3 \cup {"public_id", "ix_public_id"}

\* Every object a revision names is one.
LEMMA Names ==
    /\ "users" \in Objects
    /\ "ix_username" \in Objects
    /\ "predictions" \in Objects
    /\ "actual_price" \in Objects
    /\ "public_id" \in Objects
    /\ "ix_public_id" \in Objects
    /\ "ix_actual_price_created_at" \in Objects
    /\ "ix_user_id_created_at" \in Objects
    /\ "ix_user_id" \in Objects
    /\ "ix_company_year_created_at" \in Objects
BY DEF Objects, Models

\* They are made into steps.
LEMMA StepTypes == \A o \in Objects : Create(o) \in Steps /\ Drop(o) \in Steps
BY DEF Create, Drop, Steps

\* What creating and dropping do.
LEMMA EffectIs ==
    ASSUME NEW o, NEW objs
    PROVE  Effect(objs, Create(o)) = objs \cup {o} /\ Effect(objs, Drop(o)) = objs \ {o}
BY DEF Effect, Create, Drop

\* The five revisions.
LEMMA Ups ==
    /\ Upgrade = [r \in 1..5 |-> Revisions[r].up] /\ Downgrade = [r \in 1..5 |-> Revisions[r].down]
    /\ Revisions[1] = Initial /\ Revisions[2] = HistoryIndex /\ Revisions[3] = ActualPrice
    /\ Revisions[4] = PublicId /\ Revisions[5] = HistoryByUser
BY DEF Upgrade, Downgrade, Revisions, Latest

\* The steps of their upgrades.
LEMMA UpLists ==
    /\ Upgrade[1] = <<Create("users"), Create("ix_username"), Create("predictions"),
                       Create("ix_user_id")>>
    /\ Upgrade[2] = <<Create("ix_company_year_created_at")>>
    /\ Upgrade[3] = <<Create("actual_price"), Create("ix_actual_price_created_at")>>
    /\ Upgrade[4] = <<Create("public_id"), Create("ix_public_id")>>
    /\ Upgrade[5] = <<Create("ix_user_id_created_at"), Drop("ix_user_id"),
                       Drop("ix_company_year_created_at")>>
BY Ups DEF Initial, HistoryIndex, ActualPrice, PublicId, HistoryByUser

\* upgrade() of each of them.
LEMMA Up1 == Applied(Upgrade[1], {}) = At1
<1>1. Applied(Upgrade[1], {}) =
        ((({} \cup {"users"}) \cup {"ix_username"}) \cup {"predictions"}) \cup {"ix_user_id"}
  <2>1. Upgrade[1] = <<Create("users"), Create("ix_username"), Create("predictions"),
                       Create("ix_user_id")>>
    BY UpLists
  <2>2. /\ Create("users") \in Steps /\ Create("ix_username") \in Steps
        /\ Create("predictions") \in Steps /\ Create("ix_user_id") \in Steps
    BY Names, StepTypes
  <2>3. Applied(Upgrade[1], {}) =
          Effect(Effect(Effect(Effect({}, Create("users")), Create("ix_username")),
                        Create("predictions")), Create("ix_user_id"))
    BY <2>1, <2>2, AppliedFour
  <2>. QED
    BY <2>3, EffectIs
<1>. QED
  BY <1>1 DEF At1

LEMMA Up2 == Applied(Upgrade[2], At1) = At2
BY UpLists, Names, StepTypes, EffectIs, AppliedOne DEF At2

LEMMA Up3 == Applied(Upgrade[3], At2) = At3
BY UpLists, Names, StepTypes, EffectIs, AppliedTwo DEF At3

LEMMA Up4 == Applied(Upgrade[4], At3) = At4
BY UpLists, Names, StepTypes, EffectIs, AppliedTwo DEF At4

LEMMA Up5 == Applied(Upgrade[5], At4) = Models
<1>1. Applied(Upgrade[5], At4) =
        ((At4 \cup {"ix_user_id_created_at"}) \ {"ix_user_id"}) \ {"ix_company_year_created_at"}
  BY UpLists, Names, StepTypes, EffectIs, AppliedThree
<1>. QED
  BY <1>1 DEF At1, At2, At3, At4, Models

\* downgrade() of each of them.
LEMMA Down1 == Applied(Downgrade[1], At1) = {}
<1>1. Downgrade[1] = <<Drop("ix_user_id"), Drop("predictions"), Drop("ix_username"), Drop("users")>>
  BY Ups DEF Initial
<1>2. Applied(Downgrade[1], At1) =
        (((At1 \ {"ix_user_id"}) \ {"predictions"}) \ {"ix_username"}) \ {"users"}
  <2>1. /\ Drop("ix_user_id") \in Steps /\ Drop("predictions") \in Steps
        /\ Drop("ix_username") \in Steps /\ Drop("users") \in Steps
    BY Names, StepTypes
  <2>2. Applied(Downgrade[1], At1) =
          Effect(Effect(Effect(Effect(At1, Drop("ix_user_id")), Drop("predictions")),
                        Drop("ix_username")), Drop("users"))
    BY <1>1, <2>1, AppliedFour
  <2>. QED
    BY <2>2, EffectIs
<1>. QED
  BY <1>1, <1>2 DEF At1

LEMMA Down2 == Applied(Downgrade[2], At2) = At1
<1>1. Downgrade[2] = <<Drop("ix_company_year_created_at")>>
  BY Ups DEF HistoryIndex
<1>2. Applied(Downgrade[2], At2) = At2 \ {"ix_company_year_created_at"}
  BY <1>1, Names, StepTypes, EffectIs, AppliedOne
<1>. QED
  BY <1>1, <1>2 DEF At1, At2

LEMMA Down3 == Applied(Downgrade[3], At3) = At2
<1>1. Downgrade[3] = <<Drop("ix_actual_price_created_at"), Drop("actual_price")>>
  BY Ups DEF ActualPrice
<1>2. Applied(Downgrade[3], At3) = (At3 \ {"ix_actual_price_created_at"}) \ {"actual_price"}
  BY <1>1, Names, StepTypes, EffectIs, AppliedTwo
<1>. QED
  BY <1>2 DEF At1, At2, At3

LEMMA Down4 == Applied(Downgrade[4], At4) = At3
<1>1. Downgrade[4] = <<Drop("ix_public_id"), Drop("public_id")>>
  BY Ups DEF PublicId
<1>2. Applied(Downgrade[4], At4) = (At4 \ {"ix_public_id"}) \ {"public_id"}
  BY <1>1, Names, StepTypes, EffectIs, AppliedTwo
<1>. QED
  BY <1>2 DEF At1, At2, At3, At4

LEMMA Down5 == Applied(Downgrade[5], Models) = At4
<1>1. Downgrade[5] = <<Create("ix_company_year_created_at"), Create("ix_user_id"),
                       Drop("ix_user_id_created_at")>>
  BY Ups DEF HistoryByUser
<1>2. Applied(Downgrade[5], Models) =
        ((Models \cup {"ix_company_year_created_at"}) \cup {"ix_user_id"})
            \ {"ix_user_id_created_at"}
  BY <1>1, Names, StepTypes, EffectIs, AppliedThree
<1>. QED
  BY <1>2 DEF At1, At2, At3, At4, Models

\* Without steps nothing changes.
LEMMA AppliedNone == ASSUME NEW objs PROVE Applied(<<>>, objs) = objs
<1>1. <<>> \in Seq(Steps) /\ Len(<<>>) = 0
  OBVIOUS
<1>2. PICK h : Trace(h, <<>>, objs, 0) /\ Applied(<<>>, objs) = h[0]
  BY <1>1, RunTrace
<1>. QED
  BY <1>2 DEF Trace

\* What upgrade() of each revision does are steps.
LEMMA UpSteps == \A r \in 1..5 : Upgrade[r] \in Seq(Steps)
<1>1. Upgrade[1] \in Seq(Steps) /\ Upgrade[2] \in Seq(Steps) /\ Upgrade[3] \in Seq(Steps)
  BY UpLists, Names, StepTypes
<1>2. Upgrade[4] \in Seq(Steps) /\ Upgrade[5] \in Seq(Steps)
  BY UpLists, Names, StepTypes
<1>. QED
  BY <1>1, <1>2

\* Lists of steps, and the objects after each of the first n of them.
Lists(seqs, n) == Len(seqs) = n /\ \A i \in 1..n : seqs[i] \in Seq(Steps)
Chain(F, seqs, objs, n) == F[0] = objs /\ \A i \in 1..n : F[i] = Applied(seqs[i], F[i - 1])

\* Revisions that are joined are run one after the other.
LEMMA AppliedFlatten ==
    ASSUME NEW n \in Nat \ {0}, NEW seqs, Lists(seqs, n), NEW objs
    PROVE  \E F : Chain(F, seqs, objs, n) /\ Applied(FlattenSeq(seqs), objs) = F[n]
<1>0. n \in Nat \ {0} /\ Len(seqs) = n /\ \A i \in 1..n : seqs[i] \in Seq(Steps)
  BY DEF Lists
<1>1. PICK f : Joins(f, seqs, n) /\ FlattenSeq(seqs) = f[n]
  BY <1>0, FlattenJoins
<1>2. \A i \in 1..n : f[i] = IF i = 1 THEN seqs[i] ELSE f[i - 1] \o seqs[i]
  BY <1>1 DEF Joins
<1>3. \A i \in 1..n : f[i] \in Seq(Steps)
  <2>. DEFINE T == {i \in 1..n : f[i] \notin Seq(Steps)}
  <2>. SUFFICES ASSUME T # {} PROVE FALSE
    OBVIOUS
  <2>1. PICK i \in T : \A y \in T : i <= y
    <3>1. T \subseteq Nat
      OBVIOUS
    <3>. HIDE DEF T
    <3>. QED
      BY <3>1, LeastNat
  <2>2. i \in 1..n /\ f[i] \notin Seq(Steps)
    OBVIOUS
  <2>3. CASE i = 1
    BY <1>0, <1>2, <2>2, <2>3
  <2>4. CASE i # 1
    <3>1. i - 1 \in 1..n /\ ~(i <= i - 1)
      BY <2>2, <2>4
    <3>2. f[i - 1] \in Seq(Steps)
      BY <2>1, <3>1
    <3>3. f[i] = f[i - 1] \o seqs[i]
      BY <1>2, <2>2, <2>4, Zenon
    <3>4. seqs[i] \in Seq(Steps)
      BY <1>0, <2>2
    <3>5. f[i] \in Seq(Steps)
      BY ONLY <3>2, <3>3, <3>4
    <3>. QED
      BY <2>2, <3>5
  <2>. QED
    BY <2>3, <2>4
<1>. DEFINE F == [i \in 0..n |-> IF i = 0 THEN objs ELSE Applied(f[i], objs)]
<1>4. ASSUME NEW i \in 1..n PROVE F[i] = Applied(seqs[i], F[i - 1])
  <2>1. F[i] = Applied(f[i], objs) /\ i - 1 \in 0..n
    OBVIOUS
  <2>2. CASE i = 1
    BY <1>2, <2>1, <2>2
  <2>3. CASE i # 1
    <3>0. i - 1 \in 1..n
      BY <2>3
    <3>1. i - 1 \in 1..n /\ f[i] = f[i - 1] \o seqs[i]
      BY <1>2, <2>3, <3>0, Zenon
    <3>2. Applied(f[i], objs) = Applied(seqs[i], Applied(f[i - 1], objs))
      <4>1. f[i - 1] \in Seq(Steps) /\ seqs[i] \in Seq(Steps)
        BY <1>0, <1>3, <3>1
      <4>2. Applied(f[i - 1] \o seqs[i], objs) = Applied(seqs[i], Applied(f[i - 1], objs))
        BY <4>1, AppliedConcat
      <4>. QED
        BY <3>1, <4>2, Zenon
    <3>3. F[i - 1] = Applied(f[i - 1], objs)
      BY <2>1, <3>1
    <3>. QED
      BY <2>1, <3>2, <3>3
  <2>. QED
    BY <2>2, <2>3
<1>5. F[0] = objs /\ Applied(FlattenSeq(seqs), objs) = F[n]
  BY <1>1
<1>6. Chain(F, seqs, objs, n)
  BY <1>4, <1>5 DEF Chain
<1>. QED
  BY <1>5, <1>6

\* The schema of each revision.
LEMMA SchemaAt ==
    /\ ObjectsAt[0] = {} /\ ObjectsAt[1] = At1 /\ ObjectsAt[2] = At2 /\ ObjectsAt[3] = At3
    /\ ObjectsAt[4] = At4 /\ ObjectsAt[5] = Models
<1>0. \A r \in 0..5 : ObjectsAt[r] = Applied(FlattenSeq(SubSeq(Upgrade, 1, r)), {})
  BY DEF ObjectsAt, Applied, Latest
<1>1. ASSUME NEW r \in 1..5
      PROVE  \E F : Chain(F, Upgrade, {}, r) /\ ObjectsAt[r] = F[r]
  <2>. DEFINE seqs == SubSeq(Upgrade, 1, r)
  <2>1. Len(seqs) = r /\ \A i \in 1..r : seqs[i] = Upgrade[i]
    BY DEF Upgrade, Latest
  <2>2. \A i \in 1..r : seqs[i] \in Seq(Steps)
    BY <2>1, UpSteps
  <2>. HIDE DEF seqs
  <2>3. PICK F : Chain(F, seqs, {}, r) /\ Applied(FlattenSeq(seqs), {}) = F[r]
    <3>1. r \in Nat \ {0} /\ Lists(seqs, r)
      BY <2>1, <2>2 DEF Lists
    <3>. QED
      BY <3>1, AppliedFlatten
  <2>4. ObjectsAt[r] = F[r]
    BY <1>0, <2>3 DEF seqs
  <2>. QED
    BY <2>1, <2>3, <2>4 DEF Chain
<1>2. ObjectsAt[0] = {}
  <2>1. SubSeq(Upgrade, 1, 0) = <<>>
    BY DEF Upgrade, Latest
  <2>2. ObjectsAt[0] = Applied(FlattenSeq(SubSeq(Upgrade, 1, 0)), {})
    BY <1>0
  <2>. QED
    BY <2>1, <2>2, FlattenNone, AppliedNone, Zenon
<1>3. ObjectsAt[1] = At1
  <2>1. PICK F : Chain(F, Upgrade, {}, 1) /\ ObjectsAt[1] = F[1]
    BY <1>1
  <2>. QED
    BY <2>1, Up1 DEF Chain
<1>4. ObjectsAt[2] = At2
  <2>1. PICK F : Chain(F, Upgrade, {}, 2) /\ ObjectsAt[2] = F[2]
    BY <1>1
  <2>. QED
    BY <2>1, Up1, Up2 DEF Chain
<1>5. ObjectsAt[3] = At3
  <2>1. PICK F : Chain(F, Upgrade, {}, 3) /\ ObjectsAt[3] = F[3]
    BY <1>1
  <2>. QED
    BY <2>1, Up1, Up2, Up3 DEF Chain
<1>6. ObjectsAt[4] = At4
  <2>1. PICK F : Chain(F, Upgrade, {}, 4) /\ ObjectsAt[4] = F[4]
    BY <1>1
  <2>. QED
    BY <2>1, Up1, Up2, Up3, Up4 DEF Chain
<1>7. ObjectsAt[5] = Models
  <2>1. PICK F : Chain(F, Upgrade, {}, 5) /\ ObjectsAt[5] = F[5]
    BY <1>1
  <2>. QED
    BY <2>1, Up1, Up2, Up3, Up4, Up5 DEF Chain
<1>. QED
  BY <1>2, <1>3, <1>4, <1>5, <1>6, <1>7

\* From every revision the steps to come lead to the latest, whose schema is
\* the one models.py describes.
LEMMA UpgradeCompletes ==
    ASSUME NEW r \in 0..4
    PROVE  Applied(StepsFrom[r], ObjectsAt[r]) = Models
<1>. DEFINE seqs == SubSeq(Upgrade, r + 1, 5)
<1>1. Len(seqs) = 5 - r /\ \A i \in 1..(5 - r) : seqs[i] = Upgrade[r + i]
  BY DEF Upgrade, Latest
<1>2. StepsFrom[r] = FlattenSeq(seqs)
  BY DEF StepsFrom, Latest
<1>. HIDE DEF seqs
<1>3. \A i \in 1..(5 - r) : seqs[i] \in Seq(Steps)
  <2>. SUFFICES ASSUME NEW i \in 1..(5 - r) PROVE seqs[i] \in Seq(Steps)
    OBVIOUS
  <2>1. r + i \in 1..5
    OBVIOUS
  <2>. QED
    BY <1>1, <2>1, UpSteps
<1>4. PICK F : Chain(F, seqs, ObjectsAt[r], 5 - r)
               /\ Applied(FlattenSeq(seqs), ObjectsAt[r]) = F[5 - r]
  <2>1. 5 - r \in Nat \ {0} /\ Lists(seqs, 5 - r)
    BY <1>1, <1>3 DEF Lists
  <2>. QED
    BY <2>1, AppliedFlatten
<1>5. F[0] = ObjectsAt[r] /\ \A i \in 1..(5 - r) : F[i] = Applied(Upgrade[r + i], F[i - 1])
  BY <1>1, <1>4 DEF Chain
<1>6. F[5 - r] = Models
  <2>0. CASE r = 0
    BY <1>5, <2>0, SchemaAt, Up1, Up2, Up3, Up4, Up5
  <2>1. CASE r = 1
    BY <1>5, <2>1, SchemaAt, Up2, Up3, Up4, Up5
  <2>2. CASE r = 2
    BY <1>5, <2>2, SchemaAt, Up3, Up4, Up5
  <2>3. CASE r = 3
    BY <1>5, <2>3, SchemaAt, Up4, Up5
  <2>4. CASE r = 4
    BY <1>5, <2>4, SchemaAt, Up5
  <2>. QED
    BY <2>0, <2>1, <2>2, <2>3, <2>4
<1>. QED
  BY <1>2, <1>4, <1>6

\* A downgrade leads back to the schema before.
LEMMA DowngradeReturns ==
    ASSUME NEW r \in 1..5
    PROVE  Applied(Downgrade[r], ObjectsAt[r]) = ObjectsAt[r - 1]
<1>1. CASE r = 1
  BY <1>1, SchemaAt, Down1
<1>2. CASE r = 2
  BY <1>2, SchemaAt, Down2
<1>3. CASE r = 3
  BY <1>3, SchemaAt, Down3
<1>4. CASE r = 4
  BY <1>4, SchemaAt, Down4
<1>5. CASE r = 5
  BY <1>5, SchemaAt, Down5
<1>. QED
  BY <1>1, <1>2, <1>3, <1>4, <1>5

-----------------------------------------------------------------------------
(* The database and the containers                                         *)

\* The schema is the one of its revision.
Schema == revision \in 0..5 /\ downgrades \in 0..MaxDowngrades /\ objects = ObjectsAt[revision]

\* Without a downgrade the revision only grows: who has read the latest one, or
\* has migrated, finds it still there.  A worker runs in a migrated container.
StartupOK ==
    /\ container \in [Containers -> {"down", "migrating", "migrated"}]
    /\ seen \in [Containers -> 0..5]
    /\ starts \in 0..MaxStarts
    /\ downgrades = 0 =>
           \A c \in Containers : /\ container[c] = "migrating" => seen[c] <= revision
                                 /\ container[c] = "migrated" => revision = 5
    /\ stage # "down" =>
           container[Watched] = "migrated" /\ Accepted(settings) /\ Usable(settings)

StartInv == Schema /\ StartupOK

\* A database is found at one of the revisions; nothing runs.
LEMMA InitStart == Init => StartInv
BY ServiceAssumption DEF Init, StartInv, Schema, StartupOK, Latest

\* A migration reads the revision there is.
LEMMA MigrateStart == ASSUME StartInv, NEW c \in Containers, Migrate(c) PROVE StartInv'
<1>1. Schema'
  BY DEF StartInv, Schema, Migrate, database
<1>2. /\ container' = [container EXCEPT ![c] = "migrating"]
      /\ seen' = [seen EXCEPT ![c] = revision]
      /\ starts' = starts + 1 /\ starts < MaxStarts /\ container[c] = "down"
      /\ UNCHANGED <<revision, objects, downgrades, stage, settings>>
  BY DEF Migrate, database, worker
<1>3. starts' \in 0..MaxStarts /\ revision \in 0..5
  BY <1>2, ServiceAssumption DEF StartInv, StartupOK, Schema
<1>. QED
  BY <1>1, <1>2, <1>3 DEF StartInv, StartupOK, Accepted, Usable

\* A migration commits the latest schema, or nothing.
LEMMA MigrationEndsStart == ASSUME StartInv, NEW c \in Containers, MigrationEnds(c) PROVE StartInv'
<1>. DEFINE after == Run(StepsFrom[seen[c]], objects)
            fits == seen[c] # Latest /\ revision = seen[c] /\ after.ok
<1>1. /\ container[c] = "migrating"
      /\ container' = [container EXCEPT ![c] =
                          IF fits \/ seen[c] = Latest THEN "migrated" ELSE "down"]
      /\ IF fits THEN objects' = after.objects /\ revision' = Latest
                 ELSE UNCHANGED <<objects, revision>>
      /\ UNCHANGED <<seen, downgrades, starts, stage, settings>>
  BY DEF MigrationEnds, Migrated, worker
<1>2. fits => after.objects = Models
  <2>. SUFFICES ASSUME fits PROVE after.objects = Models
    OBVIOUS
  <2>1. seen[c] = revision /\ revision \in 0..4 /\ objects = ObjectsAt[revision]
    BY DEF StartInv, Schema, Latest
  <2>. QED
    BY <2>1, UpgradeCompletes DEF Applied
<1>. HIDE DEF after, fits
<1>3. Schema'
  <2>1. CASE fits
    BY <1>1, <1>2, <2>1, SchemaAt DEF StartInv, Schema, Latest
  <2>2. CASE ~fits
    BY <1>1, <2>2 DEF StartInv, Schema
  <2>. QED
    BY <2>1, <2>2
<1>4. revision' = revision \/ revision' = 5
  BY <1>1 DEF Latest
<1>5. fits => revision' = 5
  BY <1>1 DEF Latest
<1>6. downgrades = 0 /\ seen[c] = Latest => revision' = 5
  BY <1>1, <1>4 DEF StartInv, StartupOK, Schema, Latest
<1>7. c = Watched => stage = "down"
  BY <1>1 DEF StartInv, StartupOK
<1>. QED
  <2>1. /\ container' \in [Containers -> {"down", "migrating", "migrated"}]
        /\ seen' \in [Containers -> 0..5] /\ starts' \in 0..MaxStarts
    BY <1>1 DEF StartInv, StartupOK
  <2>2. ASSUME downgrades' = 0, NEW d \in Containers
        PROVE  /\ container'[d] = "migrating" => seen'[d] <= revision'
               /\ container'[d] = "migrated" => revision' = 5
    <3>1. CASE d = c
      BY <1>1, <1>5, <1>6, <2>2, <3>1 DEF StartInv, StartupOK
    <3>2. CASE d # c
      <4>1. container'[d] = container[d] /\ downgrades = 0
        BY <1>1, <2>2, <3>2 DEF StartInv, StartupOK
      <4>2. seen[d] \in 0..5 /\ revision \in 0..5
        BY DEF StartInv, StartupOK, Schema
      <4>. QED
        BY <1>1, <1>4, <4>1, <4>2 DEF StartInv, StartupOK
    <3>. QED
      BY <3>1, <3>2
  <2>3. stage' # "down" =>
            container'[Watched] = "migrated" /\ Accepted(settings') /\ Usable(settings')
    BY <1>1, <1>7, ServiceAssumption DEF StartInv, StartupOK, Accepted, Usable
  <2>. QED
    BY <1>3, <2>1, <2>2, <2>3 DEF StartInv, StartupOK, Accepted, Usable

\* A kill touches neither the schema nor another container.
LEMMA KillStart == ASSUME StartInv, NEW c \in Containers, Kill(c) PROVE StartInv'
<1>1. Schema'
  BY DEF StartInv, Schema, Kill, database
<1>2. /\ container' = [container EXCEPT ![c] = "down"]
      /\ UNCHANGED <<seen, starts, revision, downgrades>>
      /\ c = Watched => stage' = "down"
      /\ c # Watched => UNCHANGED <<stage, settings>>
  BY DEF Kill, database, worker
<1>. QED
  BY <1>1, <1>2 DEF StartInv, StartupOK, Accepted, Usable

\* A downgrade is one revision back.
LEMMA DowngradeStart == ASSUME StartInv, DowngradeOne PROVE StartInv'
<1>1. /\ revision \in 1..5 /\ revision' = revision - 1
      /\ objects' = Applied(Downgrade[revision], objects)
      /\ downgrades' = downgrades + 1 /\ downgrades < MaxDowngrades
      /\ UNCHANGED <<container, seen, starts, stage, settings>>
  BY DEF StartInv, Schema, DowngradeOne, startup, worker, Applied
<1>2. downgrades' \in 0..MaxDowngrades /\ downgrades' # 0
  BY <1>1, ServiceAssumption DEF StartInv, Schema
<1>3. objects' = ObjectsAt[revision']
  BY <1>1, DowngradeReturns DEF StartInv, Schema
<1>. QED
  BY <1>1, <1>2, <1>3 DEF StartInv, Schema, StartupOK, Accepted, Usable

\* What normalise_database_url returns, if it is for asyncpg, asyncpg can use.
LEMMA NormalisedUsable ==
    ASSUME NEW e, Accepted(e), Normalised(e).scheme = "postgresql+asyncpg"
    PROVE  Accepted(Normalised(e)) /\ Usable(Normalised(e))
<1>1. e.scheme \in Postgres \cup {"postgresql+asyncpg"}
  BY DEF Normalised
<1>2. Normalised(e) =
          [scheme |-> "postgresql+asyncpg", secret |-> e.secret,
           params |-> {IF p = "sslmode" THEN "ssl" ELSE p : p \in e.params \ {"channel_binding"}}]
  BY <1>1 DEF Normalised
<1>. QED
  BY <1>2 DEF Accepted, Usable

\* A worker boots in a migrated container.
LEMMA BootStart == ASSUME StartInv, Boot PROVE StartInv'
<1>1. PICK e \in Environments : /\ Accepted(e) /\ Normalised(e).scheme = "postgresql+asyncpg"
                                /\ settings' = Normalised(e)
  BY DEF Boot
<1>2. Accepted(settings') /\ Usable(settings')
  BY <1>1, NormalisedUsable
<1>. QED
  BY <1>2 DEF StartInv, Schema, StartupOK, Boot, database, startup, Accepted, Usable

\* What a running worker does changes neither the database nor the containers.
LEMMA WorkerStart ==
    ASSUME StartInv, UNCHANGED <<database, startup, settings>>,
           stage' = stage \/ stage # "down"
    PROVE  StartInv'
BY DEF StartInv, Schema, StartupOK, database, startup, Accepted, Usable

\* The process ends together with its container.
LEMMA ExitStart == ASSUME StartInv, Exit PROVE StartInv'
BY DEF StartInv, Schema, StartupOK, Exit, database, Accepted, Usable

\* Every step of a migration, a downgrade, a start and a stop preserves it.
THEOREM StartInductive == StartInv /\ [Next]_vars => StartInv'
<1>. SUFFICES ASSUME StartInv, [Next]_vars PROVE StartInv'
  OBVIOUS
<1>1. CASE UNCHANGED vars
  BY <1>1, WorkerStart DEF vars, worker
<1>2. ASSUME NEW c \in Containers, Migrate(c) \/ MigrationEnds(c) \/ Kill(c) PROVE StartInv'
  BY <1>2, MigrateStart, MigrationEndsStart, KillStart
<1>3. CASE DowngradeOne \/ Boot \/ Exit
  BY <1>3, DowngradeStart, BootStart, ExitStart
<1>4. ASSUME NEW r \in Requests, Begin(r) \/ Handle(r) \/ End(r) \/ HandleException(r)
      PROVE  StartInv'
  BY <1>4, WorkerStart DEF Begin, Handle, End, HandleException
<1>5. CASE Write \/ Flush \/ Refresh \/ RefresherEnds
  BY <1>5, WorkerStart DEF Write, Flush, Refresh, RefresherEnds
<1>6. CASE Terminate
  BY <1>6, WorkerStart DEF Terminate
<1>7. CASE Stop
  <2>1. PICK i \in 1..(Len(StopOrder) - 1) : stage = StopOrder[i]
    BY <1>7 DEF Stop
  <2>2. stage # "down"
    BY <2>1 DEF StopOrder
  <2>. QED
    BY <1>7, <2>2, WorkerStart DEF Stop
<1>. QED
  BY <1>1, <1>2, <1>3, <1>4, <1>5, <1>6, <1>7 DEF Next

\* It holds always.
LEMMA StartInvariant == Spec => []StartInv
BY InitStart, StartInductive, PTL DEF Spec

\* However many containers migrate at a time, fail or are killed, and however
\* often an operator downgrades, the schema is the one of its revision.
THEOREM SchemaIsARevisionHolds == Spec => []SchemaIsARevision
<1>1. StartInv => SchemaIsARevision
  BY DEF StartInv, Schema, SchemaIsARevision
<1>. QED
  BY <1>1, StartInvariant, PTL

\* A worker runs with settings asyncpg can use and, unless an operator
\* downgraded the database, with the schema models.py describes.
THEOREM ServesWhatItNeedsHolds == Spec => []ServesWhatItNeeds
<1>1. StartInv => ServesWhatItNeeds
  BY SchemaAt, ServiceAssumption DEF StartInv, Schema, StartupOK, ServesWhatItNeeds
<1>. QED
  BY <1>1, StartInvariant, PTL

-----------------------------------------------------------------------------
(* The types of the remaining variables                                    *)

\* What IInv leaves out.
WorkerVariables ==
    /\ refresher \in {"off", "asleep", "working", "cancelled"}
    /\ writer \in {"off", "idle", "flushing"}
    /\ queued \in BOOLEAN /\ lost \in BOOLEAN
    /\ lines \subseteq Line

\* A line that is emitted is one, of a request or of a task.
LEMMA EmitLine ==
    ASSUME WorkerVariables, NEW r \in Requests \cup {"none"}, NEW id \in Requests \cup {"-"},
           NEW where \in {"below", "above", "background"}, Emit(r, id, where)
    PROVE  lines' \subseteq Line /\ lost' \in BOOLEAN
<1>1. [request |-> r, id |-> id, where |-> where] \in Line
  BY DEF Line
<1>. QED
  BY <1>1 DEF Emit, WorkerVariables

\* So is what a task may log.
LEMMA MayLogLine ==
    ASSUME WorkerVariables, MayLog
    PROVE  lines' \subseteq Line /\ lost' \in BOOLEAN
<1>1. CASE UNCHANGED logging
  BY <1>1 DEF WorkerVariables, logging
<1>2. CASE Emit("none", "-", "background")
  BY <1>2, EmitLine
<1>. QED
  BY <1>1, <1>2 DEF MayLog

\* Every step keeps these types; the request's id is one by IInv.
LEMMA VariablesInductive == IInv /\ WorkerVariables /\ [Next]_vars => WorkerVariables'
<1>. SUFFICES ASSUME IInv, WorkerVariables, [Next]_vars PROVE WorkerVariables'
  OBVIOUS
<1>1. CASE UNCHANGED worker
  BY <1>1 DEF worker, background, logging, WorkerVariables
<1>2. ASSUME NEW c \in Containers, Migrate(c) \/ MigrationEnds(c) \/ Kill(c)
      PROVE  WorkerVariables'
  <2>1. CASE Kill(c)
    BY <1>1, <2>1 DEF Kill, WorkerVariables
  <2>. QED
    BY <1>1, <1>2, <2>1 DEF Migrate, MigrationEnds
<1>3. ASSUME NEW r \in Requests, Begin(r) \/ Handle(r) \/ End(r) \/ HandleException(r)
      PROVE  WorkerVariables'
  <2>1. context[r] \in Requests \cup {"-"}
    BY DEF IInv, WorkerTypes
  <2>2. CASE Begin(r)
    BY <2>2 DEF Begin, WorkerVariables, background, logging
  <2>3. CASE Handle(r)
    <3>1. CASE Emit(r, context[r], "below")
      BY <2>1, <2>3, <3>1, EmitLine DEF Handle, WorkerVariables
    <3>2. CASE queued' = TRUE /\ UNCHANGED logging
      BY <2>3, <3>2 DEF Handle, WorkerVariables, logging
    <3>. QED
      BY <2>3, <3>1, <3>2 DEF Handle
  <2>4. CASE End(r)
    <3>1. Emit(r, context[r], "below")
      BY <2>4 DEF End
    <3>. QED
      BY <2>1, <2>4, <3>1, EmitLine DEF End, WorkerVariables, background
  <2>5. CASE HandleException(r)
    <3>1. Emit(r, context[r], "above")
      BY <2>5 DEF HandleException
    <3>. QED
      BY <2>1, <2>5, <3>1, EmitLine DEF HandleException, WorkerVariables, background
  <2>. QED
    BY <1>3, <2>2, <2>3, <2>4, <2>5
<1>4. CASE Boot \/ Write
  BY <1>4 DEF Boot, StartRefresher, Write, WorkerVariables, background, logging
<1>5. CASE Flush
  <2>1. lines' \subseteq Line /\ lost' \in BOOLEAN
    BY <1>5, MayLogLine DEF Flush, WorkerVariables, logging
  <2>. QED
    BY <1>5, <2>1 DEF Flush, WorkerVariables
<1>6. CASE Refresh
  <2>1. lines' \subseteq Line /\ lost' \in BOOLEAN
    BY <1>6, MayLogLine DEF Refresh, WorkerVariables, logging
  <2>. QED
    BY <1>6, <2>1 DEF Refresh, WorkerVariables
<1>7. CASE RefresherEnds
  BY <1>7 DEF RefresherEnds, AfterCancel, WorkerVariables, logging
<1>8. CASE Terminate \/ Exit
  BY <1>8 DEF Terminate, Exit, WorkerVariables, background, logging
<1>9. CASE Stop
  <2>1. PICK i \in 1..(Len(StopOrder) - 1) :
            \/ StopNext(StopOrder[i + 1])
            \/ StopOrder[i + 1] = "refresher_stopped" /\ CancelRefresher
    BY <1>9 DEF Stop
  <2>2. lost' = lost
    BY <1>9 DEF Stop
  <2>3. CASE CancelRefresher
    BY <2>2, <2>3 DEF CancelRefresher, WorkerVariables
  <2>4. CASE StopNext(StopOrder[i + 1])
    BY <2>2, <2>4 DEF StopNext, StopWriter, StopLogging, WorkerVariables, background
  <2>. QED
    BY <2>1, <2>3, <2>4
<1>. QED
  <2>1. CASE UNCHANGED vars
    BY <1>1, <2>1 DEF vars
  <2>2. CASE DowngradeOne
    BY <1>1, <2>2 DEF DowngradeOne
  <2>. QED
    BY <1>2, <1>3, <1>4, <1>5, <1>6, <1>7, <1>8, <1>9, <2>1, <2>2 DEF Next

\* The objects of a revision are among those the revisions know.
LEMMA SchemaObjects ==
    ASSUME NEW r \in 0..5
    PROVE  ObjectsAt[r] \subseteq Objects
<1>1. /\ {} \subseteq Objects /\ At1 \subseteq Objects /\ At2 \subseteq Objects
      /\ At3 \subseteq Objects /\ At4 \subseteq Objects /\ Models \subseteq Objects
  BY DEF At1, At2, At3, At4, Objects, Models
<1>. QED
  BY <1>1, SchemaAt

\* The stages are down, serving and those of the shutdown.
LEMMA StageOrder == Stages = {"down", "serving"} \cup Range(StopOrder)
<1>1. DOMAIN StopOrder = 1..6
  BY DEF StopOrder
<1>2. /\ StopOrder[1] = "draining" /\ StopOrder[2] = "refresher_stopped"
      /\ StopOrder[3] = "writer_stopped" /\ StopOrder[4] = "redis_closed"
      /\ StopOrder[5] = "engine_disposed" /\ StopOrder[6] = "logging_stopped"
  BY DEF StopOrder
<1>3. Range(StopOrder) = {"draining", "refresher_stopped", "writer_stopped", "redis_closed",
                          "engine_disposed", "logging_stopped"}
  BY <1>1, <1>2 DEF Range
<1>. QED
  BY <1>3 DEF Stages

\* The variables keep their types, the objects of the database among them.
THEOREM TypeCorrect == Spec => []TypeOK
<1>1. Init => WorkerVariables
  BY DEF Init, WorkerVariables
<1>2. IInv /\ StartInv /\ WorkerVariables => TypeOK
  <2>. SUFFICES ASSUME IInv, StartInv, WorkerVariables PROVE TypeOK
    OBVIOUS
  <2>1. objects \subseteq Models \cup {"ix_user_id", "ix_company_year_created_at"}
    BY SchemaObjects DEF StartInv, Schema, Objects
  <2>2. stage \in {"down", "serving"} \cup Range(StopOrder)
    BY StageOrder DEF IInv, WorkerTypes
  <2>. QED
    BY <2>1, <2>2 DEF IInv, WorkerTypes, StartInv, Schema, StartupOK, WorkerVariables, TypeOK,
                      Latest
<1>. QED
  BY <1>1, <1>2, Invariant, StartInvariant, VariablesInductive, PTL DEF Spec
=============================================================================
