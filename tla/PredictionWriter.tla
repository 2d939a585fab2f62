--------------------------- MODULE PredictionWriter ---------------------------
(***************************************************************************)
(* The batching writer of the prediction log: class PredictionWriter of    *)
(* src/app/services/prediction_writer.py, with log_many of                 *)
(* src/app/db/repositories.py and the start and stop the lifespan of       *)
(* src/app/main.py makes.                                                  *)
(*                                                                         *)
(* One asyncio event loop runs everything, so a step is what the code does *)
(* between two awaits.  Three coroutines can be inside _flush at once: the *)
(* consumer task, stop (which drains the queue) and flush_now.  Each keeps *)
(* its batch and its local tallies in flush[flow].                         *)
(*                                                                         *)
(* The database commits the statement of a flow (Commit) before the flow   *)
(* learns of it, so an error or a cancellation may follow a commit that    *)
(* took place.  A COMMIT that lands after its client gave up is the same   *)
(* as one that lands just before: nothing reads the row in between.        *)
(***************************************************************************)
EXTENDS Integers, Sequences, FiniteSets, Functions

CONSTANTS
    Users,         \* users whose tokens are in circulation
    BatchSize,     \* batch_size
    MaxQueue,      \* max_queue
    MaxRows,       \* bound: rows the requests offer over a whole behaviour
    FlushNowUsed   \* whether somebody calls flush_now beside the consumer

ASSUME WriterAssumption ==
    /\ BatchSize \in Nat \ {0}
    /\ MaxQueue \in Nat \ {0}
    /\ MaxRows \in Nat
    /\ FlushNowUsed \in BOOLEAN

VARIABLES
    task,          \* _task: "none", "running", or "cancelled" (done, not yet None)
    stopping,      \* where stop is: "no", "awaiting" the task, "draining"
    queue,         \* _queue
    flush,         \* per flow: the batch it is flushing and its local tallies
    written,       \* the written counter
    dropped,       \* the dropped counter, per reason
    depth,         \* the QUEUE_DEPTH gauge
    db,            \* predictions table: rows in the order of their ids
    deletedUsers,  \* users deleted after their token was issued
    owner,         \* history: the user of each row, by row number
    arrivals,      \* history: calls of enqueue since the process started
    abandoned      \* history: rows in batches given up without being counted

vars == <<task, stopping, queue, flush, written, dropped, depth, db,
          deletedUsers, owner, arrivals, abandoned>>

Flows == {"consumer", "stop", "flush_now"}
Reasons == {"queue_full", "rejected", "write_failed"}

\* Rows are numbered as they are offered: the number stands for the public_id.
Rows == 1..MaxRows
issued == Len(owner)

Lesser(a, b) == IF a <= b THEN a ELSE b
Total(counter) == counter["queue_full"] + counter["rejected"] + counter["write_failed"]

Idle == [mode |-> "idle", batch |-> <<>>, written |-> 0, rejected |-> 0, landed |-> FALSE]
Flushing(batch) == [Idle EXCEPT !.mode = "batch", !.batch = batch]

Active(f) == flush[f].mode # "idle"
Held(f) == Len(flush[f].batch)
\* Rows of f's batch the row by row retry has settled.
Settled(f) == flush[f].written + flush[f].rejected
Remaining(f) == Settled(f) < Held(f)

\* The rows of the INSERT flow f has in flight: its whole batch in _flush,
\* one row at a time in _flush_row_by_row.
Statement(f) ==
    CASE flush[f].mode = "batch" -> flush[f].batch
      [] flush[f].mode = "rows" /\ Remaining(f) -> <<flush[f].batch[Settled(f) + 1]>>
      [] OTHER -> <<>>

\* predictions.user_id references users, public_id is unique.
Refused(r) == owner[r] \in deletedUsers \/ r \in Range(db)
StatementRefused(f) == \E r \in Range(Statement(f)) : Refused(r)

\* A cancelled task resumes with CancelledError and does nothing else.
Resumable(f) == Active(f) /\ ~(f = "consumer" /\ stopping = "awaiting")

-----------------------------------------------------------------------------

Init ==
    /\ task = "none"
    /\ stopping = "no"
    /\ queue = <<>>
    /\ flush = [f \in Flows |-> Idle]
    /\ written = 0
    /\ dropped = [reason \in Reasons |-> 0]
    /\ depth = 0
    /\ db = <<>>
    /\ deletedUsers = {}
    /\ owner = <<>>
    /\ arrivals = 0
    /\ abandoned = 0

\* Requests are served from the end of startup to the beginning of shutdown.
Serving == task = "running" /\ stopping = "no"

Offered(u) ==
    /\ Serving
    /\ issued < MaxRows
    /\ owner' = Append(owner, u)
    /\ arrivals' = arrivals + 1

\* enqueue, put_nowait succeeds.
Accept(u) ==
    /\ Len(queue) < MaxQueue
    /\ Offered(u)
    /\ queue' = Append(queue, issued + 1)
    /\ depth' = Len(queue) + 1
    /\ UNCHANGED <<task, stopping, flush, written, dropped, db, deletedUsers, abandoned>>

\* Mutation of Shed: QueueFull is swallowed.
ShedUncounted(u) ==
    /\ Len(queue) >= MaxQueue
    /\ Offered(u)
    /\ UNCHANGED <<task, stopping, queue, flush, written, dropped, depth, db, deletedUsers,
                   abandoned>>

\* enqueue, QueueFull: the row is shed and counted.
Shed(u) ==
    /\ Len(queue) >= MaxQueue
    /\ Offered(u)
    /\ dropped' = [dropped EXCEPT !["queue_full"] = @ + 1]
    /\ UNCHANGED <<task, stopping, queue, flush, written, depth, db, deletedUsers, abandoned>>

Start ==
    /\ task = "none"
    /\ stopping = "no"
    /\ task' = "running"
    /\ UNCHANGED <<stopping, queue, flush, written, dropped, depth, db, deletedUsers,
                   owner, arrivals, abandoned>>

\* Mutation of TakeBatch: the newest rows first.
TakeNewest ==
    /\ Serving
    /\ ~Active("consumer")
    /\ queue # <<>>
    /\ flush' = [flush EXCEPT !["consumer"] = Flushing(<<queue[Len(queue)]>>)]
    /\ queue' = SubSeq(queue, 1, Len(queue) - 1)
    /\ UNCHANGED <<task, stopping, written, dropped, depth, db, deletedUsers, owner,
                   arrivals, abandoned>>

\* _run: get, then get_nowait up to batch_size, then into _flush.
TakeBatch ==
    /\ Serving
    /\ ~Active("consumer")
    /\ queue # <<>>
    /\ LET n == Lesser(BatchSize, Len(queue))
       IN /\ flush' = [flush EXCEPT !["consumer"] = Flushing(SubSeq(queue, 1, n))]
          /\ queue' = SubSeq(queue, n + 1, Len(queue))
    /\ UNCHANGED <<task, stopping, written, dropped, depth, db, deletedUsers, owner,
                   arrivals, abandoned>>

-----------------------------------------------------------------------------
(* _flush and _flush_row_by_row                                            *)

\* Mutation of Finish: the gauge is not refreshed.
FinishSilently(f, wrote, counts) ==
    /\ flush' = [flush EXCEPT ![f] = Idle]
    /\ written' = written + wrote
    /\ dropped' = [reason \in Reasons |-> dropped[reason] + counts[reason]]
    /\ stopping' = IF f = "stop" THEN "no" ELSE stopping
    /\ UNCHANGED <<task, queue, depth, db, deletedUsers, owner, arrivals, abandoned>>

\* The end of _flush: the counters and the gauge in one step, as nothing is
\* awaited between them; a stop that was draining returns.
Finish(f, wrote, counts) ==
    /\ flush' = [flush EXCEPT ![f] = Idle]
    /\ written' = written + wrote
    /\ dropped' = [reason \in Reasons |-> dropped[reason] + counts[reason]]
    /\ depth' = Len(queue)
    /\ stopping' = IF f = "stop" THEN "no" ELSE stopping
    /\ UNCHANGED <<task, queue, db, deletedUsers, owner, arrivals, abandoned>>

Losses(rejected, failed) ==
    [reason \in Reasons |-> CASE reason = "queue_full" -> 0
                              [] reason = "rejected" -> rejected
                              [] reason = "write_failed" -> failed]

Continue(f, state) ==
    /\ flush' = [flush EXCEPT ![f] = state]
    /\ UNCHANGED <<task, stopping, queue, written, dropped, depth, db, deletedUsers,
                   owner, arrivals, abandoned>>

\* PostgreSQL runs the statement of f and commits it: all its rows or none.
Commit(f) ==
    /\ Statement(f) # <<>>
    /\ ~flush[f].landed
    /\ ~StatementRefused(f)
    /\ db' = db \o Statement(f)
    /\ flush' = [flush EXCEPT ![f].landed = TRUE]
    /\ UNCHANGED <<task, stopping, queue, written, dropped, depth, deletedUsers, owner,
                   arrivals, abandoned>>

\* Mutation of BatchWritten: counted when sent, not when committed.
BatchCountedEarly(f) ==
    /\ Resumable(f) /\ flush[f].mode = "batch"
    /\ Finish(f, Held(f), Losses(0, 0))

BatchWritten(f) ==
    /\ Resumable(f) /\ flush[f].mode = "batch"
    /\ flush[f].landed
    /\ Finish(f, Held(f), Losses(0, 0))

\* Mutation of BatchRefused: no retry, the whole batch is dropped.
BatchRefusedAsAWhole(f) ==
    /\ Resumable(f) /\ flush[f].mode = "batch"
    /\ ~flush[f].landed
    /\ StatementRefused(f)
    /\ Finish(f, 0, Losses(Held(f), 0))

\* IntegrityError: the batch is retried row by row in a session of its own.
BatchRefused(f) ==
    /\ Resumable(f) /\ flush[f].mode = "batch"
    /\ ~flush[f].landed
    /\ StatementRefused(f)
    /\ Continue(f, [flush[f] EXCEPT !.mode = "rows"])

\* Mutation of BatchFailed: every error is retried row by row.
BatchRetriedOnAnyError(f) ==
    /\ Resumable(f) /\ flush[f].mode = "batch"
    /\ Continue(f, [flush[f] EXCEPT !.mode = "rows", !.landed = FALSE])

\* Any other exception, before the commit took place or after it.
BatchFailed(f) ==
    /\ Resumable(f) /\ flush[f].mode = "batch"
    /\ Finish(f, 0, Losses(0, Held(f)))

\* Mutation of RowWritten: tallied before its commit.
RowTalliedEarly(f) ==
    /\ Resumable(f) /\ flush[f].mode = "rows"
    /\ Remaining(f)
    /\ Continue(f, [flush[f] EXCEPT !.written = @ + 1, !.landed = FALSE])

RowWritten(f) ==
    /\ Resumable(f) /\ flush[f].mode = "rows"
    /\ flush[f].landed
    /\ Continue(f, [flush[f] EXCEPT !.written = @ + 1, !.landed = FALSE])

\* Mutation of RowRefused: the batch is flushed once more.
RowRefusedFlushesAgain(f) ==
    /\ Resumable(f) /\ flush[f].mode = "rows"
    /\ ~flush[f].landed
    /\ StatementRefused(f)
    /\ Continue(f, Flushing(flush[f].batch))

\* IntegrityError on one row, rolled back.
RowRefused(f) ==
    /\ Resumable(f) /\ flush[f].mode = "rows"
    /\ ~flush[f].landed
    /\ StatementRefused(f)
    /\ Continue(f, [flush[f] EXCEPT !.rejected = @ + 1])

\* Mutations of RowsFailed: the row in hand is taken to be settled; the
\* function returns from the except clause with its tallies unreported.
RowsFailedOffByOne(f) ==
    /\ Resumable(f) /\ flush[f].mode = "rows"
    /\ Finish(f, flush[f].written,
              Losses(flush[f].rejected, Held(f) - Settled(f) - 1))
RowsFailedReturns(f) ==
    /\ Resumable(f) /\ flush[f].mode = "rows"
    /\ Finish(f, 0, Losses(0, Held(f) - Settled(f)))

\* Any other exception: opening or closing the session, a statement, its
\* commit, or the rollback after an IntegrityError.
RowsFailed(f) ==
    /\ Resumable(f) /\ flush[f].mode = "rows"
    /\ Finish(f, flush[f].written,
              Losses(flush[f].rejected, Held(f) - Settled(f)))

RowsDone(f) ==
    /\ Resumable(f) /\ flush[f].mode = "rows"
    /\ ~Remaining(f)
    /\ Finish(f, flush[f].written, Losses(flush[f].rejected, 0))

-----------------------------------------------------------------------------
(* stop, flush_now, and what happens around the writer                     *)

\* stop: cancel the task and wait for it.
StopCancel ==
    /\ Serving
    /\ stopping' = "awaiting"
    /\ UNCHANGED <<task, queue, flush, written, dropped, depth, db, deletedUsers, owner,
                   arrivals, abandoned>>

\* The task resumes with CancelledError, which no except clause of _flush
\* or _flush_row_by_row catches: the batch is given up as it stands.
Cancelled ==
    /\ stopping = "awaiting"
    /\ task = "running"
    /\ task' = "cancelled"
    /\ flush' = [flush EXCEPT !["consumer"] = Idle]
    /\ abandoned' = abandoned + Held("consumer")
    /\ UNCHANGED <<stopping, queue, written, dropped, depth, db, deletedUsers, owner, arrivals>>

\* Mutations of DrainInto: no more than a batch is taken; a copy of the queue is
\* flushed.
DrainOneBatchInto(f) ==
    LET n == Lesser(BatchSize, Len(queue))
    IN /\ queue' = SubSeq(queue, n + 1, Len(queue))
       /\ flush' = IF queue = <<>> THEN flush
                   ELSE [flush EXCEPT ![f] = Flushing(SubSeq(queue, 1, n))]
DrainACopyInto(f) ==
    /\ queue' = queue
    /\ flush' = IF queue = <<>> THEN flush ELSE [flush EXCEPT ![f] = Flushing(queue)]

\* _drain empties the queue into one batch; _flush returns at once without one.
DrainInto(f) ==
    /\ queue' = <<>>
    /\ flush' = IF queue = <<>> THEN flush ELSE [flush EXCEPT ![f] = Flushing(queue)]

\* Mutation of StopDrain: the drain waits for a first row.
StopWaitsForARow ==
    /\ stopping = "awaiting"
    /\ task = "cancelled"
    /\ task' = "none"
    /\ DrainInto("stop")
    /\ stopping' = "draining"
    /\ UNCHANGED <<written, dropped, depth, db, deletedUsers, owner, arrivals, abandoned>>

\* stop goes on: _task = None and _drain.
StopDrain ==
    /\ stopping = "awaiting"
    /\ task = "cancelled"
    /\ task' = "none"
    /\ DrainInto("stop")
    /\ stopping' = IF queue = <<>> THEN "no" ELSE "draining"
    /\ UNCHANGED <<written, dropped, depth, db, deletedUsers, owner, arrivals, abandoned>>

FlushNow ==
    /\ FlushNowUsed
    /\ ~Active("flush_now")
    /\ DrainInto("flush_now")
    /\ UNCHANGED <<task, stopping, written, dropped, depth, db, deletedUsers, owner,
                   arrivals, abandoned>>

DeleteUser(u) ==
    /\ deletedUsers' = deletedUsers \cup {u}
    /\ UNCHANGED <<task, stopping, queue, flush, written, dropped, depth, db, owner,
                   arrivals, abandoned>>

\* The process dies: everything it kept in memory is gone, the table stays.
Crash ==
    /\ task' = "none"
    /\ stopping' = "no"
    /\ queue' = <<>>
    /\ flush' = [f \in Flows |-> Idle]
    /\ written' = 0
    /\ dropped' = [reason \in Reasons |-> 0]
    /\ depth' = 0
    /\ arrivals' = 0
    /\ abandoned' = 0
    /\ UNCHANGED <<db, deletedUsers, owner>>

FlushStep(f) ==
    \/ BatchWritten(f) \/ BatchRefused(f) \/ BatchFailed(f)
    \/ RowWritten(f) \/ RowRefused(f) \/ RowsFailed(f) \/ RowsDone(f)

StopStep == Cancelled \/ StopDrain

Next ==
    \/ \E u \in Users : Accept(u) \/ Shed(u) \/ DeleteUser(u)
    \/ Start \/ TakeBatch
    \/ \E f \in Flows : Commit(f) \/ FlushStep(f)
    \/ StopCancel \/ StopStep \/ FlushNow
    \/ Crash

Spec == Init /\ [][Next]_vars

\* The event loop runs a task that can run, and every database call ends, in
\* an answer or in an error.
Fairness ==
    /\ WF_vars(TakeBatch)
    /\ WF_vars(StopStep)
    /\ \A f \in Flows : WF_vars(FlushStep(f))

FairSpec == Spec /\ Fairness

-----------------------------------------------------------------------------
(* Properties                                                              *)

BatchRows(f) == Range(flush[f].batch)
Pending == Range(queue) \cup UNION {BatchRows(f) : f \in Flows}
InFlight == Held("consumer") + Held("stop") + Held("flush_now")

FlushStates == [mode : {"idle", "batch", "rows"}, batch : Seq(Rows),
                written : Nat, rejected : Nat, landed : BOOLEAN]

\* The variables keep their types: no counter or tally of _flush and of
\* _flush_row_by_row goes negative, and only offered rows move about.
TypeOK ==
    /\ task \in {"none", "running", "cancelled"}
    /\ stopping \in {"no", "awaiting", "draining"}
    /\ queue \in Seq(Rows)
    /\ flush \in [Flows -> FlushStates]
    /\ written \in Nat
    /\ dropped \in [Reasons -> Nat]
    /\ depth \in Nat
    /\ db \in Seq(Rows)
    /\ deletedUsers \subseteq Users
    /\ owner \in Seq(Users)
    /\ arrivals \in Nat
    /\ abandoned \in Nat

\* Every row offered since the process started is in exactly one place: on
\* the queue, in the batch of one flush, or in one counter; the rows of a
\* cancelled batch, which nothing counts, are the only others.  It covers
\* every exit of _flush and of _flush_row_by_row, the local tallies included.
Conservation ==
    arrivals = Len(queue) + InFlight + written + Total(dropped) + abandoned

ThisProcess == (issued - arrivals + 1)..issued
Lost == ThisProcess \ (Pending \cup Range(db))

\* A row counted as written is in the table: the counter never runs ahead of
\* the rows this process persisted, those still in a local tally included.
WrittenIsPersisted ==
    written + flush["consumer"].written + flush["stop"].written + flush["flush_now"].written
        <= Cardinality(Range(db) \cap ThisProcess)

\* The shedding alert sees every loss but those of a cancelled batch: the
\* rows that are neither in the table nor on their way never outnumber the
\* rows counted as dropped.
LossesCounted == Cardinality(Lost) <= Total(dropped) + abandoned

\* One bad row costs nobody else a row: while users keep existing, a row is
\* lost to a full queue, to a failing database or to the stop, never to
\* another row of its batch (the promise of _flush_row_by_row).
GoodRowsSurvive ==
    Cardinality({r \in Lost : owner[r] \notin deletedUsers})
        <= dropped["queue_full"] + dropped["write_failed"] + abandoned

\* No statement carries a row the table already has: neither the retry of a
\* batch nor two flushes side by side insert a row twice.
NeverReinserted ==
    \A f \in Flows : ~flush[f].landed => Range(Statement(f)) \cap Range(db) = {}

\* Between flushes the gauge shows the queue, and during one it can only show
\* too much.  A cancelled flush never reaches its last line: it leaves the gauge
\* too high, but no longer than until stop drains what is queued or, if nothing
\* is, until a row is queued again.
DepthGauge ==
    /\ depth >= Len(queue)
    /\ (\A f \in Flows : ~Active(f)) /\ depth # Len(queue) =>
           abandoned > 0 /\ (queue = <<>> \/ task = "cancelled")

\* Once stop has returned nothing is left behind: not on the queue, not in
\* the consumer's hands, not in a drain.
StoppedIsDrained ==
    task = "none" /\ stopping = "no" =>
        queue = <<>> /\ ~Active("consumer") /\ ~Active("stop")

\* Without flush_now beside the consumer, rows reach the table in the order in
\* which they were offered: recent_inputs takes the highest ids for the newest.
LogInArrivalOrder ==
    ~FlushNowUsed => \A i, j \in DOMAIN db : i < j => db[i] < db[j]

\* The docstring's claim, word for word: every lost row is counted, whatever
\* the reason.
EveryLostRowCounted == Cardinality(Lost) <= Total(dropped)

\* The writer implements the promise of PredictionLog.
Log == INSTANCE PredictionLog WITH
    pending <- Pending,
    stored <- Range(db),
    offered <- arrivals,
    dropped <- Total(dropped)
KeepsThePromise == Log!LogSpec

\* A row on the queue or in a batch is eventually accounted for, whatever the
\* database does, as long as its calls end.
RowsResolve == \A r \in Rows : r \in Pending ~> r \notin Pending

\* stop returns, however many rows it finds and whatever the database does.
StopReturns == stopping # "no" ~> stopping = "no"
=============================================================================
