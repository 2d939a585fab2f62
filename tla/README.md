# Verification of the Car Price Prediction API

TLA+ models of the API in `src/`, TLC configurations that check them on small
instances, and TLAPS proofs of what matters most for every value of the constants.
`PROJECT.json` maps every definition to the source lines it models and lists the
hazards each property is aimed at. Paths below are relative to the repository.

## The system

A FastAPI service answers `POST /predict` with the price a scikit-learn pipeline gives
a used car. It runs as several uvicorn workers, each one asyncio event loop
(`src/scripts/entrypoint.sh`), over a shared PostgreSQL and a shared Redis.

| Component | State | Operations | Hard behaviour |
|---|---|---|---|
| Prediction log writer, `services/prediction_writer.py`, `log_many` | queue, consumer task, counters `written`/`dropped`, depth gauge, the `predictions` table | `enqueue`, `start`, `stop`, `_run`, `_drain`, `_flush`, `_flush_row_by_row`, `flush_now` | three coroutines may flush at once; cancellation inside a flush; refused rows; ambiguous commits; full queue; process death |
| Outcome reports, `routes_predict.record_actual_price`, `record_actual`, `exists` | `actual_price`, row locks | report a sale price | reports race for a row; two transactions; lost commits; the row may not be stored yet |
| Rate limiter, `core/rate_limit.py` | Redis counters with expiries | `enforce_rate_limit` | INCR and EXPIRE are no transaction; replicas' clocks; timeouts with commands still on their way; restarts of Redis |
| Prediction request and cache, `model_service.py`, `redis_cache.py` | Redis entries per model version | `predict`, get, set | entries of other versions; SETs that arrive late; expiry; a failing Redis |
| Model registry and training, `model_registry.py`, `training/train_model.py` | artifact and metadata files, served bundle | `main`, `next_version`, `load_bundle` | two files written one after the other and read one after the other; a run killed anywhere; corrupt metadata |
| Registration and login, `auth_service.py`, `dependencies.py` | `users`, tokens, the connection pool | `register`, `authenticate`, `get_current_*`, `ensure_users` | check then insert; connection held while hashing; tokens that outlive users; names given away again |
| Drift monitor and health gauges, `drift.py`, `health_refresh.py` | reference, latest report, gauges per worker | `configure`, `refresh`, `refresh_live_error`, timer loop | two refreshes out of order; failures between the gauges; pure algorithms with boundaries |
| Lifespan, `main.py` | the running parts | startup, shutdown | order of shutdown; cancelling the refresher inside a refresh |
| Request logging, `logging_middleware.py`, `logging_config.py` | context variable, listener's queue | one access line and one id per request | interleaved requests; exceptions above the middleware; lines at shutdown |
| Schema and migrations, `alembic/`, `entrypoint.sh` | `alembic_version`, tables and indexes | `upgrade head`, `downgrade` | containers that migrate at once, or are killed inside it |
| Configuration, `core/config.py` | settings | `normalise_database_url`, validators | what a provider hands out is not what the driver takes |
| History, `routes_predict.prediction_history` | none | paged SELECT | paging over a growing table |
| Session pool, error handlers, schemas, probes, scripts | | | see `PROJECT.json` for each |

How they interact: `predict_price` asks the rate limiter, then the cache and the model,
hands a row to the writer by `enqueue` (a synchronous call that never fails) and answers
with the row's public id before the row is stored. The writer's consumer and `stop`
bring rows to PostgreSQL. `record_actual_price` later updates the row by its public id.
The health refresher reads the same table. `lifespan` starts the writer and the refresher
and stops them in the reverse order of their dependencies.

What makes each component correct, and where that is stated:

- writer: no row forgotten or counted twice, no row inserted twice, counters that agree
  with the table, a good row not lost to a bad one, nothing left behind by a stop
- reports: a recorded price is never overwritten, an accepted one is kept, status codes
  that tell the truth, no report waiting for ever
- limiter: never more than the limit in a window, nobody refused for somebody else's
  requests, no counter without an expiry
- cache and registry: a price never crosses from one version to another, and a model
  answers for another one only if both were served under one version
- registration: one user per name, nobody taken for a user whose password was not
  proven, a 201 that names the account it made, no wait for ever for a connection
- drift: gauges that show the report, and never a sample too small for one; figures that
  come to be those of the table,
  bins that cover every value exactly once and the same way in training and serving
- lifespan, logging, schema: nothing closed under its user, a stop that ends, a line
  with its own request's id, a schema that is the one of its revision


## Modules

| Module | What it is |
|---|---|
| `PredictionLog` | abstract specification of the prediction log: offer, shed, persist, account, abandon, die |
| `PredictionWriter` | the writer in detail, and its refinement of `PredictionLog` |
| `MCPredictionWriter` | its instances for TLC |
| `PredictionWriterProofs` | its theorems about flows, stages and numbers of rows |
| `PredictionWriterRowsProofs` | its theorems about single rows, and the refinement of `PredictionLog` |
| `OutcomeReports`, `MCOutcomeReports`, `OutcomeReportsProofs` | reports racing with each other and with the writer |
| `RateLimiter`, `MCRateLimiter`, `RateLimiterProofs` | the limiter over Redis |
| `ModelCache`, `MCModelCache`, `ModelCacheProofs` | training runs, workers that load, requests over the cache of prices |
| `Accounts`, `MCAccounts`, `AccountsProofs` | registration, login and tokens over users table and pool, with the seed script's `ensure_users` |
| `DriftScores` | operators: how training describes a column and how a sample is scored against it |
| `DriftMonitor`, `MCDriftMonitor` | one worker's refreshes and gauges over a table others change; extends `DriftScores` |
| `DriftMonitorProofs` | theorems about the algorithms of `DriftScores` and about the monitor |
| `Service`, `MCService`, `ServiceProofs` | a deployment: migrations, start, requests and their log lines, background tasks, shutdown |

`Service` composes the lifespan with what it starts and stops: the writer and the
refresher appear in it by when they use the database, their inside is in
`PredictionWriter` and `DriftMonitor`. `OutcomeReports` composes the reports with the
writer as `PredictionLog` shows it.

Operators named after a mistake and introduced by "Mutation of" are plausible bugs of
the definition they follow; each property of a passing run is violated by one of them
(`PROJECT.json`, `mutants`).

### PredictionWriter

A step is what the code does between two awaits of the one event loop.

- `queue`, `written`, `dropped`, `depth`, `task` are the attributes and metrics of the
  class. `dropped` is kept per reason; `Total(dropped)` is the attribute `dropped`.
  `task = "cancelled"` is the point in `stop` where the task has ended and
  `_task` is not yet `None`; `stopping` says where `stop` is.
- `flush[f]` is the activation of `_flush` by the consumer, by `stop` or by `flush_now`:
  `mode` is `"batch"` in `_flush`, `"rows"` in `_flush_row_by_row`; `written` and
  `rejected` are its local tallies; `landed` is true from the moment the statement in
  flight is committed until the coroutine learns of it.
- `db` holds the rows in the order of their ids; a row is a number, in the order in
  which the rows were offered, and stands for its `public_id`.
- `Accept` and `Shed` are the two ends of `enqueue`; `TakeBatch` is the body of `_run` up
  to `_flush`; `Commit` is PostgreSQL's commit in `log_many`; `BatchWritten`,
  `BatchRefused`, `BatchFailed` are the three ends of the `try` in `_flush`; `RowWritten`,
  `RowRefused`, `RowsFailed`, `RowsDone` those of `_flush_row_by_row`; `StopCancel`,
  `Cancelled`, `StopDrain` are the three stretches of `stop`. `DeleteUser` and `Crash`
  are the environment.
- Counters and gauge change in the step that ends a flush (`Finish`), since nothing is
  awaited between the last statement and the last line of `_flush`.
- An error of the database is possible at any statement, before its commit or after it
  (`BatchFailed`, `RowsFailed`); an `IntegrityError` occurs exactly when a row's user is
  gone or its id is already in the table (`Refused`). The values in a row are otherwise
  accepted by the table.
- `arrivals`, `owner`, `abandoned` are history variables that the properties read.

A COMMIT that takes effect after its client gave up is modelled by one that takes effect
just before: between the two nothing reads the row.

### OutcomeReports

The writer appears as `PredictionLog` shows it to a report: a prediction is answered
while its row is `"pending"`, and later `"stored"` or `"lost"`. `Update` is the
conditional UPDATE, which holds the row's lock until its commit; `Miss` the same
statement when it matches nothing; `CheckFound` and `CheckMissing` the second
transaction. `CommitUnknown` is a connection that breaks around the commit. A report
carries a price of its own, so `actual[r]` is the report whose price the row has.

### RateLimiter

`Begin` reads the replica's clock and derives the key, `Incr` and `Expire` are run by
Redis, `Answer` compares the reply with the limit, `FailOpen` is any `RedisError`. After
`FailOpen` the commands of the request may still be run, at any later time, or never.
The client library is configured without retries (`redis==5.0.4`, `get_redis` passes
none), so a request sends its commands once. A key whose expiry has passed reads as
absent (`Live`). `Restart` is Redis coming back empty. Time is a counter; the two
timeouts of `redis_cache.py` bound a wait by `Patience`, so `Tick` does not pass a wait
that is due. Who a request is counted as is a parameter: `client[p]` stands for what
`_client_id` and `_route_path` derive, which are not modelled.

### ModelCache

A model is the number of the training run that fitted it, and stands for the prices it
gives. `artifact` and `metadata` are the two files: a model or a version, `None` without
a file, `Torn` while it is being written (`joblib.dump` and `write_text` truncate first)
or after a run killed there. `Fit`, `Dump`, `Describe`, `Abort` are `main` of
`train_model.py`, one run at a time; `NextVersion` reads torn metadata as none.
`LoadArtifact` and `LoadMetadata` are the two reads of `load_bundle`, between which the
trainer may write. `label[w]` is `bundle.version`, the `v<n>` of the cache key. `Send` to
`StoreFails` are `PredictionService.predict`; after `StoreFails` the SET may still be run
(`StoreLate`). `served`, `released` and `forgot` are history the properties read.

### Accounts

`account` holds every row of `users` ever inserted under its id, `present` the ids that
are there now: ids come from a sequence and a deleted id is not given again. `request[r]`
carries what the coroutine holds between two awaits; a slot is free again after its
answer. `HoldsConnection` says when a session has a connection checked out: from its
first statement to a commit, so through the bcrypt thread and not between `create`'s
commit and its refresh. `LookUp`, `Hash`, `Create`, `CreateRefused`, `Refresh` are
`register`; `LookUp`, `Verify` are `authenticate`; `Me` is `get_current_user`, which looks
the user up, and `Principal` is `get_current_principal`, which does not. A second
registration that passed the lookup meets the unique index: its IntegrityError is no
`AppError` and is answered 500 (`CreateRefused`); the hazard is listed and no text asks
for another status. `SeedBegin` and `SeedInsert` are `ensure_users`, whose rows are
committed one by one. `DeleteUser` and `ExpireToken` are the environment: the code
deletes no user, and its foreign key and its check of the token's user provide for one
that is gone.

### DriftScores and DriftMonitor

`Describe` is `training_distribution` and `Bucket`, `Expected`, `Actual` are
`feature_scores` with `_bucket`. Values are integers; an edge is held multiplied by
`Bins`, so that numpy's interpolated quantiles are exact. `Ascending` is a set in order
and `Smallest` the k-th value of a sample with its repetitions, both by ranks; `Present`
is a column without its missing values. A column is of numbers or of texts: texts are
described by their categories however many there are, numbers only if few differ. Where
all values are missing no category has a share, so that any live value counts as drift.
`Bisect` is the search in
`_bucket` as a function of the two ends of the part that is left. `Pool` stands for the
bin of the rare categories, whose shares are added by a fold. The logarithms of a PSI are
abstracted to the set of bins that contribute to it: empty exactly when the PSI is zero
(up to its epsilon). Categories are compared as values, where the code compares `str` of
them; on integers this is the same.

A step of `DriftMonitor` is what one worker does between two awaits: `TimerRead` ends
with the sample in hand, `TimerPublish` comes when the scoring thread is done and changes
report and gauges together. `Recompute` and `RecomputeEnds` are the same for
`/model/drift?recompute=true`. `TimerDriftFails` and `LiveErrorFails` are the two
`except` clauses of `refresh_once`. The gauges of the features are set by a report with
scores only: `GaugesShowTheReport` says what they show otherwise, the last such report,
which an alert on them goes on seeing. `HealthConverges` states both figures of the table
itself and not by the queries' operators, drift over the rows inserted last and the live
error over the scored rows created last, so that a query in the other's order violates it.
The rest is the table: `Insert` by a writer,
`RecordActual` by a report, and one run of the seed script (`ScriptBegin`, which may
truncate, `Copy`, `ScriptEnds`). A row has the time it was created, since the live error
takes the newest by time and the sample the newest by id.

### Service

`revision` and `objects` are the database: `Initial` to `HistoryByUser` are `upgrade` and
`downgrade` of the five revisions as lists of what they create and drop, `Run` executes
them and fails where PostgreSQL would. `MigrationEnds` is one transaction, as `env.py`
makes it: a migration whose database was upgraded since it read the revision fails as a
whole. `Boot` is the import of the settings and `lifespan` up to its yield. A request is
`Begin`, `Handle`, `End` of the middleware, and `HandleException` for an exception nobody
handled, which Starlette's outermost middleware answers, above it. `context[r]` is the
context variable in the request's task, `lines` the queue of the log listener. `StopOrder`
lists the awaits after the yield; `Stop` is one of them. uvicorn's part (no new requests
after a signal, open ones finished before the shutdown) is modelled as the lifespan
protocol has it. A second start of the watched container is a new process.

## Runs

| Run | Configuration | Shows |
|---|---|---|
| `writer_safety` | `WriterSafety.cfg` | safety of the writer as the application uses it, and the refinement of `PredictionLog` |
| `writer_progress` | `WriterProgress.cfg` | with `flush_now` beside consumer and stop, and drains longer than a batch: no double insert, conservation, nothing left behind by a stop, every row is eventually accounted for, stop returns |
| `writer_stop_uncounted` | `WriterStopUncounted.cfg` | violation: a stop loses the consumer's batch without counting it |
| `outcomes` | `Outcomes.cfg` | reports: never overwritten, accepted is kept, always answered |
| `outcome_false_conflict` | `OutcomeFalseConflict.cfg` | violation: a 409 although no price is recorded |
| `rate_limiter` | `RateLimiter.cfg` | the limit, refusals for cause, expiries |
| `model_cache` | `ModelCache.cfg` | prices keep their version; a predecessor answers only under a shared label |
| `cache_predecessor` | `CachePredecessor.cfg` | violation: a model answers for its successor under a version of its own |
| `accounts` | `Accounts.cfg` | unique names, proven identities, a 201 that names its account, everyone answered |
| `drift_monitor` | `DriftMonitor.cfg` | gauges and report agree and converge to the table; training and serving count alike |
| `service` | `Service.cfg` | schema of its revision, nothing closed under its user, log lines' ids, a stop that ends |
| `request_id_line` | `RequestIdLine.cfg` | violation: the line of an unhandled error has no request id |

Bounds. The writer: two users (one may be deleted, one not), `BatchSize` 2 (the smallest
batch with a good and a bad row), `MaxQueue` 2, `MaxRows` 4: a full queue beside a full
batch in flight, a drain longer than a batch's remainder, and rows of two lives of the
process. `writer_progress` has three rows, one for each flow that can be inside `_flush`
at the same time, and `MaxQueue` 3, so that a drain takes more than a batch. Users are symmetric in `writer_safety`; no run of a liveness property
uses symmetry. The reports: two predictions and three reports, so that three may race
for one row or two for one beside another. The limiter: a limit of two needs three
requests to be exceeded; windows of two ticks, expiry after four, time up to four, one
restart; skew 1 and patience 1 are the largest for which the limit holds with this
window. `model_cache`: two workers, so that two versions are served over one Redis; three
training runs, the fewest with which a version comes back after metadata was lost (1, a
torn 2, 1 again); three starts; one car, since keys of different cars never meet.
`accounts`: two slots over a pool of one connection, where a request that held one and
waited for another would block everyone; two names of which the seed script wants one;
two accounts, so that a name is deleted and given to somebody with another password.
`drift_monitor`: training columns of every kind (no metadata, all values missing, few
numbers and many texts with rare ones, ties, quantiles that fall together, missing
values), probes on, between and beyond all edges; two rows and a window of two, which are
enough for a score, so that a sample of none, too few or enough rows is under way while
the table changes; one live error of one row, one failure, one run of the
script. `service`: two containers and two starts, so that migrations race or one finds
the other's result; a new database and one at revision 1; one downgrade, which needs the
names of the revision before; two requests, so that one ends between the lines of the
other. Deadlock is not checked where the system really may stop: reports all answered,
requests all decided at the end of time or served, no more starts.

Fairness. The writer: weak fairness of the consumer, of `stop` and of each flush: the
event loop runs a task that can run, and a database call ends in an answer or an error.
Nothing is assumed about commits, arrivals or deletions; a flush that only ever fails
still ends. The reports: strong fairness of each report's steps, because PostgreSQL
grants a row's lock in the order of the requests for it; failing is never promised,
since no statement timeout is set. The limiter is checked for safety only; its wait is
bounded by `Tick`. `accounts`: strong fairness of each slot's answering steps, because
SQLAlchemy's pool serves those who wait in order, threads end and statements are
executed; `Fail` is never relied on, so nobody is saved by a timeout.
`drift_monitor`: weak fairness of the timer and of a recompute that has begun; the loop
runs for ever, failures are bounded, and nothing is assumed about the table.
`service`: weak fairness of the end of each request, of the refresher's cancellation, of
the shutdown's steps and of the exit; a start, a signal or a flush is never assumed.

## What the runs found

1. `prediction_writer.py:19` says that every lost row is counted, whatever the reason.
   `stop` cancels the consumer; if it is inside `_flush`, no `except` clause catches the
   `CancelledError` and its batch is not counted (`EveryLostRowCounted`, five steps).
   `LossesCounted` shows that nothing else escapes the counters.
2. `record_actual` and `exists` are two transactions. A row stored between them is
   answered with "A sale price is already recorded" although none is
   (`ConflictMeansRecorded`, five steps); the 404 it should have been tells the caller
   to retry.
3. `redis_cache.py:74-76` says that a retrained model starts with a cold cache instead of
   its predecessor answering for it. The artifact is replaced before its metadata
   (`train_model.py:184-186`): a worker that loads in between serves the new model under
   the old version and is answered from the predecessor's entries
   (`NeverFromPredecessor`). `PredecessorOnlyUnderSharedLabel` names all the ways this
   can come about: models without metadata (v0), files of two runs, and a version chosen
   anew after metadata was lost.
4. `logging_config.py:9` says that every line carries the id of the request that produced
   it. The handler of `Exception` runs above `LoggingMiddleware`, which has reset the id
   by then: the line of an unhandled error has none (`EveryLineCarriesItsRequest`).
   `LinesCarryTheirRequest` shows that no line carries another request's.

## What is proved

Every safety invariant and action property that a passing run checks is also a theorem,
for every value of the constants under the assumptions named in the modules, and so is
the refinement. The proofs are hierarchical, one lemma per action. Each invariant that is
proved inductive was first checked by TLC on the runs' instances.

**Writer, numbers** (`PredictionWriterProofs`, assumption `WriterAssumption`: positive
batch and queue sizes). `Conservation` is not inductive alone: the step that ends a
row-by-row retry reports `Held - Settled`, so the invariant also says that the tallies
never exceed the batch and that an idle flow holds nothing (`FlushOK`). `StoppedIsDrained`
needs to know in which stage of `stop` the consumer and the drain may be active
(`StopOK`). `IInv == TypeOK /\ FlushOK /\ StopOK /\ Conservation`; theorems
`TypeCorrect`, `ConservationHolds`, `StopDrains`.

**Writer, rows** (`PredictionWriterRowsProofs`). The properties about the table need to
know where each row is. `RowInv == PlacesOK /\ CountsOK` is inductive relative to `IInv`:

- `Known`: what is queued or in a batch was offered since the process started
- `InLine`, `Apart`: queue and batches are in the order of arrival, a batch before the
  queue, and no two flows hold the same row
- `Absent`, `Answered`: what a flow has yet to send is not in the table; what it has sent
  is, or its user is gone
- `Tallied`: the rows of a batch that are not in the table leave room for what its flow
  will count as written
- `NonEmpty`; `Ordered`: without `flush_now`, what is unsent is younger than the table
- `Persisted`, `LossesCounted`, `GoodRowsSurvive`, `DepthGauge`: the counters and the
  gauge agree with these places

A flow appears in them by what of its batch is sent, counted and unsent (`SentOf`,
`CountedOf`, `UnsentOf`), the same for a batch, for a retry and for a statement that is
committed and not answered. One lemma says what each kind of step does to the invariant:
`TakeUpRows` (rows leave the queue for a batch), `CommitRows`, `Quiet` (an answer moves
nothing), `PutDown` and `FinishRows` (a batch ends), `AcceptRows`, `ShedRows`; the actions are
instances of them. On the instances the invariant holds in
250 012 states without `flush_now` and in 110 475 with it. Theorems `EveryLossCounted`,
`OneBadRowCostsOneRow`, `GaugeTrue`, `ArrivalOrderKept`, `NothingInsertedTwice`,
`CountedIsPersisted`. `DepthGauge` is about a gauge that nobody corrects after a
cancelled flush: it never shows less than the queue, and too much between flushes only
after a cancellation, and then no longer than until the drain or the next row.

`WriterKeepsThePromise` is the refinement of `PredictionLog`: `LogInitially` maps the
initial state and `LogStep` every step, most to a stutter. The end of a flush is
`Account(S, W)` of its batch `S`: the counters only say how many rows were written, and
`Tallied` that at least so many of the batch are in the table, so that a `W` can be chosen
among them (`EndingAccounts`, `SubsetOfSize`). `FatesAreThoseOfTheReports` justifies the
environment of `OutcomeReports`: a step of the writer takes a row from unknown to pending
or lost, from pending to stored or lost, and never back.

**Reports** (`OutcomeReportsProofs`). The strengthening is `HeldRowIsOpen`: between its
UPDATE and its commit a report holds the lock of a stored row without a price. Theorems
`TypeCorrect`, `AcceptedIsKeptHolds`, `NeverOverwrittenHolds`.

**Limiter** (`RateLimiterProofs`, assumptions `LimiterAssumption` and
`TimingAssumption`: `MaxSkew + Patience <= Window`). A request that still waits for its
INCR finds its key before `FreshUntil`, the earliest moment at which the counter of its
window can expire (`WaitingIsFresh`, from the window arithmetic, and `CountersKept`). Until
then the counter only grows, so the replies of the requests that wait for them are all
different; the served ones are injected into `1..Limit`. `RefusedForCauseHolds` rests on
a second invariant, that a counter and a reply never exceed the number of requests
counted under their key. `CountersExpireHolds` and `TypeCorrect` come with the first.

**Cache** (`ModelCacheProofs`, assumption `BoundsAssumption`). That a price is of a model
served under its version needs to know, for every request under way, that its key and its
model are a pair that was served, also after its worker was stopped and another was
started; and that a version is never larger than the number of runs. `IInv` adds to
`TypeOK` and the property these parts: `RunOK` and `VersionsGrow` for the trainer,
`WorkersServe` and `RequestsMatch` for the processes, `AnswersOwn` for answers. Theorems
`TypeCorrect`, `PricesKeepTheirVersionHolds`, `PredecessorOnlyUnderSharedLabelHolds`.

**Accounts** (`AccountsProofs`, assumption `AccountsAssumption`: the script's hash is that
of no password). Every step keeps the rows there are (`RowsStay`), so what was proven of a
row stays proven: `IInv` is `TypeOK`, `OneUserPerName`, that the password of every token
was that of its user, and the same for what each request carries. Theorems `TypeCorrect`,
`OneUserPerNameHolds`, `IdentityIsProvenHolds`, `CreatedIsYoursHolds`, for any number of
slots, names and connections.

**Service** (`ServiceProofs`, assumption `ServiceAssumption`). `Quiet` says what is off in
each stage of the shutdown and `ContextOK` that a running request's context variable holds
its own id; with types of the worker's variables they are inductive. Theorems
`NothingUsesAClosedResourceHolds`, `LinesCarryTheirRequestHolds`, `TypeCorrect`.
The start has an invariant of its own, `StartInv`: the objects are those of the revision
(`Schema`), and without a downgrade a container that has read a revision finds no older
one, a migrated one finds the latest, and a worker runs only in a migrated container with
settings its driver takes (`StartupOK`). The schema of a revision is a fold over lists of
statements: the fold is unfolded to the sequence of its partial results (`AppliedOne` to
`AppliedFour`, `AppliedConcat`, `AppliedFlatten`), and `Up1` to `Down5` compute each
`upgrade` and `downgrade`, so that a downgrade is shown to undo its upgrade and the fifth
revision to be `Models`. Theorems `SchemaIsARevisionHolds`, `ServesWhatItNeedsHolds`;
TLC checked `StartInv` in 370 448 states.

**Drift** (`DriftMonitorProofs`, assumptions `ScoresAssumption`: at least one bin, and
`MonitorAssumption`: at least one row is needed for a score; columns are sequences of
integers and missing values, to be read as numbers or as texts). The algorithms come first. `QuantileIs`
bounds an interpolated quantile by the extremes of its sample, `EdgesAre` puts the edges
in order with the extremes at the ends, `BisectIs` says what the binary search returns on
edges in order, and `SameBin` that `numpy`'s histogram and `_bucket` then put every
training value into the same bin, also one that lies on an edge: a bin holds its left
edge, and the last one its right edge too. `PoolIs` and
`CategoricalAgrees` are the same for categories and the pool of rare ones. Theorems
`DescribeAgrees`: for every column of numbers or texts, with missing values, what training stores
is what serving counts on that column; `DescribeCounts`: every value falls into exactly one
bin. From them, with `MonInv` (the reference is the description of the column, the table a
list of rows, a sample no longer than its window), follow `TypeCorrect`,
`TrainingHasNoDriftHolds` and `EveryValueCountedHolds`. `GaugesAgree` is inductive as it
stands, because report and gauges change in one step, and the same case analysis shows
that no step moves a feature's gauge without scores: `GaugesShowTheReportHolds`.

Induction. The library's induction theorems take an operator as a parameter, which no
installed prover can instantiate. What is proved about folds, lists and the binary search
uses the least counterexample instead: a set of natural numbers that is not empty has a
least element (`LeastNat`, from the well-founded order of the naturals), so the set of the
places where a formula fails, if there are any, has a first one, and the step before it
refutes it. `Ascending` and `Smallest` are stated by ranks instead of a sort, since
`SortSeq` and `SelectSeq` are built into the tools and have no definition to unfold.

Only model-checked is liveness: `RowsResolve` and `StopReturns` of the writer,
`EveryReportAnswered`, `EveryoneAnswered`, `HealthConverges`, `StopCompletes`. They rest on
fairness and so on ENABLED, which the prover does not expand. The four runs that expect a
violation are counterexamples of TLC.

## Not modelled, and why

- Prediction history: one SELECT over what is committed; it keeps no state, and nothing
  in the repository promises more of two pages than of one. Pages by offset over a
  growing table may repeat or skip rows, which is listed as a hazard.
- Health and readiness endpoints, pydantic schemas and plain settings: no state.
- `sweep` and `train_utils` (fitting and choosing an estimator), scikit-learn, bcrypt and
  python-jose: calls of libraries without state of their own here.
- `load_test`, `drift_demo`, benchmarks, the notebook, dashboards and alert rules: they
  look at a running service from outside.
- Formatting, wording, and metrics that are only incremented.
- `pool_pre_ping` and the state of a driver's connection are SQLAlchemy's.

Rows the table rejects for their values (a number too large for a column) are not
distinguished from a failing database: the code counts both as `write_failed`. Several
workers' writers share only the table and never a row, so one is modelled. In `Service`
the types of columns and the columns of the first revision are not told apart.

## Plan

What is left, in this order:

1. What the abstract log implies by itself: conservation of `PredictionLog` as a theorem
   about it, and the writer's from the refinement.
2. Steps towards the liveness properties that need no ENABLED: that a row once accounted
   for is not pending again, and that every step of a flush makes it shorter.
3. History, should the repository come to promise something of it.
