-------------------------------- MODULE Service --------------------------------
(***************************************************************************)
(* A deployment from the start of its containers to the stop of a worker.  *)
(*                                                                         *)
(* Every container first runs the migrations (src/scripts/entrypoint.sh,   *)
(* src/alembic), in one transaction, then a worker (src/app/main.py).  The *)
(* worker of the container Watched is modelled in full: its requests, with *)
(* the id each of their log lines carries (logging_middleware.py,          *)
(* logging_config.py), the writer and the health refresher in the          *)
(* background, and the shutdown of all of them.  Workers of other          *)
(* containers share only the database with it.                             *)
(***************************************************************************)
EXTENDS Integers, SequencesExt

CONSTANTS
    Containers,
    Watched,         \* the container whose worker is modelled
    Requests,
    Environments,    \* settings: scheme and parameters of DATABASE_URL, kind of the secrets
    FirstRevision,   \* revisions the database may be found at
    MaxStarts,       \* bound: starts of a container
    MaxDowngrades    \* bound: alembic downgrade, by an operator

ASSUME ServiceAssumption ==
    /\ Watched \in Containers
    /\ FirstRevision \subseteq 0..5
    /\ MaxStarts \in Nat /\ MaxDowngrades \in Nat

VARIABLES
    revision,    \* alembic_version, 0 if there is no such row
    objects,     \* tables, indexes and the columns added to a table
    downgrades,  \* how often an operator downgraded the database
    container,   \* of each container: "down", "migrating" or "migrated"
    seen,        \* of each container: the revision its migration read
    starts,      \* how many containers were started
    settings,    \* the settings of Watched's worker
    stage,       \* the worker: "down", "serving", or how far it is stopped
    refresher,   \* "off", "asleep", "working" or "cancelled"
    writer,      \* "off", "idle" or "flushing"
    queued,      \* the writer's queue holds rows
    request,     \* of each request: "idle", "running", "raised" or "done"
    context,     \* of each request: the context variable request_id
    lines,       \* the listener's queue: log lines of whom, with which id, from where
    lost         \* a line was emitted without a listener to write it

database == <<revision, objects, downgrades>>
startup == <<container, seen, starts>>
background == <<refresher, writer, queued>>
logging == <<lines, lost>>
worker == <<settings, stage, background, request, context, logging>>
vars == <<database, startup, worker>>

-----------------------------------------------------------------------------
(* The schema                                                              *)

Latest == 5

Create(o) == [op |-> "create", object |-> o]
Drop(o) == [op |-> "drop", object |-> o]

\* upgrade() and downgrade() of the five revisions.
Initial == [
    up |-> <<Create("users"), Create("ix_username"), Create("predictions"), Create("ix_user_id")>>,
    down |-> <<Drop("ix_user_id"), Drop("predictions"), Drop("ix_username"), Drop("users")>>]
HistoryIndex == [
    up |-> <<Create("ix_company_year_created_at")>>,
    down |-> <<Drop("ix_company_year_created_at")>>]
ActualPrice == [
    up |-> <<Create("actual_price"), Create("ix_actual_price_created_at")>>,
    down |-> <<Drop("ix_actual_price_created_at"), Drop("actual_price")>>]
PublicId == [
    up |-> <<Create("public_id"), Create("ix_public_id")>>,
    down |-> <<Drop("ix_public_id"), Drop("public_id")>>]
\* Mutation of HistoryByUser: its downgrade does not bring back an index.
HistoryByUserForgets == [
    up |-> <<Create("ix_user_id_created_at"), Drop("ix_user_id"), Drop("ix_company_year_created_at")>>,
    down |-> <<Create("ix_company_year_created_at"), Drop("ix_user_id_created_at")>>]
\* Mutation of HistoryByUser: its downgrade names an index anew.
HistoryByUserRenames == [
    up |-> <<Create("ix_user_id_created_at"), Drop("ix_user_id"), Drop("ix_company_year_created_at")>>,
    down |-> <<Create("ix_company_year_created_at"), Create("ix_predictions_user"),
               Drop("ix_user_id_created_at")>>]
HistoryByUser == [
    up |-> <<Create("ix_user_id_created_at"), Drop("ix_user_id"), Drop("ix_company_year_created_at")>>,
    down |-> <<Create("ix_company_year_created_at"), Create("ix_user_id"),
               Drop("ix_user_id_created_at")>>]

Revisions == <<Initial, HistoryIndex, ActualPrice, PublicId, HistoryByUser>>
Upgrade == [r \in 1..Latest |-> Revisions[r].up]
Downgrade == [r \in 1..Latest |-> Revisions[r].down]

\* What there is to create must not be there, what there is to drop must be.
Execute(db, step) ==
    IF step.op = "create"
    THEN [ok |-> db.ok /\ step.object \notin db.objects, objects |-> db.objects \cup {step.object}]
    ELSE [ok |-> db.ok /\ step.object \in db.objects, objects |-> db.objects \ {step.object}]

Run(steps, objs) == FoldLeft(Execute, [ok |-> TRUE, objects |-> objs], steps)
\* The steps from a revision to the latest, and the schema of a revision.
StepsFrom == [r \in 0..Latest |-> FlattenSeq(SubSeq(Upgrade, r + 1, Latest))]
ObjectsAt == [r \in 0..Latest |-> Run(FlattenSeq(SubSeq(Upgrade, 1, r)), {}).objects]

\* The tables, added columns and indexes of src/app/db/models.py.
Models == {"users", "ix_username", "predictions", "actual_price", "public_id", "ix_public_id",
           "ix_actual_price_created_at", "ix_user_id_created_at"}

-----------------------------------------------------------------------------
(* Settings                                                                *)

Postgres == {"postgres", "postgresql"}

\* Mutation of Normalised: parameters are left as the provider names them.
NormalisedScheme(u) == [u EXCEPT !.scheme = IF @ \in Postgres THEN "postgresql+asyncpg" ELSE @]
\* normalise_database_url.
Normalised(u) ==
    IF u.scheme \notin Postgres \cup {"postgresql+asyncpg"} THEN u
    ELSE [scheme |-> "postgresql+asyncpg", secret |-> u.secret,
          params |-> {IF p = "sslmode" THEN "ssl" ELSE p : p \in u.params \ {"channel_binding"}}]

\* Settings(): a secret that is missing, short or a placeholder is refused.
Accepted(e) == e.secret = "generated"

\* Parameters of libpq are an error in asyncpg.
Usable(u) == u.scheme = "postgresql+asyncpg" /\ u.params \cap {"sslmode", "channel_binding"} = {}

NoSettings == [scheme |-> "none", params |-> {}, secret |-> "none"]

-----------------------------------------------------------------------------

Init ==
    /\ revision \in FirstRevision /\ objects = ObjectsAt[revision] /\ downgrades = 0
    /\ container = [c \in Containers |-> "down"]
    /\ seen = [c \in Containers |-> 0]
    /\ starts = 0
    /\ settings = NoSettings /\ stage = "down"
    /\ refresher = "off" /\ writer = "off" /\ queued = FALSE
    /\ request = [r \in Requests |-> "idle"]
    /\ context = [r \in Requests |-> "-"]
    /\ lines = {} /\ lost = FALSE

\* alembic upgrade head: it needs valid settings, and reads the revision.
Migrate(c) ==
    /\ container[c] = "down"
    /\ starts < MaxStarts
    /\ \E e \in Environments : Accepted(e)
    /\ starts' = starts + 1
    /\ container' = [container EXCEPT ![c] = "migrating"]
    /\ seen' = [seen EXCEPT ![c] = revision]
    /\ UNCHANGED <<database, worker>>

\* Mutation of Migrated: each revision is a transaction of its own.
MigratedOneByOne(c) ==
    LET first == Run(Upgrade[seen[c] + 1], objects)
    IN IF seen[c] < Latest /\ first.ok
       THEN /\ objects' = first.objects /\ revision' = seen[c] + 1
            /\ seen' = [seen EXCEPT ![c] = @ + 1] /\ UNCHANGED container
       ELSE /\ container' = [container EXCEPT ![c] = IF seen[c] = Latest THEN "migrated" ELSE "down"]
            /\ UNCHANGED <<objects, revision, seen>>
\* The revisions still to come are one transaction; if the database is at another
\* revision by then, a step fails, all is rolled back and the container ends.
Migrated(c) ==
    LET after == Run(StepsFrom[seen[c]], objects)
        fits == seen[c] # Latest /\ revision = seen[c] /\ after.ok
    IN /\ container' = [container EXCEPT ![c] = IF fits \/ seen[c] = Latest THEN "migrated" ELSE "down"]
       /\ IF fits THEN objects' = after.objects /\ revision' = Latest
                  ELSE UNCHANGED <<objects, revision>>
       /\ UNCHANGED seen

MigrationEnds(c) ==
    /\ container[c] = "migrating"
    /\ Migrated(c)
    /\ UNCHANGED <<downgrades, starts, worker>>

\* The container is killed, its worker too.
Kill(c) ==
    /\ container[c] # "down"
    /\ container' = [container EXCEPT ![c] = "down"]
    /\ IF c = Watched
       THEN /\ settings' = NoSettings /\ stage' = "down"
            /\ refresher' = "off" /\ writer' = "off" /\ queued' = FALSE
            /\ request' = [r \in Requests |-> IF request[r] = "idle" THEN "idle" ELSE "done"]
            /\ context' = [r \in Requests |-> "-"]
            /\ lines' = {}
            /\ UNCHANGED lost
       ELSE UNCHANGED worker
    /\ UNCHANGED <<database, seen, starts>>

\* alembic downgrade -1.
DowngradeOne ==
    /\ revision > 0 /\ downgrades < MaxDowngrades
    /\ Run(Downgrade[revision], objects).ok
    /\ objects' = Run(Downgrade[revision], objects).objects
    /\ revision' = revision - 1
    /\ downgrades' = downgrades + 1
    /\ UNCHANGED <<startup, worker>>

\* HealthRefresher.start: its task begins with a refresh.
StartRefresher == refresher' = "working"

\* The worker: settings, then lifespan up to its yield.  A driver that is not
\* asynchronous ends the process.
Boot ==
    /\ container[Watched] = "migrated" /\ stage = "down"
    /\ \E e \in Environments :
           /\ Accepted(e)
           /\ Normalised(e).scheme = "postgresql+asyncpg"
           /\ settings' = Normalised(e)
    /\ stage' = "serving"
    /\ StartRefresher /\ writer' = "idle"
    /\ UNCHANGED <<database, startup, queued, request, context, logging>>

-----------------------------------------------------------------------------
(* Requests and their log lines                                            *)

\* A line of a request, logged below the middleware or above it, or of none;
\* without a listener nobody writes it.
Emit(r, id, where) ==
    LET line == [request |-> r, id |-> id, where |-> where]
    IN IF stage = "logging_stopped"
       THEN lost' = TRUE /\ UNCHANGED lines
       ELSE lines' = lines \cup {line} /\ UNCHANGED lost

\* Mutation of SetContext: the id is kept in one variable of the process.
SetGlobal(r, id) == context' = [q \in Requests |-> id]
\* The context variable of the request's own task.
SetContext(r, id) == context' = [context EXCEPT ![r] = id]

Begin(r) ==
    /\ stage = "serving"
    /\ request[r] = "idle"
    /\ request' = [request EXCEPT ![r] = "running"]
    /\ SetContext(r, r)
    /\ UNCHANGED <<database, startup, settings, stage, background, logging>>

\* The handler logs, hands a row to the writer, or both.
Handle(r) ==
    /\ request[r] = "running"
    /\ \/ Emit(r, context[r], "below") /\ UNCHANGED queued
       \/ queued' = TRUE /\ UNCHANGED logging
    /\ UNCHANGED <<database, startup, settings, stage, refresher, writer, request, context>>

\* The middleware's finally: the access line, and the id is reset.  An exception
\* nobody handled goes on to the outermost handler.
End(r) ==
    /\ request[r] = "running"
    /\ \E outcome \in {"done", "raised"} : request' = [request EXCEPT ![r] = outcome]
    /\ Emit(r, context[r], "below")
    /\ SetContext(r, "-")
    /\ UNCHANGED <<database, startup, settings, stage, background>>

\* unhandled_exception_handler, above the middleware, logs the error.
HandleException(r) ==
    /\ request[r] = "raised"
    /\ request' = [request EXCEPT ![r] = "done"]
    /\ Emit(r, context[r], "above")
    /\ UNCHANGED <<database, startup, settings, stage, background, context>>

\* The listener's thread writes the line that is next.
Write ==
    /\ \E line \in lines : lines' = lines \ {line}
    /\ UNCHANGED <<database, startup, settings, stage, background, request, context, lost>>

-----------------------------------------------------------------------------
(* Background tasks; each may fail, and then logs a line of no request     *)

MayLog == UNCHANGED logging \/ Emit("none", "-", "background")

Flush ==
    /\ \/ writer = "idle" /\ queued /\ writer' = "flushing" /\ queued' = FALSE /\ UNCHANGED logging
       \/ writer = "flushing" /\ writer' = "idle" /\ UNCHANGED queued /\ MayLog
    /\ UNCHANGED <<database, startup, settings, stage, refresher, request, context>>

Refresh ==
    /\ \/ refresher = "asleep" /\ refresher' = "working" /\ UNCHANGED logging
       \/ refresher = "working" /\ refresher' = "asleep" /\ MayLog
    /\ UNCHANGED <<database, startup, settings, stage, writer, queued, request, context>>

\* Mutation of AfterCancel: the exception of a cancellation is handled too.
AfterCancelGoesOn == "asleep"
\* CancelledError is no Exception: it ends the loop.
AfterCancel == "off"

RefresherEnds ==
    /\ refresher = "cancelled"
    /\ refresher' = AfterCancel
    /\ UNCHANGED <<database, startup, settings, stage, writer, queued, request, context, logging>>

-----------------------------------------------------------------------------
(* Shutdown: lifespan after its yield                                      *)

Open(r) == request[r] \in {"running", "raised"}

\* Mutation of StopOrder: resources are closed before those who use them stop.
StopResourcesFirst == <<"draining", "redis_closed", "engine_disposed", "refresher_stopped",
                        "writer_stopped", "logging_stopped">>
StopOrder == <<"draining", "refresher_stopped", "writer_stopped", "redis_closed",
               "engine_disposed", "logging_stopped">>

Reached(s) == stage \in Range(StopOrder) /\ \E i, j \in DOMAIN StopOrder :
                  i <= j /\ StopOrder[i] = s /\ StopOrder[j] = stage

\* A signal: no new requests.
Terminate ==
    /\ stage = "serving"
    /\ stage' = "draining"
    /\ UNCHANGED <<database, startup, settings, background, request, context, logging>>

\* The refresher is cancelled once, and waited for.
CancelRefresher ==
    /\ refresher \in {"asleep", "working"}
    /\ refresher' = "cancelled"
    /\ UNCHANGED <<writer, queued, lines, stage>>

\* The writer flushes what its queue holds.
StopWriter == writer' = "off" /\ queued' = FALSE /\ UNCHANGED <<refresher, lines>>

\* shutdown_logging joins the listener, which writes what is queued.
StopLogging == lines' = {} /\ UNCHANGED background

StopNext(next) ==
    \/ /\ next = "refresher_stopped"
       /\ refresher = "off" /\ stage' = next /\ UNCHANGED <<background, lines>>
    \/ next = "writer_stopped" /\ StopWriter /\ stage' = next
    \/ next \in {"redis_closed", "engine_disposed"} /\ stage' = next /\ UNCHANGED <<background, lines>>
    \/ next = "logging_stopped" /\ StopLogging /\ stage' = next

\* One await of the shutdown; requests have ended before the first.
Stop ==
    /\ \A r \in Requests : ~Open(r)
    /\ \E i \in 1..(Len(StopOrder) - 1) :
           /\ stage = StopOrder[i]
           /\ \/ StopNext(StopOrder[i + 1])
              \/ StopOrder[i + 1] = "refresher_stopped" /\ CancelRefresher
    /\ UNCHANGED <<database, startup, settings, request, context, lost>>

\* The process ends.
Exit ==
    /\ stage = "logging_stopped"
    /\ stage' = "down" /\ settings' = NoSettings
    /\ container' = [container EXCEPT ![Watched] = "down"]
    /\ UNCHANGED <<database, seen, starts, background, request, context, logging>>

-----------------------------------------------------------------------------

Next ==
    \/ \E c \in Containers : Migrate(c) \/ MigrationEnds(c) \/ Kill(c)
    \/ DowngradeOne
    \/ Boot
    \/ \E r \in Requests : Begin(r) \/ Handle(r) \/ End(r) \/ HandleException(r)
    \/ Write
    \/ Flush \/ Refresh \/ RefresherEnds
    \/ Terminate \/ Stop \/ Exit

\* Requests end, tasks that can run do run, and the shutdown goes on.
Spec ==
    /\ Init /\ [][Next]_vars
    /\ \A r \in Requests : WF_vars(End(r)) /\ WF_vars(HandleException(r))
    /\ WF_vars(RefresherEnds) /\ WF_vars(Stop) /\ WF_vars(Exit)

-----------------------------------------------------------------------------
(* Properties                                                              *)

Line == [request : Requests \cup {"none"}, id : Requests \cup {"-"},
         where : {"below", "above", "background"}]

\* The variables keep their types.
TypeOK ==
    /\ revision \in 0..Latest /\ downgrades \in 0..MaxDowngrades
    /\ objects \subseteq Models \cup {"ix_user_id", "ix_company_year_created_at"}
    /\ container \in [Containers -> {"down", "migrating", "migrated"}]
    /\ seen \in [Containers -> 0..Latest]
    /\ starts \in 0..MaxStarts
    /\ stage \in {"down", "serving"} \cup Range(StopOrder)
    /\ refresher \in {"off", "asleep", "working", "cancelled"}
    /\ writer \in {"off", "idle", "flushing"}
    /\ queued \in BOOLEAN /\ lost \in BOOLEAN
    /\ request \in [Requests -> {"idle", "running", "raised", "done"}]
    /\ context \in [Requests -> Requests \cup {"-"}]
    /\ lines \subseteq Line

\* However many containers migrate at a time, are killed or lose the race, the
\* schema is the one of its revision, and a downgrade leads back to it.
SchemaIsARevision == objects = ObjectsAt[revision]

\* A worker runs with a database driver's URL asyncpg can use and, unless an
\* operator downgraded it, with the very schema models.py describes.
ServesWhatItNeeds ==
    stage # "down" =>
        Accepted(settings) /\ Usable(settings) /\ (downgrades = 0 => objects = Models)

\* Nothing is closed under its user: once the engine is disposed of, no request,
\* refresh or flush can come any more and no row waits for one; a request never
\* meets a closed Redis; and no log line is left behind by a stop.
NothingUsesAClosedResource ==
    /\ Reached("redis_closed") => \A r \in Requests : ~Open(r)
    /\ Reached("engine_disposed") =>
           /\ refresher = "off" /\ writer = "off" /\ ~queued
           /\ \A r \in Requests : ~Open(r)
    /\ Reached("logging_stopped") => lines = {}
    /\ ~lost

\* With requests interleaved on one event loop, a line logged below the
\* middleware carries the id of its own request, and none carries another's.
LinesCarryTheirRequest ==
    \A line \in lines :
        /\ line.where = "below" => line.id = line.request
        /\ line.where # "below" => line.id \in {line.request, "-"}

\* A worker that was told to stop does stop: the refresher lets itself be
\* cancelled wherever it is, and nobody waits for what was stopped before.
StopCompletes == stage = "draining" ~> stage = "down"

\* logging_config.py:9-11: every line carries the id of the request that
\* produced it.
EveryLineCarriesItsRequest ==
    \A line \in lines : line.request # "none" => line.id = line.request
=============================================================================
