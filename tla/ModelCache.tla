------------------------------ MODULE ModelCache ------------------------------
(***************************************************************************)
(* The life of a model and the cache of its prices:                        *)
(* src/training/train_model.py writes the artifact and, after it, the      *)
(* metadata that names its version; load_bundle of                         *)
(* src/app/services/model_registry.py reads the two files when a worker    *)
(* starts; src/app/services/model_service.py answers a request from Redis  *)
(* under the version and the car's features, or runs the model and stores  *)
(* its price (src/app/cache/redis_cache.py).                               *)
(*                                                                         *)
(* Neither writing nor reading the two files is atomic, workers start      *)
(* whenever they like, and Redis may fail, forget or answer late.  A model *)
(* is the number of the training run that fitted it, and stands for the    *)
(* prices it gives.                                                        *)
(***************************************************************************)
EXTENDS Integers, FiniteSets

CONSTANTS
    Workers,
    Requests,
    Cars,          \* what the digest of the features tells apart
    MaxTrainings,  \* bound: training runs
    MaxLoads       \* bound: starts of a worker

ASSUME BoundsAssumption == MaxTrainings \in Nat /\ MaxLoads \in Nat

VARIABLES
    artifact,   \* MODEL_PATH: a model, Torn, or None when there is no file
    metadata,   \* METADATA_PATH: a version, Torn, or None
    trainer,    \* where main of train_model is
    trainings,  \* how many runs have fitted a model; the last one is its model
    version,    \* the version the last run chose
    worker,     \* of each worker: "down", "loading" (between the two files) or "up"
    model,      \* of each worker: app.state.model
    label,      \* of each worker: bundle.version; it keys the cache as v0 if None
    loads,      \* how often a worker was started
    cache,      \* Redis: the model whose price is stored under a version and a car
    late,       \* SETs given up by their request and still on their way
    request,    \* of each request: where it is
    served,     \* history: the pairs of label and model that were ever served
    released,   \* history: the pairs of version and model of completed runs
    forgot      \* history: a run found metadata it could not read

files == <<artifact, metadata, trainer, trainings, version, released, forgot>>
process == <<worker, model, label, loads, served>>
vars == <<files, process, cache, late, request>>

Models == 1..MaxTrainings
None == 0
Torn == -1
Labels == 0..MaxTrainings

Idle == [at |-> "idle"]

Init ==
    /\ artifact = None /\ metadata = None
    /\ trainer = "idle" /\ trainings = 0 /\ version = 0
    /\ worker = [w \in Workers |-> "down"]
    /\ model = [w \in Workers |-> None]
    /\ label = [w \in Workers |-> None]
    /\ loads = 0
    /\ cache = [k \in Labels \X Cars |-> None]
    /\ late = {}
    /\ request = [r \in Requests |-> Idle]
    /\ served = {} /\ released = {} /\ forgot = FALSE

-----------------------------------------------------------------------------
(* Training: one run at a time                                             *)

\* Mutation of NextVersion: a run takes the version it finds.
SameVersion == IF metadata \in {None, Torn} THEN 1 ELSE metadata
\* Metadata that is missing or cannot be parsed counts as none.
NextVersion == IF metadata \in {None, Torn} THEN 1 ELSE metadata + 1

\* The model is fitted and scored, and its version chosen.
Fit ==
    /\ trainer = "idle"
    /\ trainings < MaxTrainings
    /\ trainings' = trainings + 1
    /\ version' = NextVersion
    /\ forgot' = (forgot \/ metadata = Torn)
    /\ trainer' = "fitted"
    /\ UNCHANGED <<artifact, metadata, released, process, cache, late, request>>

\* joblib.dump truncates the artifact, and some time later has written it.
Dump ==
    /\ \/ trainer = "fitted" /\ artifact' = Torn /\ trainer' = "dumping"
       \/ trainer = "dumping" /\ artifact' = trainings /\ trainer' = "dumped"
    /\ UNCHANGED <<metadata, trainings, version, released, forgot, process, cache, late, request>>

\* So does write_text with the metadata.
Describe ==
    /\ \/ /\ trainer = "dumped" /\ trainer' = "describing"
          /\ metadata' = Torn
          /\ UNCHANGED released
       \/ /\ trainer = "describing" /\ trainer' = "idle"
          /\ metadata' = version
          /\ released' = released \cup {<<version, trainings>>}
    /\ UNCHANGED <<artifact, trainings, version, forgot, process, cache, late, request>>

\* The run is killed; the files stay as they are.
Abort ==
    /\ trainer # "idle"
    /\ trainer' = "idle"
    /\ UNCHANGED <<artifact, metadata, trainings, version, released, forgot,
                   process, cache, late, request>>

-----------------------------------------------------------------------------
(* A worker                                                                *)

\* joblib.load.  If it fails the worker starts without a model.
LoadArtifact(w) ==
    /\ worker[w] = "down"
    /\ loads < MaxLoads
    /\ loads' = loads + 1
    /\ IF artifact \in {None, Torn}
       THEN /\ worker' = [worker EXCEPT ![w] = "up"]
            /\ UNCHANGED model
       ELSE /\ worker' = [worker EXCEPT ![w] = "loading"]
            /\ model' = [model EXCEPT ![w] = artifact]
    /\ UNCHANGED <<files, label, served, cache, late, request>>

\* Mutation of VersionRead: the parse error is not handled.
UncheckedVersion == metadata
\* Without a readable file the bundle has no version.
VersionRead == IF metadata = Torn THEN None ELSE metadata

\* The metadata, read after the artifact.
LoadMetadata(w) ==
    /\ worker[w] = "loading"
    /\ worker' = [worker EXCEPT ![w] = "up"]
    /\ label' = [label EXCEPT ![w] = VersionRead]
    /\ served' = served \cup {<<label'[w], model[w]>>}
    /\ UNCHANGED <<files, model, loads, cache, late, request>>

Open(r) == request[r].at \in {"get", "set"}

\* The worker is stopped, by a deployment or by a failure.
Down(w) ==
    /\ worker[w] # "down"
    /\ worker' = [worker EXCEPT ![w] = "down"]
    /\ model' = [model EXCEPT ![w] = None]
    /\ label' = [label EXCEPT ![w] = None]
    /\ request' = [r \in Requests |->
                       IF Open(r) /\ request[r].worker = w THEN [at |-> "lost"] ELSE request[r]]
    /\ UNCHANGED <<files, loads, served, cache, late>>

-----------------------------------------------------------------------------
(* A request: PredictionService.predict                                    *)

\* Mutation of Key: the version is not part of the key.
KeyOfCar(w, c) == <<0, c>>
Key(w, c) == <<label[w], c>>

Send(r) ==
    /\ request[r].at = "idle"
    /\ \E w \in Workers, c \in Cars :
           /\ worker[w] = "up"
           /\ request' = [request EXCEPT ![r] =
                  IF model[w] = None
                  THEN [at |-> "unavailable"]
                  ELSE [at |-> "get", worker |-> w, own |-> model[w], key |-> Key(w, c)]]
    /\ UNCHANGED <<files, process, cache, late>>

Answered(r, m) == [request EXCEPT ![r] =
    [at |-> "answered", own |-> @.own, label |-> label[@.worker], price |-> m]]

\* GET finds a price: the request is answered with it.
Hit(r) ==
    /\ request[r].at = "get"
    /\ cache[request[r].key] # None
    /\ request' = Answered(r, cache[request[r].key])
    /\ UNCHANGED <<files, process, cache, late>>

\* Nothing there, an error of Redis, or a value that cannot be read: the model
\* is run, in a thread that shares nothing with the others.
Miss(r) ==
    /\ request[r].at = "get"
    /\ request' = [request EXCEPT ![r].at = "set"]
    /\ UNCHANGED <<files, process, cache, late>>

\* SET, and the answer.
Store(r) ==
    /\ request[r].at = "set"
    /\ cache' = [cache EXCEPT ![request[r].key] = request[r].own]
    /\ request' = Answered(r, request[r].own)
    /\ UNCHANGED <<files, process, late>>

\* The SET fails or is not answered in time: it may be run later, or never.
StoreFails(r) ==
    /\ request[r].at = "set"
    /\ \/ UNCHANGED late
       \/ late' = late \cup {<<request[r].key, request[r].own>>}
    /\ request' = Answered(r, request[r].own)
    /\ UNCHANGED <<files, process, cache>>

StoreLate ==
    /\ \E s \in late :
           /\ cache' = [cache EXCEPT ![s[1]] = s[2]]
           /\ late' = late \ {s}
    /\ UNCHANGED <<files, process, request>>

\* The entry's time to live is over, or Redis restarts.
Expire ==
    /\ \E k \in Labels \X Cars : cache[k] # None /\ cache' = [cache EXCEPT ![k] = None]
    /\ UNCHANGED <<files, process, late, request>>

-----------------------------------------------------------------------------

Serve(r) == Hit(r) \/ Miss(r) \/ Store(r) \/ StoreFails(r)

Next ==
    \/ Fit \/ Dump \/ Describe \/ Abort
    \/ \E w \in Workers : LoadArtifact(w) \/ LoadMetadata(w) \/ Down(w)
    \/ \E r \in Requests : Send(r) \/ Serve(r)
    \/ StoreLate
    \/ Expire

Spec == Init /\ [][Next]_vars

-----------------------------------------------------------------------------
(* Properties                                                              *)

Prices == [at : {"answered"}, own : Models, label : Labels, price : Models]
InService == [at : {"get", "set"}, worker : Workers, own : Models, key : Labels \X Cars]

\* The variables keep their types.
TypeOK ==
    /\ artifact \in Models \cup {None, Torn}
    /\ metadata \in Models \cup {None, Torn}
    /\ trainer \in {"idle", "fitted", "dumping", "dumped", "describing"}
    /\ trainings \in 0..MaxTrainings
    /\ version \in 0..trainings
    /\ worker \in [Workers -> {"down", "loading", "up"}]
    /\ model \in [Workers -> Models \cup {None}]
    /\ label \in [Workers -> Labels]
    /\ loads \in 0..MaxLoads
    /\ cache \in [Labels \X Cars -> Models \cup {None}]
    /\ late \subseteq (Labels \X Cars) \X Models
    /\ request \in [Requests -> [at : {"idle", "unavailable", "lost"}] \cup Prices \cup InService]
    /\ served \subseteq Labels \X Models
    /\ released \subseteq Models \X Models
    /\ forgot \in BOOLEAN

\* Whatever the cache holds under a version, or a SET is still bringing there,
\* is the price of a model that some worker served under this very version, and
\* so is every answer: a price never crosses from one version to another, by
\* workers of different versions over one Redis, a late SET, or a restart.
PricesKeepTheirVersion ==
    /\ \A k \in Labels \X Cars : cache[k] # None => <<k[1], cache[k]>> \in served
    /\ \A s \in late : <<s[1][1], s[2]>> \in served
    /\ \A r \in Requests : request[r].at = "answered" =>
           <<request[r].label, request[r].price>> \in served

\* Two models of one label: v0 stands for every model without metadata; any
\* other label is shared only if a worker read one file of a run and the other
\* of another, or a run that could not read the metadata chose a version anew.
SharedLabel(l, m, n) ==
    /\ {<<l, m>>, <<l, n>>} \subseteq served
    /\ \/ l = 0
       \/ ~({<<l, m>>, <<l, n>>} \subseteq released)
       \/ forgot

\* A model answers for another one only for these reasons, whatever happens to
\* training runs, workers and Redis meanwhile.
PredecessorOnlyUnderSharedLabel ==
    \A r \in Requests : request[r].at = "answered" /\ request[r].price # request[r].own =>
        SharedLabel(request[r].label, request[r].own, request[r].price)

\* What redis_cache.py:74-76 promises of models that have a version: a
\* predecessor never answers, even if no run ever lost the metadata.
NeverFromPredecessor ==
    \A r \in Requests :
        request[r].at = "answered" /\ request[r].label # 0 /\ ~forgot =>
            request[r].price = request[r].own
=============================================================================
