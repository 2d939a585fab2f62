--------------------------- MODULE ModelCacheProofs ---------------------------
(***************************************************************************)
(* Theorems about ModelCache, for any number of workers, requests and cars *)
(* and any number of training runs and starts.                             *)
(*                                                                         *)
(* Two arguments meet.  A worker that is up serves the pair of its label   *)
(* and its model, a request keys the cache by that label and stores that   *)
(* model's price, so the cache holds served pairs only.  And while no run  *)
(* found its metadata torn, versions of completed runs only grow, so no    *)
(* version names two models.                                               *)
(***************************************************************************)
EXTENDS ModelCache, TLAPS

\* A run has fitted a model and chosen a version that no later one is below.
RunOK ==
    /\ metadata <= trainings
    /\ trainer # "idle" => version >= 1

\* What the metadata says is the highest version released; a run under way has
\* chosen the next one, and torn metadata is that of the run under way, of a
\* killed one, or known to be lost.
VersionsGrow ==
    ~forgot =>
        /\ metadata # Torn => \A x \in released : x[1] <= metadata
        /\ trainer \in {"fitted", "dumping", "dumped"} => metadata # Torn /\ version = metadata + 1
        /\ trainer = "describing" => \A x \in released : x[1] < version
        /\ \A x, y \in released : x[1] = y[1] => x = y

WorkersServe ==
    \A w \in Workers :
        /\ worker[w] = "down" => model[w] = None /\ label[w] = None
        /\ worker[w] = "loading" => model[w] # None
        /\ worker[w] = "up" /\ model[w] # None => <<label[w], model[w]>> \in served

RequestsMatch ==
    \A r \in Requests : Open(r) =>
        /\ worker[request[r].worker] = "up"
        /\ request[r].own = model[request[r].worker]
        /\ request[r].key[1] = label[request[r].worker]

AnswersOwn ==
    \A r \in Requests : request[r].at = "answered" =>
        <<request[r].label, request[r].own>> \in served

IInv ==
    /\ TypeOK
    /\ RunOK /\ VersionsGrow
    /\ WorkersServe /\ RequestsMatch
    /\ PricesKeepTheirVersion /\ AnswersOwn

-----------------------------------------------------------------------------
(* What the type invariant says of one request                             *)

LEMMA RequestTypes ==
    ASSUME TypeOK, NEW r \in Requests
    PROVE  /\ request[r] \in [at : {"idle", "unavailable", "lost"}] \cup Prices \cup InService
           /\ Open(r) => request[r] \in InService
           /\ request[r].at = "answered" => request[r] \in Prices
BY DEF TypeOK, Prices, InService, Open

LEMMA OpenRequest ==
    ASSUME TypeOK, NEW r \in Requests, Open(r)
    PROVE  /\ request[r].worker \in Workers
           /\ request[r].own \in Models
           /\ request[r].key \in Labels \X Cars
           /\ request[r].key[1] \in Labels
BY RequestTypes DEF InService

\* The price an open request may store is one that is served under its key.
LEMMA OwnIsServed ==
    ASSUME IInv, NEW r \in Requests, Open(r)
    PROVE  <<request[r].key[1], request[r].own>> \in served
BY OpenRequest, BoundsAssumption DEF IInv, WorkersServe, RequestsMatch, Models, None

-----------------------------------------------------------------------------
(* Training                                                                *)

LEMMA InitInv == Init => IInv
<1>. SUFFICES ASSUME Init PROVE IInv
  OBVIOUS
<1>. USE BoundsAssumption DEF None, Torn
<1>1. \A r \in Requests : request[r] = [at |-> "idle"]
  BY DEF Init, Idle
<1>2. request \in [Requests -> [at : {"idle", "unavailable", "lost"}] \cup Prices \cup InService]
  BY DEF Init, Idle
<1>3. TypeOK
  <2>1. cache \in [Labels \X Cars -> Models \cup {None}]
    BY DEF Init
  <2>2. trainings \in 0..MaxTrainings /\ version \in 0..trainings /\ loads \in 0..MaxLoads
    BY DEF Init
  <2>3. label \in [Workers -> Labels] /\ model \in [Workers -> Models \cup {None}]
    BY DEF Init, Labels
  <2>. QED
    BY <1>2, <2>1, <2>2, <2>3 DEF Init, TypeOK
<1>4. RunOK /\ VersionsGrow
  BY DEF Init, RunOK, VersionsGrow
<1>5. WorkersServe
  BY DEF Init, WorkersServe
<1>6. RequestsMatch /\ AnswersOwn
  BY <1>1 DEF RequestsMatch, AnswersOwn, Open
<1>7. PricesKeepTheirVersion
  BY <1>1 DEF Init, PricesKeepTheirVersion
<1>. QED
  BY <1>3, <1>4, <1>5, <1>6, <1>7 DEF IInv

\* Nothing but the files changes.
LEMMA ServingUntouched ==
    ASSUME IInv, UNCHANGED <<process, cache, late, request>>
    PROVE  WorkersServe' /\ RequestsMatch' /\ PricesKeepTheirVersion' /\ AnswersOwn'
BY DEF IInv, process, WorkersServe, RequestsMatch, PricesKeepTheirVersion, AnswersOwn, Open

LEMMA FitInv ==
    ASSUME IInv, Fit PROVE IInv'
<1>. USE BoundsAssumption DEF None, Torn
<1>1. UNCHANGED <<process, cache, late, request, artifact, metadata, released>>
  BY DEF Fit
<1>2. /\ trainer = "idle" /\ trainer' = "fitted"
      /\ trainings' = trainings + 1 /\ trainings < MaxTrainings
      /\ version' = IF metadata \in {None, Torn} THEN 1 ELSE metadata + 1
      /\ forgot' = (forgot \/ metadata = Torn)
  BY DEF Fit, NextVersion
<1>3. TypeOK'
  <2>1. version' \in 0..trainings'
    BY <1>2 DEF IInv, TypeOK, RunOK, Models
  <2>. QED
    BY <1>1, <1>2, <2>1 DEF IInv, TypeOK, process, Models, Labels, Prices, InService
<1>4. RunOK'
  BY <1>1, <1>2 DEF IInv, TypeOK, RunOK, Models
<1>5. VersionsGrow'
  <2>1. SUFFICES ASSUME ~forgot, metadata # Torn PROVE VersionsGrow'
    BY <1>2 DEF VersionsGrow
  <2>2. version' = metadata + 1
    BY <1>2, <2>1 DEF IInv, TypeOK
  <2>. QED
    BY <1>1, <1>2, <2>1, <2>2 DEF IInv, VersionsGrow
<1>. QED
  BY <1>1, <1>3, <1>4, <1>5, ServingUntouched DEF IInv

LEMMA DumpInv ==
    ASSUME IInv, Dump \/ Abort PROVE IInv'
<1>. USE BoundsAssumption DEF None, Torn
<1>1. UNCHANGED <<process, cache, late, request, metadata, released, trainings, version, forgot>>
  BY DEF Dump, Abort
<1>2. TypeOK'
  BY <1>1 DEF IInv, TypeOK, RunOK, Dump, Abort, process, Models
<1>3. RunOK' /\ VersionsGrow'
  BY <1>1 DEF IInv, RunOK, VersionsGrow, Dump, Abort
<1>. QED
  BY <1>1, <1>2, <1>3, ServingUntouched DEF IInv

\* The second write of a run ends it with a version above all others.
LEMMA DescribeInv ==
    ASSUME IInv, Describe PROVE IInv'
<1>. USE BoundsAssumption DEF None, Torn
<1>1. UNCHANGED <<process, cache, late, request, artifact, trainings, version, forgot>>
  BY DEF Describe
<1>2. CASE trainer = "dumped"
  <2>1. trainer' = "describing" /\ metadata' = Torn /\ released' = released
    BY <1>2 DEF Describe
  <2>2. TypeOK' /\ RunOK'
    BY <1>1, <1>2, <2>1 DEF IInv, TypeOK, RunOK, process
  <2>3. VersionsGrow'
    BY <1>1, <1>2, <2>1 DEF IInv, TypeOK, VersionsGrow, Models
  <2>. QED
    BY <1>1, <2>2, <2>3, ServingUntouched DEF IInv
<1>3. CASE trainer = "describing"
  <2>1. /\ trainer' = "idle" /\ metadata' = version
        /\ released' = released \cup {<<version, trainings>>}
    BY <1>3 DEF Describe
  <2>2. version \in Models /\ trainings \in Models
    BY <1>3 DEF IInv, TypeOK, RunOK, Models
  <2>3. TypeOK' /\ RunOK'
    BY <1>1, <2>1, <2>2 DEF IInv, TypeOK, RunOK, process, Models
  <2>4. VersionsGrow'
    <3>1. SUFFICES ASSUME ~forgot PROVE VersionsGrow'
      BY <1>1 DEF VersionsGrow
    <3>2. /\ \A x \in released : x[1] < version
          /\ \A x, y \in released : x[1] = y[1] => x = y
      BY <1>3, <3>1 DEF IInv, VersionsGrow
    <3>3. \A x \in released : x[1] \in Models
      BY DEF IInv, TypeOK
    <3>4. \A x \in released' : x \in released \/ (x = <<version, trainings>> /\ x[1] = version)
      BY <2>1
    <3>5. \A x \in released' : x[1] <= version
      BY <2>2, <3>2, <3>3, <3>4 DEF Models
    <3>6. \A x, y \in released' : x[1] = y[1] => x = y
      BY <2>2, <3>2, <3>3, <3>4 DEF Models
    <3>. QED
      BY <2>1, <3>5, <3>6 DEF VersionsGrow
  <2>. QED
    BY <1>1, <2>3, <2>4, ServingUntouched DEF IInv
<1>. QED
  BY <1>2, <1>3 DEF Describe

-----------------------------------------------------------------------------
(* Workers                                                                 *)

\* Nothing of the files changes.
LEMMA FilesUntouched ==
    ASSUME IInv, UNCHANGED files PROVE RunOK' /\ VersionsGrow'
BY DEF IInv, files, RunOK, VersionsGrow

LEMMA LoadArtifactInv ==
    ASSUME IInv, NEW w \in Workers, LoadArtifact(w) PROVE IInv'
<1>. USE BoundsAssumption DEF None, Torn
<1>1. /\ UNCHANGED <<files, label, served, cache, late, request>>
      /\ worker[w] = "down"
  BY DEF LoadArtifact
<1>2. PICK s \in {"up", "loading"}, m \in Models \cup {None} :
        /\ worker' = [worker EXCEPT ![w] = s]
        /\ model' = [model EXCEPT ![w] = m]
        /\ s = "up" <=> m = None
  <2>1. CASE artifact \in {None, Torn}
    <3>1. model[w] = None /\ model \in [Workers -> Models \cup {None}]
      BY <1>1 DEF IInv, TypeOK, WorkersServe
    <3>2. model' = [model EXCEPT ![w] = None]
      BY <2>1, <3>1 DEF LoadArtifact
    <3>. QED
      BY <2>1, <3>2 DEF LoadArtifact
  <2>2. CASE artifact \notin {None, Torn}
    BY <2>2 DEF IInv, TypeOK, LoadArtifact, Models
  <2>. QED
    BY <2>1, <2>2
<1>3. TypeOK'
  BY <1>1, <1>2 DEF IInv, TypeOK, files, LoadArtifact
<1>4. WorkersServe'
  BY <1>1, <1>2 DEF IInv, TypeOK, WorkersServe
<1>5. RequestsMatch'
  <2>1. \A r \in Requests : Open(r) => request[r].worker \in Workers \ {w}
    BY <1>1, OpenRequest DEF IInv, RequestsMatch
  <2>. QED
    BY <1>1, <1>2, <2>1 DEF IInv, TypeOK, RequestsMatch, Open
<1>6. PricesKeepTheirVersion' /\ AnswersOwn'
  BY <1>1 DEF IInv, PricesKeepTheirVersion, AnswersOwn
<1>. QED
  BY <1>1, <1>3, <1>4, <1>5, <1>6, FilesUntouched DEF IInv

LEMMA LoadMetadataInv ==
    ASSUME IInv, NEW w \in Workers, LoadMetadata(w) PROVE IInv'
<1>. USE BoundsAssumption DEF None, Torn
<1>1. /\ UNCHANGED <<files, model, loads, cache, late, request>>
      /\ worker[w] = "loading" /\ worker' = [worker EXCEPT ![w] = "up"]
  BY DEF LoadMetadata
<1>2. PICK l \in Labels : label' = [label EXCEPT ![w] = l]
  <2>1. VersionRead \in Labels
    BY DEF IInv, TypeOK, VersionRead, Models, Labels
  <2>. QED
    BY <2>1 DEF LoadMetadata
<1>3. /\ label'[w] = l /\ model[w] \in Models
      /\ served' = served \cup {<<l, model[w]>>}
  BY <1>1, <1>2 DEF IInv, TypeOK, WorkersServe, LoadMetadata
<1>4. TypeOK'
  BY <1>1, <1>2, <1>3 DEF IInv, TypeOK, files
<1>5. WorkersServe'
  BY <1>1, <1>2, <1>3 DEF IInv, TypeOK, WorkersServe
<1>6. RequestsMatch'
  <2>1. \A r \in Requests : Open(r) => request[r].worker \in Workers \ {w}
    BY <1>1, OpenRequest DEF IInv, RequestsMatch
  <2>. QED
    BY <1>1, <1>2, <2>1 DEF IInv, TypeOK, RequestsMatch, Open
<1>7. PricesKeepTheirVersion' /\ AnswersOwn'
  BY <1>1, <1>3 DEF IInv, PricesKeepTheirVersion, AnswersOwn
<1>. QED
  BY <1>1, <1>4, <1>5, <1>6, <1>7, FilesUntouched DEF IInv

LEMMA DownInv ==
    ASSUME IInv, NEW w \in Workers, Down(w) PROVE IInv'
<1>. USE DEF None
<1>1. /\ UNCHANGED <<files, loads, served, cache, late>>
      /\ worker' = [worker EXCEPT ![w] = "down"]
      /\ model' = [model EXCEPT ![w] = None]
      /\ label' = [label EXCEPT ![w] = None]
  BY DEF Down
<1>2. \A r \in Requests :
        request'[r] = IF Open(r) /\ request[r].worker = w THEN [at |-> "lost"] ELSE request[r]
  BY DEF Down
<1>3. request' \in [Requests -> [at : {"idle", "unavailable", "lost"}] \cup Prices \cup InService]
  <2>1. request' = [r \in Requests |->
                       IF Open(r) /\ request[r].worker = w THEN [at |-> "lost"] ELSE request[r]]
    BY DEF Down
  <2>. QED
    BY <2>1 DEF IInv, TypeOK
<1>4. TypeOK'
  BY <1>1, <1>3, BoundsAssumption DEF IInv, TypeOK, files, Labels
<1>5. WorkersServe'
  BY <1>1 DEF IInv, TypeOK, WorkersServe
<1>6. \A r \in Requests : request'[r] = request[r] \/ request'[r].at = "lost"
  BY <1>2
<1>7. RequestsMatch'
  <2>1. \A r \in Requests : Open(r)' => /\ request'[r] = request[r] /\ Open(r)
                                        /\ request[r].worker \in Workers \ {w}
    <3>1. SUFFICES ASSUME NEW r \in Requests, Open(r)'
                   PROVE  /\ request'[r] = request[r] /\ Open(r)
                          /\ request[r].worker \in Workers \ {w}
      OBVIOUS
    <3>2. request'[r] = request[r] /\ Open(r)
      BY <1>6, <3>1 DEF Open
    <3>3. request[r].worker # w
      BY <1>2, <3>1, <3>2 DEF Open
    <3>. QED
      BY <3>2, <3>3, OpenRequest DEF IInv
  <2>. QED
    BY <1>1, <2>1 DEF IInv, TypeOK, RequestsMatch
<1>8. PricesKeepTheirVersion' /\ AnswersOwn'
  BY <1>1, <1>6 DEF IInv, PricesKeepTheirVersion, AnswersOwn
<1>. QED
  BY <1>1, <1>4, <1>5, <1>7, <1>8, FilesUntouched DEF IInv

-----------------------------------------------------------------------------
(* Requests and the cache                                                  *)

\* One request changes, workers and files do not: what is left to show.
LEMMA RequestInv ==
    ASSUME IInv, UNCHANGED <<files, process>>,
           NEW r \in Requests,
           NEW q \in [at : {"idle", "unavailable", "lost"}] \cup Prices \cup InService,
           request' = [request EXCEPT ![r] = q],
           cache' \in [Labels \X Cars -> Models \cup {None}],
           late' \subseteq (Labels \X Cars) \X Models,
           \A k \in Labels \X Cars : cache'[k] # None => <<k[1], cache'[k]>> \in served,
           \A s \in late' : <<s[1][1], s[2]>> \in served,
           q.at \in {"get", "set"} =>
               /\ worker[q.worker] = "up"
               /\ q.own = model[q.worker]
               /\ q.key[1] = label[q.worker],
           q.at = "answered" => {<<q.label, q.price>>, <<q.label, q.own>>} \subseteq served
    PROVE  IInv'
<1>1. \A p \in Requests : request'[p] = IF p = r THEN q ELSE request[p]
  BY DEF IInv, TypeOK
<1>2. TypeOK'
  BY DEF IInv, TypeOK, files, process
<1>3. WorkersServe'
  BY DEF IInv, WorkersServe, process
<1>4. RequestsMatch'
  BY <1>1 DEF IInv, RequestsMatch, Open, process
<1>5. PricesKeepTheirVersion' /\ AnswersOwn'
  BY <1>1 DEF IInv, PricesKeepTheirVersion, AnswersOwn, process
<1>. QED
  BY <1>2, <1>3, <1>4, <1>5, FilesUntouched DEF IInv

LEMMA SendInv ==
    ASSUME IInv, NEW r \in Requests, Send(r) PROVE IInv'
<1>1. UNCHANGED <<files, process, cache, late>>
  BY DEF Send
<1>2. PICK w \in Workers, c \in Cars :
        /\ worker[w] = "up"
        /\ request' = [request EXCEPT ![r] =
               IF model[w] = None
               THEN [at |-> "unavailable"]
               ELSE [at |-> "get", worker |-> w, own |-> model[w], key |-> Key(w, c)]]
  BY DEF Send
<1>. DEFINE q == IF model[w] = None
                 THEN [at |-> "unavailable"]
                 ELSE [at |-> "get", worker |-> w, own |-> model[w], key |-> Key(w, c)]
<1>3. /\ q \in [at : {"idle", "unavailable", "lost"}] \cup Prices \cup InService
      /\ q.at # "answered"
      /\ q.at \in {"get", "set"} =>
             worker[q.worker] = "up" /\ q.own = model[q.worker] /\ q.key[1] = label[q.worker]
  <2>1. CASE model[w] = None
    BY <2>1
  <2>2. CASE model[w] # None
    <3>1. model[w] \in Models /\ Key(w, c) \in Labels \X Cars /\ Key(w, c)[1] = label[w]
      BY <2>2 DEF IInv, TypeOK, Key
    <3>2. q = [at |-> "get", worker |-> w, own |-> model[w], key |-> Key(w, c)]
      BY <2>2
    <3>. QED
      BY <1>2, <3>1, <3>2 DEF InService
  <2>. QED
    BY <2>1, <2>2
<1>4. request' = [request EXCEPT ![r] = q]
  BY <1>2
<1>. HIDE DEF q
<1>5. /\ cache' \in [Labels \X Cars -> Models \cup {None}]
      /\ late' \subseteq (Labels \X Cars) \X Models
      /\ \A k \in Labels \X Cars : cache'[k] # None => <<k[1], cache'[k]>> \in served
      /\ \A s \in late' : <<s[1][1], s[2]>> \in served
  BY <1>1 DEF IInv, TypeOK, PricesKeepTheirVersion
<1>. QED
  BY <1>1, <1>3, <1>4, <1>5, RequestInv

\* An answer, with a price that was served under the label of the worker.
LEMMA AnswerTypes ==
    ASSUME IInv, NEW r \in Requests, Open(r), NEW m \in Models,
           <<request[r].key[1], m>> \in served, request' = Answered(r, m)
    PROVE  \E q \in [at : {"idle", "unavailable", "lost"}] \cup Prices \cup InService :
               /\ request' = [request EXCEPT ![r] = q]
               /\ q.at = "answered"
               /\ {<<q.label, q.price>>, <<q.label, q.own>>} \subseteq served
<1>. DEFINE q == [at |-> "answered", own |-> request[r].own,
                  label |-> label[request[r].worker], price |-> m]
<1>1. request' = [request EXCEPT ![r] = q]
  BY DEF Answered, IInv, TypeOK
<1>2. /\ label[request[r].worker] = request[r].key[1]
      /\ request[r].key[1] \in Labels /\ request[r].own \in Models
  BY OpenRequest DEF IInv, RequestsMatch
<1>3. q \in Prices
  BY <1>2 DEF Prices
<1>4. {<<q.label, q.price>>, <<q.label, q.own>>} \subseteq served
  BY <1>2, OwnIsServed
<1>. QED
  BY <1>1, <1>3, <1>4

LEMMA MissInv ==
    ASSUME IInv, NEW r \in Requests, Miss(r) PROVE IInv'
<1>1. UNCHANGED <<files, process, cache, late>> /\ request[r].at = "get" /\ Open(r)
  BY DEF Miss, Open
<1>2. request[r] \in InService
  BY <1>1, RequestTypes DEF IInv
<1>. DEFINE q == [request[r] EXCEPT !.at = "set"]
<1>3. request' = [request EXCEPT ![r] = q]
  BY DEF Miss, IInv, TypeOK
<1>4. /\ q \in InService /\ q.at = "set"
      /\ q.worker = request[r].worker /\ q.own = request[r].own /\ q.key = request[r].key
  BY <1>2 DEF InService
<1>5. worker[q.worker] = "up" /\ q.own = model[q.worker] /\ q.key[1] = label[q.worker]
  BY <1>1, <1>4 DEF IInv, RequestsMatch
<1>. HIDE DEF q
<1>6. /\ cache' \in [Labels \X Cars -> Models \cup {None}]
      /\ late' \subseteq (Labels \X Cars) \X Models
      /\ \A k \in Labels \X Cars : cache'[k] # None => <<k[1], cache'[k]>> \in served
      /\ \A s \in late' : <<s[1][1], s[2]>> \in served
  BY <1>1 DEF IInv, TypeOK, PricesKeepTheirVersion
<1>. QED
  BY <1>1, <1>3, <1>4, <1>5, <1>6, RequestInv

\* A hit, or the model's own price, stored, on its way, or lost.
LEMMA AnswerInv ==
    ASSUME IInv, NEW r \in Requests, Hit(r) \/ Store(r) \/ StoreFails(r) PROVE IInv'
<1>. USE DEF None
<1>1. Open(r) /\ UNCHANGED <<files, process>>
  BY DEF Hit, Store, StoreFails, Open
<1>2. /\ request[r].key \in Labels \X Cars /\ request[r].own \in Models
      /\ <<request[r].key[1], request[r].own>> \in served
  BY <1>1, OpenRequest, OwnIsServed DEF IInv
<1>3. PICK m \in Models :
        <<request[r].key[1], m>> \in served /\ request' = Answered(r, m)
  <2>1. CASE Hit(r)
    <3>1. cache[request[r].key] \in Models
      BY <1>2, <2>1 DEF Hit, IInv, TypeOK
    <3>2. <<request[r].key[1], cache[request[r].key]>> \in served
      BY <1>2, <2>1 DEF Hit, IInv, PricesKeepTheirVersion
    <3>. QED
      BY <2>1, <3>1, <3>2 DEF Hit
  <2>2. CASE Store(r) \/ StoreFails(r)
    BY <1>2, <2>2 DEF Store, StoreFails
  <2>. QED
    BY <2>1, <2>2
<1>4. PICK q \in [at : {"idle", "unavailable", "lost"}] \cup Prices \cup InService :
        /\ request' = [request EXCEPT ![r] = q]
        /\ q.at = "answered"
        /\ {<<q.label, q.price>>, <<q.label, q.own>>} \subseteq served
  BY <1>1, <1>3, AnswerTypes
<1>5. /\ cache' \in [Labels \X Cars -> Models \cup {None}]
      /\ \A k \in Labels \X Cars : cache'[k] # None => <<k[1], cache'[k]>> \in served
  <2>1. cache' = cache \/ cache' = [cache EXCEPT ![request[r].key] = request[r].own]
    BY DEF Hit, Store, StoreFails
  <2>. QED
    BY <1>2, <2>1 DEF IInv, TypeOK, PricesKeepTheirVersion
<1>6. /\ late' \subseteq (Labels \X Cars) \X Models
      /\ \A s \in late' : <<s[1][1], s[2]>> \in served
  <2>1. late' = late \/ late' = late \cup {<<request[r].key, request[r].own>>}
    BY DEF Hit, Store, StoreFails
  <2>. QED
    BY <1>2, <2>1 DEF IInv, TypeOK, PricesKeepTheirVersion
<1>. QED
  BY <1>1, <1>4, <1>5, <1>6, RequestInv

LEMMA RedisInv ==
    ASSUME IInv, StoreLate \/ Expire PROVE IInv'
<1>. USE DEF None
<1>1. UNCHANGED <<files, process, request>> /\ late' \subseteq late
  BY DEF StoreLate, Expire
<1>2. /\ cache' \in [Labels \X Cars -> Models \cup {None}]
      /\ \A k \in Labels \X Cars : cache'[k] # None => <<k[1], cache'[k]>> \in served
  <2>1. CASE StoreLate
    <3>1. PICK s \in late : cache' = [cache EXCEPT ![s[1]] = s[2]]
      BY <2>1 DEF StoreLate
    <3>2. s[1] \in Labels \X Cars /\ s[2] \in Models /\ <<s[1][1], s[2]>> \in served
      BY DEF IInv, TypeOK, PricesKeepTheirVersion
    <3>. QED
      BY <3>1, <3>2 DEF IInv, TypeOK, PricesKeepTheirVersion
  <2>2. CASE Expire
    BY <2>2 DEF Expire, IInv, TypeOK, PricesKeepTheirVersion
  <2>. QED
    BY <2>1, <2>2
<1>3. TypeOK'
  BY <1>1, <1>2 DEF IInv, TypeOK, files, process
<1>4. WorkersServe' /\ RequestsMatch' /\ PricesKeepTheirVersion' /\ AnswersOwn'
  BY <1>1, <1>2 DEF IInv, process, WorkersServe, RequestsMatch, Open, PricesKeepTheirVersion, AnswersOwn
<1>. QED
  BY <1>1, <1>3, <1>4, FilesUntouched DEF IInv

-----------------------------------------------------------------------------
(* Theorems                                                                *)

\* Every step of a training run, a worker, a request and Redis preserves the
\* invariant: what is served under a label, and what the cache holds under it.
THEOREM Inductive == IInv /\ [Next]_vars => IInv'
<1>. SUFFICES ASSUME IInv, [Next]_vars PROVE IInv'
  OBVIOUS
<1>1. ASSUME Fit \/ Dump \/ Describe \/ Abort PROVE IInv'
  BY <1>1, FitInv, DumpInv, DescribeInv
<1>2. ASSUME NEW w \in Workers, LoadArtifact(w) \/ LoadMetadata(w) \/ Down(w) PROVE IInv'
  BY <1>2, LoadArtifactInv, LoadMetadataInv, DownInv
<1>3. ASSUME NEW r \in Requests, Send(r) \/ Serve(r) PROVE IInv'
  BY <1>3, SendInv, MissInv, AnswerInv DEF Serve
<1>4. ASSUME StoreLate \/ Expire PROVE IInv'
  BY <1>4, RedisInv
<1>5. CASE UNCHANGED vars
  BY <1>5, ServingUntouched, FilesUntouched DEF vars, files, process, IInv, TypeOK
<1>. QED
  BY <1>1, <1>2, <1>3, <1>4, <1>5 DEF Next

LEMMA Invariant == Spec => []IInv
BY InitInv, Inductive, PTL DEF Spec

\* The variables keep their types: no version overtakes the training runs, and
\* whatever is torn is never served.
THEOREM TypeCorrect == Spec => []TypeOK
<1>1. IInv => TypeOK
  BY DEF IInv
<1>. QED
  BY <1>1, Invariant, PTL

\* For any number of workers over one Redis: an answer, a cached price and a SET
\* on its way under a version are those of a model served under that version.
THEOREM PricesKeepTheirVersionHolds == Spec => []PricesKeepTheirVersion
<1>1. IInv => PricesKeepTheirVersion
  BY DEF IInv
<1>. QED
  BY <1>1, Invariant, PTL

\* A model answers for another one only if both were served under one version,
\* which is v0, or was not released with both, or came back after the metadata
\* had been lost.
THEOREM PredecessorOnlyUnderSharedLabelHolds == Spec => []PredecessorOnlyUnderSharedLabel
<1>1. IInv => PredecessorOnlyUnderSharedLabel
  <2>. SUFFICES ASSUME IInv, NEW r \in Requests,
                       request[r].at = "answered", request[r].price # request[r].own
                PROVE  SharedLabel(request[r].label, request[r].own, request[r].price)
    BY DEF PredecessorOnlyUnderSharedLabel
  <2>. DEFINE l == request[r].label
  <2>1. {<<l, request[r].own>>, <<l, request[r].price>>} \subseteq served
    BY DEF IInv, PricesKeepTheirVersion, AnswersOwn
  <2>2. ASSUME ~forgot, {<<l, request[r].own>>, <<l, request[r].price>>} \subseteq released
        PROVE  FALSE
    BY <2>2 DEF IInv, VersionsGrow
  <2>. QED
    BY <2>1, <2>2 DEF SharedLabel
<1>. QED
  BY <1>1, Invariant, PTL
=============================================================================
