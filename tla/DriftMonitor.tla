------------------------------ MODULE DriftMonitor ------------------------------
(***************************************************************************)
(* The model-health figures of one worker: DriftMonitor.refresh of         *)
(* src/app/services/drift.py, and refresh_live_error and the timer of      *)
(* src/app/services/health_refresh.py.  Workers share nothing here but the *)
(* predictions table, which writers fill, reports score, and one run of    *)
(* src/scripts/seed_predictions.py empties or loads.                       *)
(*                                                                         *)
(* A refresh reads the newest rows, scores them in a thread and publishes  *)
(* the report with its gauges.  The timer and requests to recompute may    *)
(* each have one under way, and any of them may fail.                      *)
(***************************************************************************)
EXTENDS DriftScores

CONSTANTS
    Columns,      \* training columns to be described, one of them in a behaviour
    Values,       \* values of live rows
    Probes,       \* values at which the bins are tried
    Window,       \* rows in a sample
    MinSamples,   \* rows below which there is no score
    LiveWindow,   \* scored rows of the live error
    MaxRows,      \* bound: rows ever inserted
    MaxFailures   \* bound: failures of a refresh

ASSUME MonitorAssumption ==
    /\ Window \in Nat /\ LiveWindow \in Nat /\ MinSamples \in Nat \ {0}
    /\ MaxRows \in Nat /\ MaxFailures \in Nat
    /\ Columns \subseteq TrainingColumns /\ Probes \subseteq Int \ {NaN}

VARIABLES
    column,     \* the training column of the served model
    reference,  \* DriftMonitor._reference
    table,      \* the rows in the order of their ids
    rows,       \* how many were ever inserted
    script,     \* the seed script: "not_run", "loading" or "ended"
    timer,      \* HealthRefresher._run: "sleep", "drift", "scoring" or "live"
    recompute,  \* GET /model/drift?recompute=true: "idle" or "scoring"
    sample,     \* the sample each of the two has read
    latest,     \* DriftMonitor._latest
    psi,        \* the gauges of DRIFT_PSI, Unset before the first score
    samples,    \* the gauge DRIFT_SAMPLES
    live,       \* the gauges LIVE_SCORED and LIVE_MAE, the latter as rows
    failures    \* how many refreshes failed

training == <<column, reference>>
database == <<table, rows, script>>
tasks == <<timer, recompute, sample, failures>>
drift == <<latest, psi, samples>>
vars == <<training, database, tasks, drift, live>>

Unset == {"unset"}

\* recent_inputs: the highest ids first.
Newest(limit) ==
    LET n == Len(table)
    IN [i \in 1..(IF n < limit THEN n ELSE limit) |-> table[n + 1 - i].value]

Report(s) ==
    LET ready == reference.kind # "none" /\ Len(s) >= MinSamples
    IN [configured |-> reference.kind # "none", samples |-> Len(s), ready |-> ready,
        worst |-> IF ready THEN Psi(reference, s) ELSE {}]

Scored == {i \in DOMAIN table : table[i].scored}

\* Mutation of NewestScored: the newest by id, as recent_inputs has them.
NewestScoredById ==
    {S \in SUBSET Scored :
        /\ Cardinality(S) = IF Cardinality(Scored) < LiveWindow THEN Cardinality(Scored) ELSE LiveWindow
        /\ \A i \in S, j \in Scored \ S : i > j}
\* live_performance: the scored rows that are newest by created_at.  Between
\* rows of one time the database chooses.
NewestScored ==
    {S \in SUBSET Scored :
        /\ Cardinality(S) = IF Cardinality(Scored) < LiveWindow THEN Cardinality(Scored) ELSE LiveWindow
        /\ \A i \in S, j \in Scored \ S : table[i].created >= table[j].created}

Init ==
    /\ column \in Columns
    /\ reference = Describe(column)
    /\ table = <<>> /\ rows = 0 /\ script = "not_run"
    /\ timer = "drift" /\ recompute = "idle"
    /\ sample = [timer |-> <<>>, recompute |-> <<>>]
    /\ latest = Report(<<>>)
    /\ psi = Unset /\ samples = 0
    /\ live = [scored |-> 0, mae |-> Unset]
    /\ failures = 0

-----------------------------------------------------------------------------
(* The worker                                                              *)

\* The sample is read; without a reference there is nothing to do.
Read(a) ==
    /\ reference.kind # "none"
    /\ sample' = [sample EXCEPT ![a] = Newest(Window)]

\* Mutation of Show: the gauges are set as soon as there is a sample.
ShowAnySample(s) ==
    /\ samples' = Len(s)
    /\ psi' = IF s = <<>> THEN psi ELSE Psi(reference, s)
\* The gauges; those of the features are left as they are while not ready.
Show(s) ==
    /\ samples' = Len(s)
    /\ psi' = IF Report(s).ready THEN Psi(reference, s) ELSE psi

\* The thread is done: report and gauges change between two awaits.
Publish(a) ==
    /\ latest' = Report(sample[a])
    /\ Show(sample[a])
    /\ sample' = [sample EXCEPT ![a] = <<>>]

\* Mutation of AfterFailure: the exception ends the loop.
LoopEnds == "ended"
\* Each check fails on its own.
AfterFailure == "live"

TimerRead ==
    /\ timer = "drift"
    /\ \/ Read("timer") /\ timer' = "scoring"
       \/ reference.kind = "none" /\ timer' = "live" /\ UNCHANGED sample
    /\ UNCHANGED <<training, database, recompute, failures, drift, live>>

TimerPublish ==
    /\ timer = "scoring"
    /\ Publish("timer")
    /\ timer' = "live"
    /\ UNCHANGED <<training, database, recompute, failures, live>>

TimerDriftFails ==
    /\ timer \in {"drift", "scoring"}
    /\ failures < MaxFailures
    /\ failures' = failures + 1
    /\ timer' = AfterFailure
    /\ sample' = [sample EXCEPT !.timer = <<>>]
    /\ UNCHANGED <<training, database, recompute, drift, live>>

Means(S) == {table[i].n : i \in S}
\* Without scored rows there is no mean, and its gauge keeps the last one.
LiveError(S) == [scored |-> Cardinality(S), mae |-> IF S = {} THEN live.mae ELSE Means(S)]

RefreshLiveError ==
    /\ timer = "live"
    /\ timer' = "sleep"
    /\ \E S \in NewestScored : live' = LiveError(S)
    /\ UNCHANGED <<training, database, recompute, sample, failures, drift>>

LiveErrorFails ==
    /\ timer = "live"
    /\ failures < MaxFailures
    /\ failures' = failures + 1
    /\ timer' = "sleep"
    /\ UNCHANGED <<training, database, recompute, sample, drift, live>>

Wake ==
    /\ timer = "sleep"
    /\ timer' = "drift"
    /\ UNCHANGED <<training, database, recompute, sample, failures, drift, live>>

\* An operator asks for a report; one at a time is enough to meet the timer.
Recompute ==
    /\ recompute = "idle"
    /\ Read("recompute")
    /\ recompute' = "scoring"
    /\ UNCHANGED <<training, database, timer, failures, drift, live>>

RecomputeEnds ==
    /\ recompute = "scoring"
    /\ recompute' = "idle"
    /\ \/ Publish("recompute") /\ UNCHANGED failures
       \/ /\ failures < MaxFailures
          /\ failures' = failures + 1
          /\ sample' = [sample EXCEPT !.recompute = <<>>]
          /\ UNCHANGED drift
    /\ UNCHANGED <<training, database, timer, live>>

-----------------------------------------------------------------------------
(* The table                                                               *)

Row(v, created) == [n |-> rows + 1, value |-> v, created |-> created, scored |-> FALSE]

\* A writer inserts a row.
Insert ==
    /\ rows < MaxRows
    /\ rows' = rows + 1
    /\ \E v \in Values : table' = Append(table, Row(v, rows + 1))
    /\ UNCHANGED <<training, script, tasks, drift, live>>

\* A row of the seed script has a time of the last two years.
Generated(v) == Row(v, 0)

\* The script empties the table if it was told to, which is committed at once.
ScriptBegin ==
    /\ script = "not_run"
    /\ script' = "loading"
    /\ table' \in {table, <<>>}
    /\ UNCHANGED <<training, rows, tasks, drift, live>>

\* It loads such rows, by COPY or by INSERT: the newest by id need not be the
\* newest by created_at.
Copy ==
    /\ script = "loading"
    /\ rows < MaxRows
    /\ rows' = rows + 1
    /\ \E v \in Values : table' = Append(table, Generated(v))
    /\ UNCHANGED <<training, script, tasks, drift, live>>

\* All rows are loaded, or a statement failed: what was loaded stays.
ScriptEnds ==
    /\ script = "loading"
    /\ script' = "ended"
    /\ UNCHANGED <<training, table, rows, tasks, drift, live>>

\* An actual price is recorded.
RecordActual ==
    /\ \E i \in DOMAIN table : ~table[i].scored /\ table' = [table EXCEPT ![i].scored = TRUE]
    /\ UNCHANGED <<training, rows, script, tasks, drift, live>>

-----------------------------------------------------------------------------

Timer == TimerRead \/ TimerPublish \/ TimerDriftFails \/ RefreshLiveError \/ LiveErrorFails \/ Wake

Next ==
    \/ Timer
    \/ Recompute \/ RecomputeEnds
    \/ Insert \/ RecordActual
    \/ ScriptBegin \/ Copy \/ ScriptEnds

\* The loop runs for ever, and a refresh that has read its sample ends.
Spec == Init /\ [][Next]_vars /\ WF_vars(Timer) /\ WF_vars(RecomputeEnds)

-----------------------------------------------------------------------------
(* Properties                                                              *)

\* The variables keep their types.
TypeOK ==
    /\ column \in Columns
    /\ reference.kind \in {"none", "numeric", "categorical"}
    /\ \A i \in DOMAIN table :
           table[i] \in [n : 1..MaxRows, value : Values, created : 0..MaxRows, scored : BOOLEAN]
    /\ rows \in 0..MaxRows /\ Len(table) <= rows
    /\ script \in {"not_run", "loading", "ended"}
    /\ timer \in {"sleep", "drift", "scoring", "live"}
    /\ recompute \in {"idle", "scoring"}
    /\ \A a \in {"timer", "recompute"} : Len(sample[a]) <= Window
    /\ latest.samples \in 0..Window
    /\ samples \in 0..Window
    /\ live.scored \in 0..LiveWindow
    /\ failures \in 0..MaxFailures

GaugesAgree ==
    /\ samples = latest.samples
    /\ latest.ready => psi = latest.worst

\* The gauges never contradict the report /model/drift shows, whichever of two
\* refreshes publishes last and whatever fails between them.  While the report
\* has no scores, for want of rows, the gauges of the features stay those of the
\* last report that had: a sample too small to be reported never moves them, and
\* with them the alert.
GaugesShowTheReport ==
    /\ []GaugesAgree
    /\ [][~latest'.ready => UNCHANGED psi]_vars

\* The two ends of the comparison agree, for the reference as it is configured.
TrainingHasNoDrift == AgreesWith(reference, column)
EveryValueCounted == \A v \in Probes : CountsEach(reference, v)

\* The rows after which fewer than Window were inserted, oldest first.
LastInserted ==
    LET last == {i \in DOMAIN table :
                    Cardinality({j \in DOMAIN table : table[j].n > table[i].n}) < Window}
    IN [k \in 1..Cardinality(last) |-> table[Ascending(last)[k]].value]

\* Both figures by what they are about, whatever the queries order by: drift by
\* the rows inserted last, the live error by scored rows of which none that is
\* left out was predicted later.  (Where nothing is scored there is no mean.)
Current ==
    /\ latest = Report(IF reference.kind = "none" THEN <<>> ELSE LastInserted)
    /\ \E S \in SUBSET Scored :
           /\ live.scored = Cardinality(S)
           /\ S # {} => live.mae = Means(S)
           /\ S = Scored \/ Cardinality(S) = LiveWindow
           /\ \A j \in Scored \ S : \A i \in S : table[j].created <= table[i].created

\* Once the table stands still and nothing fails any more, the report and the
\* live error come to be those of the table, for good: of every worker, hence
\* they agree, and a late refresh with an old sample does not have the last word.
HealthConverges == <>[]Current
=============================================================================
