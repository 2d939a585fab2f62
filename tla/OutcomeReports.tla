---------------------------- MODULE OutcomeReports ----------------------------
(***************************************************************************)
(* Reporting the price a car was sold for: record_actual_price of          *)
(* src/app/api/routes_predict.py with record_actual and exists of          *)
(* src/app/db/repositories.py, while the writer of the prediction log      *)
(* brings the predictions into the table.                                  *)
(*                                                                         *)
(* The writer appears as PredictionLog shows it: a prediction is answered  *)
(* to its caller while its row is pending, and the row is stored or lost   *)
(* later.  A report carries a price of its own, so the report stands for   *)
(* the price.  It is one transaction with a conditional UPDATE, which      *)
(* holds the row's lock from the statement to its commit, and, when that   *)
(* matched nothing, a second transaction that looks for the row.           *)
(***************************************************************************)
EXTENDS Integers, FiniteSets

CONSTANTS
    Rows,     \* predictions, by public_id
    Reports,  \* requests to POST /predictions/{id}/actual
    Nobody    \* no report: the price is NULL, the lock is free

ASSUME ReportsAssumption == Nobody \notin Reports

VARIABLES
    row,      \* of each prediction: "unknown", "pending", "stored" or "lost"
    actual,   \* the committed actual_price of each row: the report it is from
    lock,     \* the report whose UPDATE of the row is not committed
    at,       \* where each report is; its status code at the end
    target    \* the prediction a report names

vars == <<row, actual, lock, at, target>>

Codes == {"200", "404", "409", "500"}
Points == {"idle", "update", "commit", "check"} \cup Codes
Answered(p) == at[p] \in Codes

Init ==
    /\ row = [r \in Rows |-> "unknown"]
    /\ actual = [r \in Rows |-> Nobody]
    /\ lock = [r \in Rows |-> Nobody]
    /\ at = [p \in Reports |-> "idle"]
    /\ target \in [Reports -> Rows]

-----------------------------------------------------------------------------
(* The prediction log                                                      *)

\* predict_price answers with the id of a row that is only queued.
Predict(r) ==
    /\ row[r] = "unknown"
    /\ row' = [row EXCEPT ![r] = "pending"]
    /\ UNCHANGED <<actual, lock, at, target>>

Store(r) ==
    /\ row[r] = "pending"
    /\ row' = [row EXCEPT ![r] = "stored"]
    /\ UNCHANGED <<actual, lock, at, target>>

Lose(r) ==
    /\ row[r] = "pending"
    /\ row' = [row EXCEPT ![r] = "lost"]
    /\ UNCHANGED <<actual, lock, at, target>>

-----------------------------------------------------------------------------
(* The reports                                                             *)

Goto(p, point) == at' = [at EXCEPT ![p] = point]

\* The two errors a report is refused with; the detail of the first says that
\* a row may be recorded shortly.
StatusOf == [PredictionNotFoundError |-> "404", ActualAlreadyRecordedError |-> "409"]

Send(p) ==
    /\ at[p] = "idle"
    /\ Goto(p, "update")
    /\ UNCHANGED <<row, actual, lock, target>>

\* The UPDATE waits for the lock of a row it sees, then tests its WHERE again.
Unlocked(r) == lock[r] = Nobody

\* Mutation of Matches: the UPDATE does not ask for a NULL price.
MatchesAnyRow(r) == row[r] = "stored"

Matches(r) == row[r] = "stored" /\ actual[r] = Nobody

\* Mutation of Update: no row lock, as if the code had read the row first.
UpdateWithoutLock(p) ==
    /\ at[p] = "update"
    /\ Matches(target[p])
    /\ Goto(p, "commit")
    /\ UNCHANGED <<row, actual, lock, target>>

\* record_actual: the UPDATE matches.
Update(p) ==
    /\ at[p] = "update"
    /\ Unlocked(target[p])
    /\ Matches(target[p])
    /\ lock' = [lock EXCEPT ![target[p]] = p]
    /\ Goto(p, "commit")
    /\ UNCHANGED <<row, actual, target>>

\* record_actual: the UPDATE matches nothing; its commit changes nothing.
Miss(p) ==
    /\ at[p] = "update"
    /\ Unlocked(target[p])
    /\ ~Matches(target[p])
    /\ Goto(p, "check")
    /\ UNCHANGED <<row, actual, lock, target>>

\* Mutation of Committed: the column is set to another value of the row.
CommittedOther(p) ==
    /\ actual' = [actual EXCEPT ![target[p]] = target[p]]
    /\ lock' = [lock EXCEPT ![target[p]] = Nobody]

\* The commit makes the price visible and releases the row.
Committed(p) ==
    /\ actual' = [actual EXCEPT ![target[p]] = p]
    /\ lock' = [lock EXCEPT ![target[p]] = Nobody]

\* The price is committed and the report answered with the row it scores.
Commit(p) ==
    /\ at[p] = "commit"
    /\ Committed(p)
    /\ Goto(p, "200")
    /\ UNCHANGED <<row, target>>

\* Mutation of CommitUnknown: the session is not closed and keeps its lock.
CommitUnknownKeepsLock(p) ==
    /\ at[p] = "commit"
    /\ Goto(p, "500")
    /\ UNCHANGED <<row, actual, lock, target>>

\* The connection breaks around the commit: the price may be in, and the caller
\* is told that something failed.
CommitUnknown(p) ==
    /\ at[p] = "commit"
    /\ \/ Committed(p)
       \/ /\ lock' = [lock EXCEPT ![target[p]] = Nobody]
          /\ UNCHANGED actual
    /\ Goto(p, "500")
    /\ UNCHANGED <<row, target>>

\* No connection from the pool, or an error in either SELECT or UPDATE.
Fail(p) ==
    /\ at[p] \in {"update", "check"}
    /\ Goto(p, "500")
    /\ UNCHANGED <<row, actual, lock, target>>

\* exists: the row is there, so the UPDATE must have missed for its price.
CheckFound(p) ==
    /\ at[p] = "check"
    /\ row[target[p]] = "stored"
    /\ Goto(p, StatusOf.ActualAlreadyRecordedError)
    /\ UNCHANGED <<row, actual, lock, target>>

CheckMissing(p) ==
    /\ at[p] = "check"
    /\ row[target[p]] # "stored"
    /\ Goto(p, StatusOf.PredictionNotFoundError)
    /\ UNCHANGED <<row, actual, lock, target>>

\* A caller told to retry, or told of a failure, may report again.
Retry(p) ==
    /\ at[p] \in {"404", "500"}
    /\ Goto(p, "idle")
    /\ UNCHANGED <<row, actual, lock, target>>

Step(p) ==
    \/ Update(p) \/ Miss(p) \/ Commit(p) \/ CommitUnknown(p)
    \/ CheckFound(p) \/ CheckMissing(p)

Next ==
    \/ \E r \in Rows : Predict(r) \/ Store(r) \/ Lose(r)
    \/ \E p \in Reports : Send(p) \/ Step(p) \/ Fail(p) \/ Retry(p)

Spec == Init /\ [][Next]_vars

\* Statements and commits end.  Strong fairness, because PostgreSQL grants a row
\* lock in the order in which it was asked for, so no report is passed over for
\* ever.  Failures are possible and not promised: no statement timeout is set.
FairSpec == Spec /\ \A p \in Reports : SF_vars(Step(p))

-----------------------------------------------------------------------------
(* Properties                                                              *)

\* The variables keep their types: a row's price is one that a report carried.
TypeOK ==
    /\ row \in [Rows -> {"unknown", "pending", "stored", "lost"}]
    /\ actual \in [Rows -> Reports \cup {Nobody}]
    /\ lock \in [Rows -> Reports \cup {Nobody}]
    /\ at \in [Reports -> Points]
    /\ target \in [Reports -> Rows]

\* A recorded price is never overwritten, whatever reports race for the row.
NeverOverwritten == [][\A r \in Rows : actual[r] # Nobody => actual'[r] = actual[r]]_vars

\* A report that was answered with 200 is the one the table keeps: its price is
\* there, and no other report of the same prediction was accepted.
AcceptedIsKept ==
    \A p \in Reports : at[p] = "200" => row[target[p]] = "stored" /\ actual[target[p]] = p

\* The detail of the 409: "A sale price is already recorded".
ConflictMeansRecorded ==
    \A p \in Reports : at[p] = "409" => actual[target[p]] # Nobody

\* Every report is answered: no row lock is waited for forever.
EveryReportAnswered == \A p \in Reports : at[p] = "update" ~> Answered(p)
=============================================================================
