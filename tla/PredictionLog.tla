---------------------------- MODULE PredictionLog ----------------------------
(***************************************************************************)
(* What the prediction log promises, without its queue, its tasks and its  *)
(* statements (docstring of src/app/services/prediction_writer.py).        *)
(*                                                                         *)
(* A row handed to the log is pending until the log accounts for it.  The  *)
(* database may gain a pending row at any moment.  The log then counts     *)
(* some pending rows as written, and those must be in the database by      *)
(* then, and the others as dropped.  A row leaves the log without being    *)
(* counted in two ways only: the writer is told to stop, or the process    *)
(* dies.                                                                   *)
(***************************************************************************)
EXTENDS Integers, FiniteSets

CONSTANT Rows

VARIABLES
    pending,    \* rows offered and not accounted for yet
    stored,     \* rows the database holds
    offered,    \* number of rows offered since the process started
    written,    \* number of rows counted as persisted
    dropped,    \* number of rows counted as lost
    abandoned   \* number of rows given up without being counted

logVars == <<pending, stored, offered, written, dropped, abandoned>>

LogInit ==
    /\ pending = {}
    /\ stored = {}
    /\ offered = 0
    /\ written = 0
    /\ dropped = 0
    /\ abandoned = 0

Offer(r) ==
    /\ r \notin pending \cup stored
    /\ pending' = pending \cup {r}
    /\ offered' = offered + 1
    /\ UNCHANGED <<stored, written, dropped, abandoned>>

\* An offer refused on the spot is counted on the spot.
Shed ==
    /\ offered' = offered + 1
    /\ dropped' = dropped + 1
    /\ UNCHANGED <<pending, stored, written, abandoned>>

\* A row is inserted once: it is pending and the database does not have it.
Persist(S) ==
    /\ S \subseteq pending \ stored
    /\ stored' = stored \cup S
    /\ UNCHANGED <<pending, offered, written, dropped, abandoned>>

\* Only rows the database has are counted as written; the rest of what is
\* accounted for is counted as dropped.
Account(S, W) ==
    /\ S \subseteq pending
    /\ W \subseteq S \cap stored
    /\ pending' = pending \ S
    /\ written' = written + Cardinality(W)
    /\ dropped' = dropped + Cardinality(S \ W)
    /\ UNCHANGED <<stored, offered, abandoned>>

Abandon(S) ==
    /\ S \subseteq pending
    /\ pending' = pending \ S
    /\ abandoned' = abandoned + Cardinality(S)
    /\ UNCHANGED <<stored, offered, written, dropped>>

\* The process dies and its successor starts counting from zero.
Die ==
    /\ pending' = {}
    /\ offered' = 0
    /\ written' = 0
    /\ dropped' = 0
    /\ abandoned' = 0
    /\ UNCHANGED stored

LogNext ==
    \/ \E r \in Rows : Offer(r)
    \/ Shed
    \/ \E S \in SUBSET pending : Persist(S)
    \/ \E S \in SUBSET pending : \E W \in SUBSET (S \cap stored) : Account(S, W)
    \/ \E S \in SUBSET pending : Abandon(S)
    \/ Die

LogSpec == LogInit /\ [][LogNext]_logVars
=============================================================================
