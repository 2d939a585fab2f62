------------------------- MODULE OutcomeReportsProofs -------------------------
(***************************************************************************)
(* Theorems about OutcomeReports, for any predictions and any reports.     *)
(***************************************************************************)
EXTENDS OutcomeReports, TLAPS

\* Between its UPDATE and its commit a report holds the lock of a row that is
\* in the table and still has no price.
HeldRowIsOpen ==
    \A p \in Reports : at[p] = "commit" =>
        /\ lock[target[p]] = p
        /\ row[target[p]] = "stored"
        /\ actual[target[p]] = Nobody

IInv == TypeOK /\ HeldRowIsOpen /\ AcceptedIsKept

LEMMA InitInv == Init => IInv
BY DEF Init, IInv, TypeOK, HeldRowIsOpen, AcceptedIsKept, Points, Codes

\* A report that moves from one point to another that is neither "commit" nor
\* "200", the tables and locks left alone, preserves the invariant.
LEMMA MoveInv ==
    ASSUME IInv, NEW p \in Reports, NEW point \in Points \ {"commit", "200"},
           Goto(p, point), UNCHANGED <<row, actual, lock, target>>
    PROVE  IInv'
<1>1. \A q \in Reports : at'[q] = IF q = p THEN point ELSE at[q]
  BY DEF IInv, TypeOK, Goto
<1>2. TypeOK'
  BY DEF IInv, TypeOK, Goto
<1>3. HeldRowIsOpen' /\ AcceptedIsKept'
  BY <1>1 DEF IInv, HeldRowIsOpen, AcceptedIsKept
<1>. QED
  BY <1>2, <1>3 DEF IInv

\* A row that changes its state is a pending one at most, so no report in its
\* commit and no accepted report is about it.
LEMMA RowInv ==
    ASSUME IInv, NEW r \in Rows, Predict(r) \/ Store(r) \/ Lose(r)
    PROVE  IInv'
<1>1. UNCHANGED <<actual, lock, at, target>>
  BY DEF Predict, Store, Lose
<1>2. TypeOK'
  BY <1>1 DEF IInv, TypeOK, Predict, Store, Lose
<1>3. \A x \in Rows : row[x] = "stored" => row'[x] = "stored"
  BY DEF IInv, TypeOK, Predict, Store, Lose
<1>4. HeldRowIsOpen' /\ AcceptedIsKept'
  BY <1>1, <1>3 DEF IInv, TypeOK, HeldRowIsOpen, AcceptedIsKept
<1>. QED
  BY <1>2, <1>4 DEF IInv

LEMMA UpdateInv ==
    ASSUME IInv, NEW p \in Reports, Update(p) PROVE IInv'
<1>1. /\ \A q \in Reports : at'[q] = IF q = p THEN "commit" ELSE at[q]
      /\ \A r \in Rows : lock'[r] = IF r = target[p] THEN p ELSE lock[r]
  BY DEF IInv, TypeOK, Update, Goto
<1>2. TypeOK'
  BY DEF IInv, TypeOK, Update, Goto, Points
<1>3. \A q \in Reports : at[q] = "commit" => target[q] # target[p]
  BY ReportsAssumption DEF IInv, HeldRowIsOpen, Update, Unlocked
<1>4. HeldRowIsOpen'
  BY <1>1, <1>3 DEF IInv, TypeOK, HeldRowIsOpen, Update, Matches
<1>5. AcceptedIsKept'
  BY <1>1 DEF IInv, AcceptedIsKept, Update
<1>. QED
  BY <1>2, <1>4, <1>5 DEF IInv

\* A commit ends with an answer; when it took effect the row had no price.
LEMMA CommitInv ==
    ASSUME IInv, NEW p \in Reports, Commit(p) \/ CommitUnknown(p) PROVE IInv'
<1>1. at[p] = "commit" /\ UNCHANGED <<row, target>>
  BY DEF Commit, CommitUnknown
<1>2. PICK code \in {"200", "500"} :
        /\ \A q \in Reports : at'[q] = IF q = p THEN code ELSE at[q]
        /\ code = "200" => actual'[target[p]] = p
  BY DEF IInv, TypeOK, Commit, CommitUnknown, Committed, Goto
<1>3. \A r \in Rows \ {target[p]} : actual'[r] = actual[r] /\ lock'[r] = lock[r]
  BY DEF IInv, TypeOK, Commit, CommitUnknown, Committed
<1>4. TypeOK'
  BY DEF IInv, TypeOK, Commit, CommitUnknown, Committed, Goto, Points, Codes
<1>5. \A q \in Reports \ {p} : at[q] = "commit" => target[q] # target[p]
  BY <1>1 DEF IInv, HeldRowIsOpen
<1>6. \A q \in Reports : at[q] = "200" => target[q] # target[p]
  BY <1>1, ReportsAssumption DEF IInv, HeldRowIsOpen, AcceptedIsKept
<1>7. HeldRowIsOpen'
  BY <1>1, <1>2, <1>3, <1>5 DEF IInv, TypeOK, HeldRowIsOpen
<1>8. AcceptedIsKept'
  BY <1>1, <1>2, <1>3, <1>6 DEF IInv, TypeOK, HeldRowIsOpen, AcceptedIsKept
<1>. QED
  BY <1>4, <1>7, <1>8 DEF IInv

\* Every step of a report and of the prediction log preserves the invariant: the
\* report that holds a row's lock found it stored and without a price.
THEOREM Inductive == IInv /\ [Next]_vars => IInv'
<1>. SUFFICES ASSUME IInv, [Next]_vars PROVE IInv'
  OBVIOUS
<1>1. ASSUME NEW r \in Rows, Predict(r) \/ Store(r) \/ Lose(r) PROVE IInv'
  BY <1>1, RowInv
<1>2. ASSUME NEW p \in Reports, Update(p) PROVE IInv'
  BY <1>2, UpdateInv
<1>3. ASSUME NEW p \in Reports, Commit(p) \/ CommitUnknown(p) PROVE IInv'
  BY <1>3, CommitInv
<1>4. ASSUME NEW p \in Reports,
             Send(p) \/ Miss(p) \/ Fail(p) \/ CheckFound(p) \/ CheckMissing(p) \/ Retry(p)
      PROVE  IInv'
  <2>1. \E point \in Points \ {"commit", "200"} : Goto(p, point)
    BY <1>4 DEF Send, Miss, Fail, CheckFound, CheckMissing, StatusOf, Retry, Points, Codes
  <2>2. UNCHANGED <<row, actual, lock, target>>
    BY <1>4 DEF Send, Miss, Fail, CheckFound, CheckMissing, Retry
  <2>. QED
    BY <2>1, <2>2, MoveInv
<1>5. CASE UNCHANGED vars
  BY <1>5 DEF vars, IInv, TypeOK, HeldRowIsOpen, AcceptedIsKept
<1>. QED
  BY <1>1, <1>2, <1>3, <1>4, <1>5 DEF Next, Step

LEMMA Invariant == Spec => []IInv
BY InitInv, Inductive, PTL DEF Spec

\* The variables keep their types: a row's price is always one a report carried.
THEOREM TypeCorrect == Spec => []TypeOK
<1>1. IInv => TypeOK
  BY DEF IInv
<1>. QED
  BY <1>1, Invariant, PTL

\* However many reports race for a prediction, an accepted one is the one whose
\* price the table keeps: no two are accepted for the same prediction.
THEOREM AcceptedIsKeptHolds == Spec => []AcceptedIsKept
<1>1. IInv => AcceptedIsKept
  BY DEF IInv
<1>. QED
  BY <1>1, Invariant, PTL

\* A recorded price is never overwritten.
THEOREM NeverOverwrittenHolds == Spec => NeverOverwritten
<1>1. IInv /\ [Next]_vars =>
        [\A r \in Rows : actual[r] # Nobody => actual'[r] = actual[r]]_vars
  <2>. SUFFICES ASSUME IInv, [Next]_vars, NEW r \in Rows, actual[r] # Nobody
                PROVE  actual'[r] = actual[r]
    OBVIOUS
  <2>1. CASE UNCHANGED actual
    BY <2>1
  <2>2. ASSUME NEW p \in Reports, Commit(p) \/ CommitUnknown(p)
        PROVE  actual'[r] = actual[r]
    <3>1. target[p] # r
      BY <2>2 DEF IInv, HeldRowIsOpen, Commit, CommitUnknown
    <3>. QED
      BY <2>2, <3>1 DEF IInv, TypeOK, Commit, CommitUnknown, Committed
  <2>. QED
    BY <2>1, <2>2 DEF Next, Step, vars, Predict, Store, Lose, Send, Update, Miss, Fail,
       CheckFound, CheckMissing, Retry
<1>. QED
  BY <1>1, Invariant, PTL DEF Spec, NeverOverwritten
=============================================================================
