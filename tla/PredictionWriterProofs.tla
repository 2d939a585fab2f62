------------------------ MODULE PredictionWriterProofs ------------------------
(***************************************************************************)
(* Theorems about PredictionWriter, for every value of its constants.      *)
(***************************************************************************)
EXTENDS PredictionWriter, SequenceTheorems, TLAPS

-----------------------------------------------------------------------------
(* The inductive invariant                                                 *)

\* The local state of a flush fits the point it has reached: the tallies of a
\* retry never exceed its batch, and only a statement in flight can have landed.
Size(s) == Len(s.batch)
FlushStateOK(s) ==
    /\ s.mode = "idle" => s = Idle
    /\ s.mode = "batch" => s.written = 0 /\ s.rejected = 0
    /\ s.written + s.rejected <= Size(s)
    /\ s.mode = "rows" /\ s.landed => s.written + s.rejected < Size(s)

FlushOK == \A f \in Flows : FlushStateOK(flush[f])

\* How far stop has come, seen from the task, the queue and the two flows.
StopOK ==
    /\ task = "none" => /\ queue = <<>> /\ ~Active("consumer")
                        /\ stopping \in {"no", "draining"}
    /\ task = "running" => stopping \in {"no", "awaiting"}
    /\ task = "cancelled" => stopping = "awaiting" /\ ~Active("consumer")
    /\ Active("stop") <=> stopping = "draining"

IInv == TypeOK /\ FlushOK /\ StopOK /\ Conservation

-----------------------------------------------------------------------------
(* Lemmas about the queue and the flush states                             *)

\* Cutting a queue in two keeps its rows and its length.
LEMMA CutProperties ==
    ASSUME NEW q \in Seq(Rows), NEW n \in 0..Len(q)
    PROVE  /\ SubSeq(q, 1, n) \in Seq(Rows)
           /\ Len(SubSeq(q, 1, n)) = n
           /\ SubSeq(q, n + 1, Len(q)) \in Seq(Rows)
           /\ Len(SubSeq(q, n + 1, Len(q))) = Len(q) - n
OBVIOUS

LEMMA IdleType == Idle \in FlushStates /\ Len(Idle.batch) = 0 /\ Idle.mode = "idle"
BY EmptySeq DEF Idle, FlushStates

LEMMA FlushingType ==
    ASSUME NEW batch \in Seq(Rows)
    PROVE  /\ Flushing(batch) \in FlushStates
           /\ Flushing(batch).batch = batch
           /\ Flushing(batch).mode = "batch"
           /\ Flushing(batch).written = 0
           /\ Flushing(batch).rejected = 0
           /\ Flushing(batch).landed = FALSE
BY DEF Flushing, Idle, FlushStates

LEMMA HeldType == ASSUME TypeOK, NEW f \in Flows PROVE Held(f) \in Nat
BY LenProperties DEF TypeOK, FlushStates, Held

LEMMA InFlightType == ASSUME TypeOK PROVE InFlight \in Nat
BY HeldType DEF InFlight, Flows

LEMMA TotalType == ASSUME TypeOK PROVE Total(dropped) \in Nat
<1>1. dropped \in [Reasons -> Nat]
  BY DEF TypeOK
<1>. QED
  BY <1>1 DEF Total, Reasons

LEMMA CountersType ==
    ASSUME TypeOK
    PROVE  /\ written \in Nat /\ arrivals \in Nat /\ abandoned \in Nat
           /\ Len(queue) \in Nat
BY LenProperties DEF TypeOK

\* What one flow takes up or puts down is what the sum over the flows changes by.
LEMMA InFlightUpdate ==
    ASSUME TypeOK, NEW f \in Flows, NEW s \in FlushStates,
           flush' = [flush EXCEPT ![f] = s]
    PROVE  InFlight' = InFlight - Held(f) + Len(s.batch)
<1>1. Held("consumer") \in Nat /\ Held("stop") \in Nat /\ Held("flush_now") \in Nat
  BY HeldType DEF Flows
<1>2. Len(s.batch) \in Nat
  BY LenProperties DEF FlushStates
<1>3. Held(f)' = Len(s.batch)
  BY DEF TypeOK, Held
<1>4. \A g \in Flows \ {f} : Held(g)' = Held(g)
  BY DEF TypeOK, Held
<1>. DEFINE l == Len(s.batch)
<1>. HIDE DEF l
<1>5. CASE f = "consumer"
  BY <1>1, <1>2, <1>3, <1>4, <1>5 DEF InFlight, Flows, l
<1>6. CASE f = "stop"
  BY <1>1, <1>2, <1>3, <1>4, <1>6 DEF InFlight, Flows, l
<1>7. CASE f = "flush_now"
  BY <1>1, <1>2, <1>3, <1>4, <1>7 DEF InFlight, Flows, l
<1>. QED
  BY <1>5, <1>6, <1>7 DEF Flows

LEMMA StatementType ==
    ASSUME TypeOK, FlushOK, NEW f \in Flows
    PROVE  Statement(f) \in Seq(Rows)
<1>1. /\ flush[f].batch \in Seq(Rows) /\ flush[f].mode \in {"idle", "batch", "rows"}
      /\ Settled(f) \in Nat
  BY DEF TypeOK, FlushStates, Settled
<1>2. CASE flush[f].mode = "rows" /\ Remaining(f)
  <2>1. Settled(f) + 1 \in 1..Len(flush[f].batch)
    BY <1>1, <1>2, LenProperties DEF Remaining, Held
  <2>2. flush[f].batch[Settled(f) + 1] \in Rows
    BY <1>1, <2>1, ElementOfSeq
  <2>. QED
    BY <1>2, <2>2 DEF Statement
<1>3. CASE ~(flush[f].mode = "rows" /\ Remaining(f))
  BY <1>1, <1>3, EmptySeq DEF Statement
<1>. QED
  BY <1>2, <1>3

LEMMA SizeType == ASSUME NEW s \in FlushStates PROVE Size(s) \in Nat
BY LenProperties DEF Size, FlushStates

LEMMA FlushUpdate ==
    ASSUME TypeOK, FlushOK, NEW f \in Flows, NEW s \in FlushStates, FlushStateOK(s),
           flush' = [flush EXCEPT ![f] = s]
    PROVE  flush' \in [Flows -> FlushStates] /\ FlushOK'
BY DEF TypeOK, FlushOK

LEMMA IdleOK == FlushStateOK(Idle)
BY IdleType, SizeType DEF FlushStateOK, Idle

LEMMA FlushingOK == ASSUME NEW batch \in Seq(Rows) PROVE FlushStateOK(Flushing(batch))
<1>1. PICK n \in Nat : n = Size(Flushing(batch))
  BY FlushingType, SizeType
<1>2. Flushing(batch).written + Flushing(batch).rejected = 0
  <2>1. 0 + 0 = 0
    OBVIOUS
  <2>. QED
    BY <2>1, FlushingType, Zenon
<1>3. Flushing(batch).mode = "batch" /\ Flushing(batch).written = 0
      /\ Flushing(batch).rejected = 0
  BY FlushingType
<1>4. Flushing(batch).written + Flushing(batch).rejected <= Size(Flushing(batch))
  <2>1. 0 <= n
    OBVIOUS
  <2>. QED
    BY ONLY <2>1, <1>1, <1>2, Zenon
<1>. QED
  BY ONLY <1>3, <1>4, "batch" # "idle", "batch" # "rows", Zenon DEF FlushStateOK

-----------------------------------------------------------------------------
(* Steps that end or continue a flush                                      *)

LEMMA LossesType ==
    ASSUME NEW rejected \in Nat, NEW failed \in Nat
    PROVE  /\ Losses(rejected, failed)["queue_full"] = 0
           /\ Losses(rejected, failed)["rejected"] = rejected
           /\ Losses(rejected, failed)["write_failed"] = failed
BY DEF Losses, Reasons

\* A flush that ends accounts for its whole batch, no more and no less.
LEMMA FinishInv ==
    ASSUME IInv, NEW f \in Flows, Resumable(f),
           NEW wrote \in Nat, NEW rejected \in Nat, NEW failed \in Nat,
           wrote + rejected + failed = Held(f),
           Finish(f, wrote, Losses(rejected, failed))
    PROVE  IInv'
<1>. USE DEF IInv
<1>1. flush' = [flush EXCEPT ![f] = Idle]
  BY DEF Finish
<1>2. flush' \in [Flows -> FlushStates] /\ FlushOK'
  BY <1>1, IdleType, IdleOK, FlushUpdate
<1>3. /\ dropped' \in [Reasons -> Nat]
      /\ dropped'["queue_full"] = dropped["queue_full"]
      /\ dropped'["rejected"] = dropped["rejected"] + rejected
      /\ dropped'["write_failed"] = dropped["write_failed"] + failed
  <2>1. dropped' = [reason \in Reasons |-> dropped[reason] + Losses(rejected, failed)[reason]]
    BY DEF Finish
  <2>2. dropped \in [Reasons -> Nat]
    BY DEF TypeOK
  <2>. QED
    BY <2>1, <2>2, LossesType DEF Reasons
<1>4. TypeOK'
  BY <1>2, <1>3, LenProperties DEF TypeOK, Finish
<1>5. StopOK'
  BY <1>1, IdleType DEF StopOK, Active, Finish, TypeOK, Resumable, Flows
<1>6. Conservation'
  <2>1. PICK h \in Nat : h = Held(f)
    BY HeldType
  <2>2. InFlight' = InFlight - h + 0
    BY <1>1, <2>1, IdleType, InFlightUpdate
  <2>3. wrote + rejected + failed = h
    BY <2>1
  <2>4. Total(dropped)' = Total(dropped) + rejected + failed
    <3>1. dropped \in [Reasons -> Nat]
      BY DEF TypeOK
    <3>. QED
      BY <3>1, <1>3 DEF Total, Reasons
  <2>5. written' = written + wrote /\ queue' = queue /\ arrivals' = arrivals
        /\ abandoned' = abandoned
    BY DEF Finish
  <2>6. /\ Len(queue) \in Nat /\ InFlight \in Nat /\ Total(dropped) \in Nat
        /\ written \in Nat /\ arrivals \in Nat /\ abandoned \in Nat
    BY InFlightType, TotalType, CountersType
  <2>7. Conservation
    OBVIOUS
  <2>. QED
    BY ONLY <2>2, <2>3, <2>4, <2>5, <2>6, <2>7 DEF Conservation
<1>. QED
  BY <1>2, <1>4, <1>5, <1>6

\* A flush that goes on keeps its batch.
LEMMA ContinueInv ==
    ASSUME IInv, NEW f \in Flows, Resumable(f),
           NEW s \in FlushStates, FlushStateOK(s), s.batch = flush[f].batch, s.mode # "idle",
           Continue(f, s)
    PROVE  IInv'
<1>. USE DEF IInv
<1>1. flush' = [flush EXCEPT ![f] = s]
  BY DEF Continue
<1>2. flush' \in [Flows -> FlushStates] /\ FlushOK'
  BY <1>1, FlushUpdate
<1>3. TypeOK'
  BY <1>2 DEF TypeOK, Continue
<1>4. \A g \in Flows : Active(g)' = Active(g)
  BY <1>1 DEF TypeOK, Active, Resumable
<1>5. StopOK'
  BY <1>4 DEF StopOK, Continue, Flows
<1>6. InFlight' = InFlight
  <2>1. \A g \in Flows : Held(g)' = Held(g)
    BY <1>1 DEF TypeOK, Held
  <2>. QED
    BY <2>1 DEF InFlight, Flows
<1>7. Conservation'
  BY <1>6 DEF Conservation, Continue
<1>. QED
  BY <1>2, <1>3, <1>5, <1>7

-----------------------------------------------------------------------------
(* Each action preserves the invariant                                     *)

LEMMA BatchWrittenInv ==
    ASSUME IInv, NEW f \in Flows, BatchWritten(f) PROVE IInv'
<1>1. Held(f) \in Nat /\ Held(f) + 0 + 0 = Held(f)
  BY HeldType DEF IInv
<1>. QED
  BY <1>1, FinishInv DEF BatchWritten

LEMMA BatchFailedInv ==
    ASSUME IInv, NEW f \in Flows, BatchFailed(f) PROVE IInv'
<1>1. Held(f) \in Nat /\ 0 + 0 + Held(f) = Held(f)
  BY HeldType DEF IInv
<1>. QED
  BY <1>1, FinishInv DEF BatchFailed

\* The tallies of a flush as numbers, and what they leave of its batch.
LEMMA TalliesType ==
    ASSUME IInv, NEW f \in Flows
    PROVE  /\ flush[f].written \in Nat /\ flush[f].rejected \in Nat
           /\ Held(f) \in Nat /\ Settled(f) \in Nat
           /\ Settled(f) <= Held(f)
           /\ Held(f) - Settled(f) \in Nat
           /\ flush[f].written + flush[f].rejected + (Held(f) - Settled(f)) = Held(f)
<1>1. PICK w \in Nat, r \in Nat, h \in Nat :
        w = flush[f].written /\ r = flush[f].rejected /\ h = Held(f)
  BY HeldType DEF IInv, TypeOK, FlushStates
<1>2. Settled(f) = w + r
  BY <1>1, Zenon DEF Settled
<1>3. Settled(f) <= Held(f)
  BY Zenon DEF IInv, FlushOK, FlushStateOK, Settled, Held, Size
<1>4. w + r <= h
  BY <1>1, <1>2, <1>3, Zenon
<1>5. h - (w + r) \in Nat /\ w + r + (h - (w + r)) = h /\ w + r \in Nat
  BY ONLY <1>4, w \in Nat, r \in Nat, h \in Nat
<1>. QED
  BY <1>1, <1>2, <1>3, <1>5, Zenon

LEMMA RowsFailedInv ==
    ASSUME IInv, NEW f \in Flows, RowsFailed(f) PROVE IInv'
BY TalliesType, FinishInv, Zenon DEF RowsFailed

LEMMA RowsDoneInv ==
    ASSUME IInv, NEW f \in Flows, RowsDone(f) PROVE IInv'
<1>1. Settled(f) = Held(f)
  <2>1. ~(Settled(f) < Held(f))
    BY Zenon DEF RowsDone, Remaining
  <2>2. PICK a \in Nat, b \in Nat : a = Settled(f) /\ b = Held(f)
    BY TalliesType
  <2>3. ~(a < b) /\ a <= b
    BY <2>1, <2>2, TalliesType, Zenon
  <2>4. a = b
    BY ONLY <2>3, a \in Nat, b \in Nat
  <2>. QED
    BY <2>2, <2>4
<1>2. flush[f].written + flush[f].rejected + 0 = Held(f)
  <2>1. Settled(f) + 0 = Held(f)
    <3>1. \A n \in Nat : n + 0 = n
      OBVIOUS
    <3>. QED
      BY <1>1, <3>1, TalliesType, Zenon
  <2>. QED
    BY <2>1, Zenon DEF Settled
<1>. QED
  BY <1>2, TalliesType, FinishInv, Zenon DEF RowsDone

LEMMA BatchRefusedInv ==
    ASSUME IInv, NEW f \in Flows, BatchRefused(f) PROVE IInv'
<1>. DEFINE s == [flush[f] EXCEPT !.mode = "rows"]
<1>1. flush[f] \in FlushStates /\ flush[f].landed = FALSE
  BY DEF IInv, TypeOK, BatchRefused, FlushStates
<1>2. /\ s \in FlushStates /\ s.batch = flush[f].batch /\ s.mode = "rows"
      /\ s.written = flush[f].written /\ s.rejected = flush[f].rejected
      /\ s.landed = FALSE
  BY <1>1 DEF FlushStates
<1>3. Continue(f, s) /\ Resumable(f)
  BY DEF BatchRefused
<1>. HIDE DEF s
<1>4. Size(s) = Held(f)
  BY <1>2 DEF Size, Held
<1>5. s.written + s.rejected <= Size(s)
  BY <1>2, <1>4, TalliesType, Zenon DEF Settled
<1>6. FlushStateOK(s)
  BY <1>2, <1>5, "rows" # "idle", "rows" # "batch", Zenon DEF FlushStateOK
<1>. QED
  BY <1>2, <1>3, <1>6, ContinueInv

LEMMA RowWrittenInv ==
    ASSUME IInv, NEW f \in Flows, RowWritten(f) PROVE IInv'
<1>. DEFINE s == [flush[f] EXCEPT !.written = @ + 1, !.landed = FALSE]
<1>1. PICK w \in Nat, r \in Nat, h \in Nat :
        w = flush[f].written /\ r = flush[f].rejected /\ h = Held(f)
  BY TalliesType
<1>2. flush[f] \in FlushStates /\ flush[f].landed = TRUE /\ flush[f].mode = "rows"
  BY DEF IInv, TypeOK, RowWritten, FlushStates
<1>3. /\ s \in FlushStates /\ s.batch = flush[f].batch /\ s.mode = "rows"
      /\ s.written = w + 1 /\ s.rejected = r /\ s.landed = FALSE
  <2>1. s \in FlushStates
    <3>. DEFINE t == [flush[f] EXCEPT !.written = @ + 1]
    <3>1. t \in FlushStates
      BY <1>1, <1>2 DEF FlushStates
    <3>2. s = [t EXCEPT !.landed = FALSE]
      OBVIOUS
    <3>. HIDE DEF s, t
    <3>. QED
      BY <3>1, <3>2 DEF FlushStates
  <2>2. /\ s.batch = flush[f].batch /\ s.mode = flush[f].mode
        /\ s.written = flush[f].written + 1 /\ s.rejected = flush[f].rejected
    BY <1>2 DEF FlushStates
  <2>3. s.landed = FALSE
    BY <1>2 DEF FlushStates
  <2>. QED
    BY <1>1, <1>2, <2>1, <2>2, <2>3, Zenon
<1>4. Continue(f, s) /\ Resumable(f)
  BY DEF RowWritten
<1>. HIDE DEF s
<1>5. Size(s) = h
  BY <1>1, <1>3 DEF Size, Held
<1>6. w + r < h
  BY <1>1, <1>2, Zenon DEF IInv, FlushOK, FlushStateOK, Held, Size
<1>7. (w + 1) + r <= h
  BY ONLY <1>6, w \in Nat, r \in Nat, h \in Nat
<1>8. FlushStateOK(s)
  BY <1>3, <1>5, <1>7, "rows" # "idle", "rows" # "batch", Zenon DEF FlushStateOK
<1>. QED
  BY <1>3, <1>4, <1>8, ContinueInv

LEMMA RowRefusedInv ==
    ASSUME IInv, NEW f \in Flows, RowRefused(f) PROVE IInv'
<1>. DEFINE s == [flush[f] EXCEPT !.rejected = @ + 1]
<1>1. PICK w \in Nat, r \in Nat, h \in Nat :
        w = flush[f].written /\ r = flush[f].rejected /\ h = Held(f)
  BY TalliesType
<1>2. flush[f] \in FlushStates /\ flush[f].landed = FALSE /\ flush[f].mode = "rows"
  BY DEF IInv, TypeOK, RowRefused, FlushStates
<1>3. /\ s \in FlushStates /\ s.batch = flush[f].batch /\ s.mode = "rows"
      /\ s.written = w /\ s.rejected = r + 1 /\ s.landed = FALSE
  <2>1. s \in FlushStates
    BY <1>1, <1>2 DEF FlushStates
  <2>2. /\ s.batch = flush[f].batch /\ s.mode = flush[f].mode
        /\ s.written = flush[f].written /\ s.rejected = flush[f].rejected + 1
        /\ s.landed = flush[f].landed
    BY <1>2 DEF FlushStates
  <2>. QED
    BY <1>1, <1>2, <2>1, <2>2, Zenon
<1>4. Continue(f, s) /\ Resumable(f)
  BY DEF RowRefused
<1>. HIDE DEF s
<1>5. Size(s) = h
  BY <1>1, <1>3 DEF Size, Held
<1>6. w + r < h
  <2>1. Remaining(f)
    <3>1. SUFFICES ASSUME ~Remaining(f) PROVE FALSE
      OBVIOUS
    <3>2. Statement(f) = <<>>
      BY <1>2, <3>1 DEF Statement
    <3>3. Range(Statement(f)) = {}
      BY <3>2 DEF Range
    <3>. QED
      BY <3>3 DEF RowRefused, StatementRefused
  <2>. QED
    BY <2>1, <1>1, Zenon DEF Remaining, Settled
<1>7. w + (r + 1) <= h
  BY ONLY <1>6, w \in Nat, r \in Nat, h \in Nat
<1>8. FlushStateOK(s)
  BY <1>3, <1>5, <1>7, "rows" # "idle", "rows" # "batch", Zenon DEF FlushStateOK
<1>. QED
  BY <1>3, <1>4, <1>8, ContinueInv

\* A flow that takes a batch up holds it until it ends.
LEMMA TakeUp ==
    ASSUME IInv, NEW f \in Flows, NEW batch \in Seq(Rows), ~Active(f),
           flush' = [flush EXCEPT ![f] = Flushing(batch)]
    PROVE  /\ flush' \in [Flows -> FlushStates]
           /\ FlushOK'
           /\ InFlight' = InFlight + Len(batch)
           /\ Active(f)'
           /\ \A g \in Flows \ {f} : Active(g)' = Active(g)
<1>1. flush' \in [Flows -> FlushStates] /\ FlushOK'
  BY FlushingType, FlushingOK, FlushUpdate DEF IInv
<1>2. flush[f] = Idle
  BY DEF IInv, FlushOK, FlushStateOK, Active
<1>3. Held(f) = 0
  BY <1>2, IdleType DEF Held
<1>4. InFlight' = InFlight - 0 + Len(batch)
  BY <1>3, FlushingType, InFlightUpdate DEF IInv
<1>5. InFlight' = InFlight + Len(batch)
  <2>1. PICK i \in Nat, l \in Nat : i = InFlight /\ l = Len(batch)
    BY InFlightType, LenProperties DEF IInv
  <2>2. i - 0 + l = i + l
    OBVIOUS
  <2>. QED
    BY <1>4, <2>1, <2>2, Zenon
<1>6. Active(f)' /\ \A g \in Flows \ {f} : Active(g)' = Active(g)
  BY FlushingType DEF IInv, TypeOK, Active
<1>. QED
  BY <1>1, <1>5, <1>6

LEMMA AcceptInv ==
    ASSUME IInv, NEW u \in Users, Accept(u) PROVE IInv'
<1>. USE DEF IInv
<1>1. issued + 1 \in Rows
  BY LenProperties, WriterAssumption DEF TypeOK, Accept, Offered, Rows, issued
<1>2. queue' \in Seq(Rows) /\ Len(queue') = Len(queue) + 1
  BY <1>1, AppendProperties DEF TypeOK, Accept
<1>3. owner' \in Seq(Users)
  BY AppendProperties DEF TypeOK, Accept, Offered
<1>4. TypeOK'
  BY <1>2, <1>3, LenProperties DEF TypeOK, Accept, Offered
<1>5. FlushOK'
  BY DEF FlushOK, Accept
<1>6. StopOK'
  BY DEF StopOK, Accept, Offered, Serving, Active
<1>7. Conservation'
  <2>1. arrivals' = arrivals + 1 /\ written' = written /\ abandoned' = abandoned
        /\ Total(dropped)' = Total(dropped) /\ InFlight' = InFlight
    BY DEF Accept, Offered, InFlight, Held
  <2>2. /\ Len(queue) \in Nat /\ InFlight \in Nat /\ Total(dropped) \in Nat
        /\ written \in Nat /\ arrivals \in Nat /\ abandoned \in Nat
    BY InFlightType, TotalType, CountersType
  <2>3. Conservation
    OBVIOUS
  <2>. QED
    BY ONLY <1>2, <2>1, <2>2, <2>3 DEF Conservation
<1>. QED
  BY <1>4, <1>5, <1>6, <1>7

LEMMA ShedInv ==
    ASSUME IInv, NEW u \in Users, Shed(u) PROVE IInv'
<1>. USE DEF IInv
<1>1. owner' \in Seq(Users)
  BY AppendProperties DEF TypeOK, Shed, Offered
<1>2. /\ dropped' \in [Reasons -> Nat]
      /\ dropped'["queue_full"] = dropped["queue_full"] + 1
      /\ dropped'["rejected"] = dropped["rejected"]
      /\ dropped'["write_failed"] = dropped["write_failed"]
  <2>1. dropped' = [dropped EXCEPT !["queue_full"] = @ + 1]
    BY DEF Shed
  <2>2. dropped \in [Reasons -> Nat]
    BY DEF TypeOK
  <2>. QED
    BY <2>1, <2>2 DEF Reasons
<1>3. TypeOK'
  BY <1>1, <1>2 DEF TypeOK, Shed, Offered
<1>4. FlushOK'
  BY DEF FlushOK, Shed
<1>5. StopOK'
  BY DEF StopOK, Shed, Active
<1>6. Conservation'
  <2>1. Total(dropped)' = Total(dropped) + 1
    <3>1. dropped \in [Reasons -> Nat]
      BY DEF TypeOK
    <3>. QED
      BY <1>2, <3>1 DEF Total, Reasons
  <2>2. arrivals' = arrivals + 1 /\ written' = written /\ abandoned' = abandoned
        /\ queue' = queue /\ InFlight' = InFlight
    BY DEF Shed, Offered, InFlight, Held
  <2>3. /\ Len(queue) \in Nat /\ InFlight \in Nat /\ Total(dropped) \in Nat
        /\ written \in Nat /\ arrivals \in Nat /\ abandoned \in Nat
    BY InFlightType, TotalType, CountersType
  <2>4. Conservation
    OBVIOUS
  <2>. QED
    BY ONLY <2>1, <2>2, <2>3, <2>4 DEF Conservation
<1>. QED
  BY <1>3, <1>4, <1>5, <1>6

LEMMA TakeBatchInv == ASSUME IInv, TakeBatch PROVE IInv'
<1>. USE DEF IInv
<1>. DEFINE n == Lesser(BatchSize, Len(queue))
            batch == SubSeq(queue, 1, n)
<1>1. n \in 0..Len(queue)
  BY LenProperties, WriterAssumption DEF TypeOK, Lesser
<1>2. flush' = [flush EXCEPT !["consumer"] = Flushing(batch)]
      /\ queue' = SubSeq(queue, n + 1, Len(queue))
  BY DEF TakeBatch
<1>. HIDE DEF n
<1>3. /\ batch \in Seq(Rows) /\ Len(batch) = n
      /\ queue' \in Seq(Rows) /\ Len(queue') = Len(queue) - n
  BY <1>1, <1>2, CutProperties DEF TypeOK
<1>. HIDE DEF batch
<1>4. "consumer" \in Flows /\ ~Active("consumer")
  BY DEF Flows, TakeBatch
<1>5. /\ flush' \in [Flows -> FlushStates] /\ FlushOK'
      /\ InFlight' = InFlight + n
      /\ \A g \in Flows \ {"consumer"} : Active(g)' = Active(g)
  BY <1>2, <1>3, <1>4, TakeUp
<1>6. TypeOK'
  BY <1>3, <1>5 DEF TypeOK, TakeBatch
<1>7. StopOK'
  BY <1>5 DEF StopOK, TakeBatch, Serving, Flows
<1>8. Conservation'
  <2>1. arrivals' = arrivals /\ written' = written /\ abandoned' = abandoned
        /\ Total(dropped)' = Total(dropped)
    BY DEF TakeBatch
  <2>2. /\ Len(queue) \in Nat /\ InFlight \in Nat /\ Total(dropped) \in Nat
        /\ written \in Nat /\ arrivals \in Nat /\ abandoned \in Nat /\ n \in Nat
    BY <1>1, InFlightType, TotalType, CountersType
  <2>3. Len(queue') = Len(queue) - n /\ InFlight' = InFlight + n /\ Conservation
    BY <1>3, <1>5
  <2>. QED
    BY ONLY <2>1, <2>2, <2>3 DEF Conservation
<1>. QED
  BY <1>5, <1>6, <1>7, <1>8

LEMMA CommitInv ==
    ASSUME IInv, NEW f \in Flows, Commit(f) PROVE IInv'
<1>. USE DEF IInv
<1>. DEFINE s == [flush[f] EXCEPT !.landed = TRUE]
<1>1. flush' = [flush EXCEPT ![f] = s]
  BY DEF Commit
<1>2. flush[f] \in FlushStates
  BY DEF TypeOK
<1>3. /\ s \in FlushStates /\ s.batch = flush[f].batch /\ s.mode = flush[f].mode
      /\ s.written = flush[f].written /\ s.rejected = flush[f].rejected
  BY <1>2 DEF FlushStates
<1>. HIDE DEF s
<1>4. Size(s) = Held(f) /\ Size(flush[f]) = Held(f)
  BY <1>3 DEF Size, Held
<1>5. flush[f].mode # "idle" /\ (flush[f].mode = "rows" => Remaining(f))
  BY DEF Commit, Statement
<1>6. FlushStateOK(s)
  BY <1>3, <1>4, <1>5, Zenon DEF FlushOK, FlushStateOK, Remaining, Settled
<1>7. flush' \in [Flows -> FlushStates] /\ FlushOK'
  BY <1>1, <1>3, <1>6, FlushUpdate
<1>8. db' \in Seq(Rows)
  BY StatementType, ConcatProperties DEF TypeOK, Commit
<1>9. TypeOK'
  BY <1>7, <1>8 DEF TypeOK, Commit
<1>10. \A g \in Flows : Active(g)' = Active(g) /\ Held(g)' = Held(g)
  BY <1>1, <1>3 DEF TypeOK, Active, Held
<1>11. StopOK'
  BY <1>10 DEF StopOK, Commit, Flows
<1>12. Conservation'
  BY <1>10 DEF Conservation, Commit, InFlight, Flows
<1>. QED
  BY <1>7, <1>9, <1>11, <1>12

LEMMA CancelledInv == ASSUME IInv, Cancelled PROVE IInv'
<1>. USE DEF IInv
<1>1. flush' = [flush EXCEPT !["consumer"] = Idle] /\ "consumer" \in Flows
  BY DEF Cancelled, Flows
<1>2. flush' \in [Flows -> FlushStates] /\ FlushOK'
  BY <1>1, IdleType, IdleOK, FlushUpdate
<1>3. Held("consumer") \in Nat
  BY HeldType DEF Flows
<1>4. TypeOK'
  BY <1>2, <1>3 DEF TypeOK, Cancelled
<1>5. StopOK'
  BY <1>1, IdleType DEF StopOK, Cancelled, TypeOK, Active, Flows
<1>6. Conservation'
  <2>1. PICK h \in Nat : h = Held("consumer")
    BY <1>3
  <2>2. InFlight' = InFlight - h + 0
    BY <1>1, <2>1, IdleType, InFlightUpdate
  <2>3. abandoned' = abandoned + h
    BY <2>1 DEF Cancelled
  <2>4. written' = written /\ Total(dropped)' = Total(dropped) /\ queue' = queue
        /\ arrivals' = arrivals
    BY DEF Cancelled
  <2>5. /\ Len(queue) \in Nat /\ InFlight \in Nat /\ Total(dropped) \in Nat
        /\ written \in Nat /\ arrivals \in Nat /\ abandoned \in Nat
    BY InFlightType, TotalType, CountersType
  <2>6. Conservation
    OBVIOUS
  <2>. QED
    BY ONLY <2>2, <2>3, <2>4, <2>5, <2>6 DEF Conservation
<1>. QED
  BY <1>2, <1>4, <1>5, <1>6

\* Draining moves the whole queue into one batch.
LEMMA DrainIntoInv ==
    ASSUME IInv, NEW f \in Flows, ~Active(f), DrainInto(f),
           UNCHANGED <<written, dropped, arrivals, abandoned>>
    PROVE  /\ queue' = <<>>
           /\ flush' \in [Flows -> FlushStates]
           /\ FlushOK'
           /\ Conservation'
           /\ queue = <<>> => flush' = flush
           /\ queue # <<>> => Active(f)'
           /\ \A g \in Flows \ {f} : Active(g)' = Active(g)
<1>. USE DEF IInv
<1>1. queue' = <<>> /\ Len(queue') = 0
  BY DEF DrainInto
<1>2. /\ Len(queue) \in Nat /\ InFlight \in Nat /\ Total(dropped) \in Nat
      /\ written \in Nat /\ arrivals \in Nat /\ abandoned \in Nat
  BY InFlightType, TotalType, CountersType
<1>3. written' = written /\ Total(dropped)' = Total(dropped) /\ arrivals' = arrivals
      /\ abandoned' = abandoned /\ Conservation
  OBVIOUS
<1>4. CASE queue = <<>>
  <2>1. flush' = flush
    BY <1>4 DEF DrainInto
  <2>2. InFlight' = InFlight /\ Len(queue) = 0
    BY <1>4, <2>1 DEF InFlight, Held
  <2>3. Conservation'
    BY ONLY <1>1, <1>2, <1>3, <2>2 DEF Conservation
  <2>. QED
    BY <1>1, <1>4, <2>1, <2>3 DEF FlushOK, TypeOK, Active
<1>5. CASE queue # <<>>
  <2>1. flush' = [flush EXCEPT ![f] = Flushing(queue)]
    BY <1>5 DEF DrainInto
  <2>2. /\ flush' \in [Flows -> FlushStates] /\ FlushOK'
        /\ InFlight' = InFlight + Len(queue)
        /\ Active(f)' /\ \A g \in Flows \ {f} : Active(g)' = Active(g)
    BY <2>1, TakeUp DEF TypeOK
  <2>3. InFlight' = InFlight + Len(queue)
    BY <2>2
  <2>4. Conservation'
    BY ONLY <1>1, <1>2, <1>3, <2>3 DEF Conservation
  <2>. QED
    BY <1>1, <1>5, <2>2, <2>4
<1>. QED
  BY <1>4, <1>5

LEMMA StopDrainInv == ASSUME IInv, StopDrain PROVE IInv'
<1>. USE DEF IInv
<1>1. "stop" \in Flows /\ ~Active("stop")
  BY DEF Flows, StopOK, StopDrain
<1>2. /\ queue' = <<>> /\ flush' \in [Flows -> FlushStates] /\ FlushOK' /\ Conservation'
      /\ queue = <<>> => flush' = flush
      /\ queue # <<>> => Active("stop")'
      /\ \A g \in Flows \ {"stop"} : Active(g)' = Active(g)
  BY <1>1, DrainIntoInv DEF StopDrain
<1>3. TypeOK'
  BY <1>2, EmptySeq DEF TypeOK, StopDrain
<1>4. StopOK'
  <2>1. ~Active("consumer")'
    BY <1>2 DEF StopOK, StopDrain, Flows
  <2>2. Active("stop")' <=> stopping' = "draining"
    BY <1>1, <1>2 DEF StopDrain, Active
  <2>. QED
    BY <1>2, <2>1, <2>2 DEF StopOK, StopDrain
<1>. QED
  BY <1>2, <1>3, <1>4

LEMMA FlushNowInv == ASSUME IInv, FlushNow PROVE IInv'
<1>. USE DEF IInv
<1>1. "flush_now" \in Flows /\ ~Active("flush_now")
  BY DEF Flows, FlushNow
<1>2. /\ queue' = <<>> /\ flush' \in [Flows -> FlushStates] /\ FlushOK' /\ Conservation'
      /\ \A g \in Flows \ {"flush_now"} : Active(g)' = Active(g)
  BY <1>1, DrainIntoInv DEF FlushNow
<1>3. TypeOK'
  BY <1>2, EmptySeq DEF TypeOK, FlushNow
<1>4. StopOK'
  BY <1>2 DEF StopOK, FlushNow, Flows
<1>. QED
  BY <1>2, <1>3, <1>4

LEMMA InitInv == Init => IInv
<1>. SUFFICES ASSUME Init PROVE IInv
  OBVIOUS
<1>1. \A f \in Flows : flush[f] = Idle
  BY DEF Init
<1>2. TypeOK
  BY IdleType, EmptySeq DEF TypeOK, Init, Reasons
<1>3. FlushOK
  BY <1>1, IdleOK DEF FlushOK
<1>4. \A f \in Flows : Held(f) = 0 /\ ~Active(f)
  BY <1>1, IdleType DEF Held, Active
<1>5. StopOK
  BY <1>4 DEF StopOK, Init, Flows
<1>6. InFlight = 0
  BY <1>4 DEF InFlight, Flows
<1>7. Total(dropped) = 0
  BY DEF Total, Init, Reasons
<1>8. Conservation
  BY <1>6, <1>7 DEF Conservation, Init
<1>. QED
  BY <1>2, <1>3, <1>5, <1>8 DEF IInv

LEMMA CrashInv == ASSUME IInv, Crash PROVE IInv'
<1>1. \A f \in Flows : flush'[f] = Idle
  BY DEF Crash
<1>2. TypeOK'
  BY IdleType, EmptySeq DEF IInv, TypeOK, Crash, Reasons
<1>3. FlushOK'
  BY <1>1, IdleOK DEF FlushOK
<1>4. \A f \in Flows : Held(f)' = 0 /\ ~Active(f)'
  BY <1>1, IdleType DEF Held, Active
<1>5. StopOK'
  BY <1>4 DEF StopOK, Crash, Flows
<1>6. InFlight' = 0
  BY <1>4 DEF InFlight, Flows
<1>7. Total(dropped)' = 0
  BY DEF Total, Crash, Reasons
<1>8. Conservation'
  BY <1>6, <1>7 DEF Conservation, Crash
<1>. QED
  BY <1>2, <1>3, <1>5, <1>8 DEF IInv

\* Start, StopCancel and DeleteUser touch neither rows nor flushes.
LEMMA BystanderInv ==
    ASSUME IInv,
           Start \/ StopCancel \/ (\E u \in Users : DeleteUser(u)) \/ UNCHANGED vars
    PROVE  IInv'
<1>1. UNCHANGED <<queue, flush, written, dropped, arrivals, abandoned, owner, db, depth>>
  BY DEF Start, StopCancel, DeleteUser, vars
<1>2. TypeOK' /\ FlushOK' /\ Conservation'
  BY <1>1 DEF IInv, TypeOK, FlushOK, Conservation, InFlight, Held, Start, StopCancel,
              DeleteUser, vars
<1>3. StopOK'
  BY <1>1 DEF IInv, TypeOK, StopOK, Active, Serving, Start, StopCancel, DeleteUser, vars
<1>. QED
  BY <1>2, <1>3 DEF IInv

-----------------------------------------------------------------------------
(* Theorems                                                                *)

\* Every step of the writer, of its environment and of the database preserves the
\* invariant: types, flush states, the stage of the stop, and conservation.
THEOREM Inductive == IInv /\ [Next]_vars => IInv'
<1>. SUFFICES ASSUME IInv, [Next]_vars PROVE IInv'
  OBVIOUS
<1>1. ASSUME NEW u \in Users, Accept(u) PROVE IInv'
  BY <1>1, AcceptInv
<1>2. ASSUME NEW u \in Users, Shed(u) PROVE IInv'
  BY <1>2, ShedInv
<1>3. CASE TakeBatch
  BY <1>3, TakeBatchInv
<1>4. ASSUME NEW f \in Flows, Commit(f) PROVE IInv'
  BY <1>4, CommitInv
<1>5. ASSUME NEW f \in Flows, FlushStep(f) PROVE IInv'
  BY <1>5, BatchWrittenInv, BatchRefusedInv, BatchFailedInv, RowWrittenInv,
     RowRefusedInv, RowsFailedInv, RowsDoneInv DEF FlushStep
<1>6. CASE StopStep
  BY <1>6, CancelledInv, StopDrainInv DEF StopStep
<1>7. CASE FlushNow
  BY <1>7, FlushNowInv
<1>8. CASE Crash
  BY <1>8, CrashInv
<1>9. CASE Start \/ StopCancel \/ (\E u \in Users : DeleteUser(u)) \/ UNCHANGED vars
  BY <1>9, BystanderInv
<1>. QED
  BY <1>1, <1>2, <1>3, <1>4, <1>5, <1>6, <1>7, <1>8, <1>9 DEF Next

LEMMA Invariant == Spec => []IInv
<1>. QED
  BY InitInv, Inductive, PTL DEF Spec

\* The variables keep their types: counters never go negative, batches and the
\* table hold rows only (TypeOK of the runs, for every value of the constants).
THEOREM TypeCorrect == Spec => []TypeOK
<1>1. IInv => TypeOK
  BY DEF IInv
<1>. QED
  BY <1>1, Invariant, PTL

\* No row is lost between the queue, the flushes and the counters, and none is
\* counted twice, on any path through enqueue, _flush, _flush_row_by_row, stop
\* and flush_now; only the batch of a cancelled task is counted nowhere.
THEOREM ConservationHolds == Spec => []Conservation
<1>1. IInv => Conservation
  BY DEF IInv
<1>. QED
  BY <1>1, Invariant, PTL

\* When stop has returned, the queue is empty and neither the consumer nor the
\* drain holds a batch.
THEOREM StopDrains == Spec => []StoppedIsDrained
<1>1. IInv => StoppedIsDrained
  BY DEF IInv, StopOK, StoppedIsDrained
<1>. QED
  BY <1>1, Invariant, PTL
=============================================================================
