---------------------------- MODULE RefundsProofs ----------------------------
(***************************************************************************)
(* Invariance proofs for Refunds: its types, the exclusiveness of attempts *)
(* and of confirmations, the finality of a succeeded refund, the return of *)
(* all that was paid by a refunded order, and the ledger of an order at    *)
(* which nothing was repeated, for every number of refunds, workers and    *)
(* messages, and for every amount.                                         *)
(***************************************************************************)
EXTENDS Refunds, SumsProofs, TLAPS

\* A request holds a current read of an order that can be refunded, for a row
\* that does not exist yet; its read is not also one write old.
Reads ==
  /\ reading # {} => order \in Refundable
  /\ \A r \in reading : status[r] = "absent" /\ r \notin behind

\* A row is first written by its request: before that no attempt was made.
Untouched == \A r \in Refunds : status[r] = "absent" => attempt[r] = 0

\* A busy worker holds an attempt that was given to it.
Held ==
  \A w \in Workers :
    Busy(w) => /\ job[w].refund \in Refunds
               /\ job[w].attempt \in 1..attempt[job[w].refund]

\* No two workers are given the same attempt of a refund.
Distinct ==
  \A v, w \in Workers :
    /\ Busy(v) /\ Busy(w) /\ job[v].refund = job[w].refund
    /\ job[v].attempt = job[w].attempt
    => v = w

Inv == TypeOK /\ Reads /\ Untouched /\ Held /\ Distinct /\ ManualIsExclusive

\* The shape of the state: nothing is claimed or requested when it starts.
LEMMA InvInit == Init => Inv
<1> SUFFICES ASSUME Init PROVE Inv
  OBVIOUS
<1> USE RefundsAssumption
<1>1. TypeOK
  BY DEF Init, TypeOK, OrderStatus, Refundable, RefundStatus, Job, Idle
<1>2. Reads /\ Untouched
  BY DEF Init, Reads, Untouched
<1>3. Held /\ Distinct /\ ManualIsExclusive
  BY DEF Init, Held, Distinct, ManualIsExclusive, Busy, Idle
<1> QED
  BY <1>1, <1>2, <1>3 DEF Inv

\* Writing one field of a worker's job with a value of the field's type.
LEMMA AnswerWritten ==
  ASSUME NEW js \in [Workers -> Job], NEW w \in Workers, NEW a \in Answer
  PROVE  [js EXCEPT ![w].answer = a] \in [Workers -> Job]
<1>1. js[w] \in Job
  OBVIOUS
<1>2. [js[w] EXCEPT !.answer = a] \in Job
  BY <1>1 DEF Job
<1> QED
  BY <1>2

LEMMA FullWritten ==
  ASSUME NEW js \in [Workers -> Job], NEW w \in Workers, NEW f \in BOOLEAN
  PROVE  [js EXCEPT ![w].full = f] \in [Workers -> Job]
<1>1. js[w] \in Job
  OBVIOUS
<1>2. [js[w] EXCEPT !.full = f] \in Job
  BY <1>1 DEF Job
<1> QED
  BY <1>2

\* Every handler keeps the invariant; the steps follow the actions of Next.
LEMMA InvNext == Inv /\ [Next]_vars => Inv'
<1> SUFFICES ASSUME Inv, [Next]_vars PROVE Inv'
  OBVIOUS
<1> USE RefundsAssumption
<1> USE DEF Inv, paid, rows, reads, admin, outbox
<1>1. ASSUME Progress PROVE Inv'
  <2> USE <1>1 DEF Progress, WriteOrder
  <2>1. TypeOK'
    BY DEF TypeOK, OrderStatus, Refundable, RefundStatus, Job, Answer, Reads, Held, Busy
  <2>2. Reads' /\ Untouched'
    BY DEF TypeOK, Reads, Untouched, Refundable
  <2>3. Held' /\ Distinct' /\ ManualIsExclusive'
    BY DEF TypeOK, Job, Busy, Current, Held, Distinct, ManualIsExclusive, Reads, Untouched
  <2> QED
    BY <2>1, <2>2, <2>3
<1>2. ASSUME NEW r \in Refunds, BeginRequest(r) PROVE Inv'
  <2> USE <1>2 DEF BeginRequest
  <2>1. TypeOK'
    BY DEF TypeOK, OrderStatus, Refundable, RefundStatus, Job, Answer, Reads, Held, Busy
  <2>2. Reads' /\ Untouched'
    BY DEF TypeOK, Reads, Untouched, Refundable
  <2>3. Held' /\ Distinct' /\ ManualIsExclusive'
    BY DEF TypeOK, Job, Busy, Current, Held, Distinct, ManualIsExclusive, Reads, Untouched
  <2> QED
    BY <2>1, <2>2, <2>3
<1>3. ASSUME NEW r \in Refunds, CommitRequest(r) PROVE Inv'
  <2> USE <1>3 DEF CommitRequest, WriteOrder
  <2>1. TypeOK'
    BY DEF TypeOK, OrderStatus, Refundable, RefundStatus, Job, Answer, Reads, Held, Busy
  <2>2. Reads' /\ Untouched'
    BY DEF TypeOK, Reads, Untouched, Refundable
  <2>3. Held' /\ Distinct' /\ ManualIsExclusive'
    BY DEF TypeOK, Job, Busy, Current, Held, Distinct, ManualIsExclusive, Reads, Untouched
  <2> QED
    BY <2>1, <2>2, <2>3
<1>4. ASSUME NEW r \in Refunds, CommitWalletRefund(r) PROVE Inv'
  <2> USE <1>4 DEF CommitWalletRefund, WriteOrder
  <2>1. TypeOK'
    BY DEF TypeOK, OrderStatus, Refundable, RefundStatus, Job, Answer, Reads, Held, Busy
  <2>2. Reads' /\ Untouched'
    BY DEF TypeOK, Reads, Untouched, Refundable
  <2>3. Held' /\ Distinct' /\ ManualIsExclusive'
    BY DEF TypeOK, Job, Busy, Current, Held, Distinct, ManualIsExclusive, Reads, Untouched
  <2> QED
    BY <2>1, <2>2, <2>3
<1>5. ASSUME NEW r \in Refunds, MissWalletRefund(r) PROVE Inv'
  <2> USE <1>5 DEF MissWalletRefund
  <2>1. TypeOK'
    BY DEF TypeOK, OrderStatus, Refundable, RefundStatus, Job, Answer, Reads, Held, Busy
  <2>2. Reads' /\ Untouched'
    BY DEF TypeOK, Reads, Untouched, Refundable
  <2>3. Held' /\ Distinct' /\ ManualIsExclusive'
    BY DEF TypeOK, Job, Busy, Current, Held, Distinct, ManualIsExclusive, Reads, Untouched
  <2> QED
    BY <2>1, <2>2, <2>3
<1>6. ASSUME NEW r \in Refunds, BeginRetry(r) PROVE Inv'
  <2> USE <1>6 DEF BeginRetry
  <2>1. TypeOK'
    BY DEF TypeOK, OrderStatus, Refundable, RefundStatus, Job, Answer, Reads, Held, Busy
  <2>2. Reads' /\ Untouched'
    BY DEF TypeOK, Reads, Untouched, Refundable
  <2>3. Held' /\ Distinct' /\ ManualIsExclusive'
    BY DEF TypeOK, Job, Busy, Current, Held, Distinct, ManualIsExclusive, Reads, Untouched
  <2> QED
    BY <2>1, <2>2, <2>3
<1>7. ASSUME NEW r \in Refunds, CommitRetry(r) PROVE Inv'
  <2> USE <1>7 DEF CommitRetry, WriteOrder, RetriedStatus
  <2>1. TypeOK'
    BY DEF TypeOK, OrderStatus, Refundable, RefundStatus, Job, Answer, Reads, Held, Busy
  <2>2. Reads' /\ Untouched'
    BY DEF TypeOK, Reads, Untouched, Refundable
  <2>3. Held' /\ Distinct' /\ ManualIsExclusive'
    BY DEF TypeOK, Job, Busy, Current, Held, Distinct, ManualIsExclusive, Reads, Untouched
  <2> QED
    BY <2>1, <2>2, <2>3
<1>8. ASSUME NEW r \in Refunds, Tick(r) PROVE Inv'
  <2> USE <1>8 DEF Tick
  <2>1. TypeOK'
    BY DEF TypeOK, OrderStatus, Refundable, RefundStatus, Job, Answer, Reads, Held, Busy
  <2>2. Reads' /\ Untouched'
    BY DEF TypeOK, Reads, Untouched, Refundable
  <2>3. Held' /\ Distinct' /\ ManualIsExclusive'
    BY DEF TypeOK, Job, Busy, Current, Held, Distinct, ManualIsExclusive, Reads, Untouched
  <2> QED
    BY <2>1, <2>2, <2>3
<1>9. ASSUME NEW r \in Refunds, Publish(r) PROVE Inv'
  <2> USE <1>9 DEF Publish
  <2>1. TypeOK'
    BY DEF TypeOK, OrderStatus, Refundable, RefundStatus, Job, Answer, Reads, Held, Busy
  <2>2. Reads' /\ Untouched'
    BY DEF TypeOK, Reads, Untouched, Refundable
  <2>3. Held' /\ Distinct' /\ ManualIsExclusive'
    BY DEF TypeOK, Job, Busy, Current, Held, Distinct, ManualIsExclusive, Reads, Untouched
  <2> QED
    BY <2>1, <2>2, <2>3
<1>10. ASSUME NEW r \in Refunds, PublishUnmarked(r) PROVE Inv'
  <2> USE <1>10 DEF PublishUnmarked, Repeat
  <2>1. TypeOK'
    BY DEF TypeOK, OrderStatus, Refundable, RefundStatus, Job, Answer, Reads, Held, Busy
  <2>2. Reads' /\ Untouched'
    BY DEF TypeOK, Reads, Untouched, Refundable
  <2>3. Held' /\ Distinct' /\ ManualIsExclusive'
    BY DEF TypeOK, Job, Busy, Current, Held, Distinct, ManualIsExclusive, Reads, Untouched
  <2> QED
    BY <2>1, <2>2, <2>3
<1>11. ASSUME NEW r \in Refunds, AckDuplicate(r) PROVE Inv'
  <2> USE <1>11 DEF AckDuplicate
  <2>1. TypeOK'
    BY DEF TypeOK, OrderStatus, Refundable, RefundStatus, Job, Answer, Reads, Held, Busy
  <2>2. Reads' /\ Untouched'
    BY DEF TypeOK, Reads, Untouched, Refundable
  <2>3. Held' /\ Distinct' /\ ManualIsExclusive'
    BY DEF TypeOK, Job, Busy, Current, Held, Distinct, ManualIsExclusive, Reads, Untouched
  <2> QED
    BY <2>1, <2>2, <2>3
<1>12. ASSUME NEW w \in Workers, NEW r \in Refunds, Claim(w, r) PROVE Inv'
  <2> USE <1>12 DEF Claim, Claimable, NextAttempt, Idle
  <2>1. TypeOK'
    <3>1. job' \in [Workers -> Job]
      <4>1. [pc |-> "call", refund |-> r, attempt |-> NextAttempt(r),
             answer |-> "none", full |-> FALSE, by |-> "queue"] \in Job
        BY DEF TypeOK, Job
      <4> QED
        BY <4>1 DEF TypeOK
    <3> QED
      BY <3>1 DEF TypeOK, RefundStatus
  <2>2. Reads' /\ Untouched'
    BY DEF TypeOK, Reads, Untouched, Refundable
  <2>3. Held' /\ Distinct' /\ ManualIsExclusive'
    BY DEF TypeOK, Job, Busy, Current, Held, Distinct, ManualIsExclusive, Reads, Untouched
  <2> QED
    BY <2>1, <2>2, <2>3
<1>13. ASSUME NEW w \in Workers, Ack(w) PROVE Inv'
  <2> USE <1>13 DEF Ack, Idle
  <2>1. TypeOK'
    BY DEF TypeOK, OrderStatus, Refundable, RefundStatus, Job, Answer, Reads, Held, Busy
  <2>2. Reads' /\ Untouched'
    BY DEF TypeOK, Reads, Untouched, Refundable
  <2>3. Held' /\ Distinct' /\ ManualIsExclusive'
    BY DEF TypeOK, Job, Busy, Current, Held, Distinct, ManualIsExclusive, Reads, Untouched
  <2> QED
    BY <2>1, <2>2, <2>3
<1>14. ASSUME NEW w \in Workers, Crash(w) PROVE Inv'
  <2> USE <1>14 DEF Crash, Repeat, Idle
  <2>1. TypeOK'
    <3>1. job' \in [Workers -> Job]
      BY DEF TypeOK, Job
    <3> QED
      BY <3>1 DEF TypeOK
  <2>2. Reads' /\ Untouched'
    BY DEF TypeOK, Reads, Untouched, Refundable
  <2>3. Held' /\ Distinct' /\ ManualIsExclusive'
    BY DEF TypeOK, Job, Busy, Current, Held, Distinct, ManualIsExclusive, Reads, Untouched
  <2> QED
    BY <2>1, <2>2, <2>3
<1>15. ASSUME NEW w \in Workers, ProviderAnswers(w) PROVE Inv'
  <2> USE <1>15 DEF ProviderAnswers, Recorded, Answers
  <2>1. TypeOK'
    <3>1. job' \in [Workers -> Job]
      <4>1. PICK answer \in Answers(w) :
              job' = [job EXCEPT ![w].pc = "settle",
                                 ![w].answer = Recorded(w, answer),
                                 ![w].full = /\ answer = "succeeded"
                                             /\ ReturnsAll(job[w].refund)]
        OBVIOUS
      <4>2. Recorded(w, answer) \in Answer
        BY <4>1 DEF Answer
      <4> DEFINE whole == answer = "succeeded" /\ ReturnsAll(job[w].refund)
      <4>3. whole \in BOOLEAN
        OBVIOUS
      <4> DEFINE settled == [job EXCEPT ![w].pc = "settle"]
                 answered == [settled EXCEPT ![w].answer = Recorded(w, answer)]
      <4>4. settled \in [Workers -> Job]
        BY DEF TypeOK, Job
      <4>5. answered \in [Workers -> Job]
        BY <4>2, <4>4, AnswerWritten
      <4>6. job' = [answered EXCEPT ![w].full = whole]
        BY <4>1
      <4> HIDE DEF answered, whole
      <4>7. [answered EXCEPT ![w].full = whole] \in [Workers -> Job]
        BY ONLY <4>3, <4>5, w \in Workers, FullWritten
      <4> QED
        BY ONLY <4>6, <4>7
    <3> QED
      BY <3>1 DEF TypeOK, Held, Busy
  <2>2. Reads' /\ Untouched'
    BY DEF TypeOK, Reads, Untouched, Refundable
  <2>3. Held' /\ Distinct' /\ ManualIsExclusive'
    BY DEF TypeOK, Job, Busy, Current, Held, Distinct, ManualIsExclusive, Reads, Untouched
  <2> QED
    BY <2>1, <2>2, <2>3
<1>16. ASSUME NEW w \in Workers, NEW r \in Refunds, ConfirmManual(w, r) PROVE Inv'
  <2> USE <1>16 DEF ConfirmManual, NextAttempt, Idle
  <2>1. TypeOK'
    <3>1. job' \in [Workers -> Job]
      <4>1. [pc |-> "settle", refund |-> r, attempt |-> NextAttempt(r),
             answer |-> "succeeded", full |-> ReturnsAll(r), by |-> "admin"]
              \in Job
        BY DEF TypeOK, Job, Answer, ReturnsAll
      <4> QED
        BY <4>1 DEF TypeOK
    <3> QED
      BY <3>1 DEF TypeOK
  <2>2. Reads' /\ Untouched'
    BY DEF TypeOK, Reads, Untouched, Refundable
  <2>3. Held' /\ Distinct' /\ ManualIsExclusive'
    BY DEF TypeOK, Job, Busy, Current, Held, Distinct, ManualIsExclusive, Reads, Untouched
  <2> QED
    BY <2>1, <2>2, <2>3
<1>17. ASSUME NEW w \in Workers, ScheduleCheck(w) PROVE Inv'
  <2> USE <1>17 DEF ScheduleCheck, Settles, Schedulable, Scheduled, Current
  <2>1. TypeOK'
    <3>1. job' \in [Workers -> Job]
      BY DEF TypeOK, Job
    <3> QED
      BY <3>1 DEF TypeOK, Held, Busy
  <2>2. Reads' /\ Untouched'
    BY DEF TypeOK, Reads, Untouched, Refundable
  <2>3. Held' /\ Distinct' /\ ManualIsExclusive'
    BY DEF TypeOK, Job, Busy, Current, Held, Distinct, ManualIsExclusive, Reads, Untouched
  <2> QED
    BY <2>1, <2>2, <2>3
<1>18. ASSUME NEW w \in Workers, RecordProviderFailure(w) PROVE Inv'
  <2> USE <1>18 DEF RecordProviderFailure, Settles, Schedulable, Scheduled, Current
  <2>1. TypeOK'
    BY DEF TypeOK, OrderStatus, Refundable, RefundStatus, Job, Answer, Reads, Held, Busy
  <2>2. Reads' /\ Untouched'
    BY DEF TypeOK, Reads, Untouched, Refundable
  <2>3. Held' /\ Distinct' /\ ManualIsExclusive'
    BY DEF TypeOK, Job, Busy, Current, Held, Distinct, ManualIsExclusive, Reads, Untouched
  <2> QED
    BY <2>1, <2>2, <2>3
<1>19. ASSUME NEW w \in Workers, RequireReconciliation(w) PROVE Inv'
  <2> USE <1>19 DEF RequireReconciliation, Settles, Schedulable, Current
  <2>1. TypeOK'
    BY DEF TypeOK, OrderStatus, Refundable, RefundStatus, Job, Answer, Reads, Held, Busy
  <2>2. Reads' /\ Untouched'
    BY DEF TypeOK, Reads, Untouched, Refundable
  <2>3. Held' /\ Distinct' /\ ManualIsExclusive'
    BY DEF TypeOK, Job, Busy, Current, Held, Distinct, ManualIsExclusive, Reads, Untouched
  <2> QED
    BY <2>1, <2>2, <2>3
<1>20. ASSUME NEW w \in Workers, Finalize(w) PROVE Inv'
  <2> USE <1>20 DEF Finalize, Settles, Finalizable, Current, WriteOrder, OrderAfter, Final
  <2>1. TypeOK'
    BY DEF TypeOK, OrderStatus, Refundable, RefundStatus, Job, Answer, Reads, Held, Busy
  <2>2. Reads' /\ Untouched'
    BY DEF TypeOK, Reads, Untouched, Refundable
  <2>3. Held' /\ Distinct' /\ ManualIsExclusive'
    BY DEF TypeOK, Job, Busy, Current, Held, Distinct, ManualIsExclusive, Reads, Untouched
  <2> QED
    BY <2>1, <2>2, <2>3
<1>21. ASSUME NEW w \in Workers, FinalizeRejected(w) PROVE Inv'
  <2> USE <1>21 DEF FinalizeRejected, Repeat, Idle
  <2>1. TypeOK'
    BY DEF TypeOK, OrderStatus, Refundable, RefundStatus, Job, Answer, Reads, Held, Busy
  <2>2. Reads' /\ Untouched'
    BY DEF TypeOK, Reads, Untouched, Refundable
  <2>3. Held' /\ Distinct' /\ ManualIsExclusive'
    BY DEF TypeOK, Job, Busy, Current, Held, Distinct, ManualIsExclusive, Reads, Untouched
  <2> QED
    BY <2>1, <2>2, <2>3
<1>22. ASSUME NEW w \in Workers, DiscardLateAnswer(w) PROVE Inv'
  <2> USE <1>22 DEF DiscardLateAnswer, Settles
  <2>1. TypeOK'
    <3>1. job' \in [Workers -> Job]
      BY DEF TypeOK, Job
    <3> QED
      BY <3>1 DEF TypeOK, Held, Busy
  <2>2. Reads' /\ Untouched'
    BY DEF TypeOK, Reads, Untouched, Refundable
  <2>3. Held' /\ Distinct' /\ ManualIsExclusive'
    BY DEF TypeOK, Job, Busy, Current, Held, Distinct, ManualIsExclusive, Reads, Untouched
  <2> QED
    BY <2>1, <2>2, <2>3
<1>23. CASE UNCHANGED vars
  BY <1>23 DEF vars, TypeOK, Reads, Untouched, Held, Distinct, ManualIsExclusive, Busy, Current
<1> HIDE DEF Inv, paid, rows, admin, outbox
<1> QED
  BY <1>1, <1>2, <1>3, <1>4, <1>5, <1>6, <1>7, <1>8, <1>9, <1>10, <1>11, <1>12, <1>13, <1>14, <1>15, <1>16, <1>17, <1>18, <1>19, <1>20, <1>21, <1>22, <1>23 DEF Next, Settle

-----------------------------------------------------------------------------
\* The invariant holds in every reachable state.
THEOREM InvHolds == Spec => []Inv
<1> QED
  BY InvInit, InvNext, PTL DEF Spec

\* The variables of the refund handlers keep the types of their columns.
THEOREM TypeCorrect == Spec => []TypeOK
<1>1. Inv => TypeOK
  BY DEF Inv
<1> QED
  BY <1>1, InvHolds, PTL

\* claimRefundAttempt and completeManualShopRefund give every attempt to one
\* worker, so that of the workers of a refund at most one can record.
THEOREM AttemptsExclude == Spec => []OneCurrentWorker
<1>1. Inv => OneCurrentWorker
  BY DEF Inv, Held, Distinct, OneCurrentWorker, Current
<1> QED
  BY <1>1, InvHolds, PTL

\* A refund that waits for confirmation is out of the reach of the queue.
THEOREM ConfirmationExcludes == Spec => []ManualIsExclusive
<1>1. Inv => ManualIsExclusive
  BY DEF Inv
<1> QED
  BY <1>1, InvHolds, PTL

\* Of all the handlers, none writes the status of a refund that succeeded.
LEMMA SuccessStays ==
  ASSUME Inv, [Next]_vars, NEW q \in Refunds, status[q] = "succeeded"
  PROVE  status'[q] = "succeeded"
<1>1. ASSUME NEW r \in Refunds,
             CommitRequest(r) \/ CommitWalletRefund(r) \/ MissWalletRefund(r)
      PROVE  status'[q] = "succeeded"
  BY <1>1 DEF Inv, TypeOK, Reads, CommitRequest, CommitWalletRefund,
              MissWalletRefund
<1>2. ASSUME NEW r \in Refunds,
             \/ BeginRequest(r) \/ BeginRetry(r) \/ CommitRetry(r) \/ Tick(r)
             \/ Publish(r) \/ PublishUnmarked(r) \/ AckDuplicate(r)
      PROVE  status'[q] = "succeeded"
  BY <1>2 DEF Inv, TypeOK, BeginRequest, BeginRetry, CommitRetry,
              RetriedStatus, Tick, Publish, PublishUnmarked, AckDuplicate, rows
<1>3. ASSUME NEW w \in Workers, NEW r \in Refunds,
             Claim(w, r) \/ ConfirmManual(w, r)
      PROVE  status'[q] = "succeeded"
  BY <1>3 DEF Inv, TypeOK, Claim, Claimable, ConfirmManual
<1>4. ASSUME NEW w \in Workers,
             ProviderAnswers(w) \/ Ack(w) \/ Crash(w)
      PROVE  status'[q] = "succeeded"
  BY <1>4 DEF ProviderAnswers, Ack, Crash, rows
<1>5. ASSUME NEW w \in Workers, Settle(w)
      PROVE  status'[q] = "succeeded"
  <2>1. CASE Finalize(w)
    BY <2>1 DEF Inv, TypeOK, Finalize, Finalizable
  <2>2. CASE RecordProviderFailure(w)
    BY <2>2 DEF Inv, TypeOK, RecordProviderFailure, Schedulable
  <2>3. CASE \/ ScheduleCheck(w) \/ RequireReconciliation(w)
             \/ FinalizeRejected(w) \/ DiscardLateAnswer(w)
    BY <2>3 DEF ScheduleCheck, RequireReconciliation, FinalizeRejected,
                DiscardLateAnswer, rows
  <2> QED
    BY <1>5, <2>1, <2>2, <2>3 DEF Settle
<1>6. CASE Progress \/ UNCHANGED vars
  BY <1>6 DEF Progress, vars, rows
<1> QED
  BY <1>1, <1>2, <1>3, <1>4, <1>5, <1>6 DEF Next

\* No handler takes a refund out of "succeeded".
THEOREM SuccessIsFinal == Spec => SucceededIsFinal
<1>1. Inv /\ [Next]_vars
        => \A r \in Refunds : status[r] = "succeeded" => status'[r] = "succeeded"
  BY SuccessStays
<1> QED
  BY <1>1, InvHolds, PTL DEF Spec, SucceededIsFinal

-----------------------------------------------------------------------------
(***************************************************************************)
(* What a settled refund returns: an order is refunded only for as much as *)
(* was paid, and outside the balance a refund succeeds only when the money *)
(* is with the customer.                                                   *)
(***************************************************************************)
\* A worker that settles a refund of the rest of the payment has been told
\* that it succeeded, and the others that succeeded still make up for it.
FullHolds ==
  \A w \in Workers :
    job[w].pc = "settle" /\ job[w].full
    => /\ job[w].answer = "succeeded"
       /\ ReturnsAll(job[w].refund)

\* A balance refund is inserted as succeeded, and nothing else is inserted.
WalletOnce ==
  funding = "wallet" => \A r \in Refunds : status[r] \in {"absent", "succeeded"}

\* A balance refund that read that it returns the rest of the payment still
\* makes up for it with what succeeded meanwhile.
RestHolds ==
  funding = "wallet" => \A r \in reading \cap rest : ReturnsAll(r)

\* An answer "succeeded" comes after the money.
AnswerMeansReturned ==
  \A w \in Workers :
    job[w].pc = "settle" /\ job[w].answer = "succeeded" => job[w].refund \in returned

ReturnInv ==
  /\ Inv
  /\ FullHolds
  /\ WalletOnce
  /\ RestHolds
  /\ AnswerMeansReturned
  /\ RefundedMeansReturned
  /\ funding # "wallet" => SucceededMeansReturned

\* The amounts of one order's refunds add up.
LEMMA SumFacts ==
  ASSUME TypeOK
  PROVE  /\ \A S \in SUBSET Refunds : Sum(S) \in Nat
         /\ \A T \in SUBSET Refunds : \A S \in SUBSET T : Sum(S) <= Sum(T)
         /\ \A S \in SUBSET Refunds : \A r \in Refunds \ S :
              Sum(S \cup {r}) = Sum(S) + amount[r]
         /\ Sum({}) = 0
         /\ \A r \in Refunds : amount[r] \in Nat
<1>1. \A r \in Refunds : amount[r] \in Nat
  BY RefundsAssumption DEF TypeOK
<1>2. \A S \in SUBSET Refunds : IsFiniteSet(S)
  BY RefundsAssumption, FS_Subset
<1>3. ASSUME NEW S \in SUBSET Refunds
      PROVE  Sum(S) \in Nat
  BY <1>1, <1>2, SumType DEF Sum
<1>4. ASSUME NEW T \in SUBSET Refunds, NEW S \in SUBSET T
      PROVE  Sum(S) <= Sum(T)
  BY <1>1, <1>2, SumMonotone DEF Sum
<1>5. ASSUME NEW S \in SUBSET Refunds, NEW r \in Refunds \ S
      PROVE  Sum(S \cup {r}) = Sum(S) + amount[r]
  BY <1>1, <1>2, SumAdd DEF Sum
<1>6. Sum({}) = 0
  BY SumEmpty DEF Sum
<1> QED
  BY <1>1, <1>3, <1>4, <1>5, <1>6

\* No handler writes how the order was paid or what a refund amounts to, nor
\* takes money back from the customer.
LEMMA PaidStays ==
  ASSUME [Next]_vars
  PROVE  UNCHANGED <<funding, amount>> /\ returned \subseteq returned'
<1> USE DEF paid
<1>1. ASSUME NEW r \in Refunds,
             \/ BeginRequest(r) \/ CommitRequest(r) \/ CommitWalletRefund(r)
             \/ MissWalletRefund(r) \/ BeginRetry(r) \/ CommitRetry(r)
             \/ Tick(r) \/ Publish(r) \/ PublishUnmarked(r) \/ AckDuplicate(r)
      PROVE  UNCHANGED <<funding, amount>> /\ returned \subseteq returned'
  BY <1>1 DEF BeginRequest, CommitRequest, CommitWalletRefund, MissWalletRefund,
              BeginRetry, CommitRetry, Tick, Publish, PublishUnmarked, AckDuplicate
<1>2. ASSUME NEW w \in Workers, NEW r \in Refunds, Claim(w, r) \/ ConfirmManual(w, r)
      PROVE  UNCHANGED <<funding, amount>> /\ returned \subseteq returned'
  BY <1>2 DEF Claim, ConfirmManual
<1>3. ASSUME NEW w \in Workers, ProviderAnswers(w) \/ Settle(w) \/ Ack(w) \/ Crash(w)
      PROVE  UNCHANGED <<funding, amount>> /\ returned \subseteq returned'
  BY <1>3 DEF ProviderAnswers, Ack, Crash, Settle, ScheduleCheck, Finalize,
              RecordProviderFailure, RequireReconciliation, FinalizeRejected,
              DiscardLateAnswer
<1>4. CASE Progress \/ UNCHANGED vars
  BY <1>4 DEF Progress, vars
<1> QED
  BY <1>1, <1>2, <1>3, <1>4 DEF Next

\* What has succeeded adds up to more and more.
LEMMA SucceededGrows ==
  ASSUME Inv, [Next]_vars
  PROVE  /\ Succeeded \subseteq Succeeded'
         /\ \A r \in Refunds : ReturnsAll(r) => ReturnsAll(r)'
         /\ Sum(Succeeded) <= Sum(Succeeded)'
<1>1. Succeeded \subseteq Succeeded'
  BY SuccessStays DEF Succeeded
<1>2. amount' = amount
  BY PaidStays
<1>3. Succeeded' \in SUBSET Refunds
  BY DEF Succeeded
<1>4. Sum(Succeeded) <= Sum(Succeeded)'
  <2>1. Sum(Succeeded) <= Sum(Succeeded')
    BY <1>1, <1>3, SumFacts DEF Inv
  <2> QED
    BY <1>2, <2>1 DEF Sum
<1>5. ASSUME NEW r \in Refunds, ReturnsAll(r)
      PROVE  ReturnsAll(r)'
  <2> DEFINE S == Succeeded \ {r}
             T == Succeeded' \ {r}
  <2>1. Sum(S) <= Sum(T) /\ Sum(S) \in Nat /\ Sum(T) \in Nat /\ amount[r] \in Nat
    BY <1>1, <1>3, SumFacts DEF Inv
  <2>2. Sum(S) + amount[r] >= Paid
    BY <1>5 DEF ReturnsAll
  <2>3. Sum(T) + amount[r] >= Paid
    BY <2>1, <2>2, RefundsAssumption
  <2> QED
    BY <1>2, <2>3 DEF ReturnsAll, Sum
<1> QED
  BY <1>1, <1>4, <1>5

\* A worker comes to settle an outcome in the provider's answer or in an
\* administrator's confirmation.
LEMMA WorkersSettle ==
  ASSUME Inv, [Next]_vars, NEW v \in Workers, job'[v].pc = "settle"
  PROVE  \/ job'[v] = job[v]
         \/ /\ job'[v].refund \in Refunds
            /\ job'[v].answer = "succeeded" => job'[v].refund \in returned'
            /\ job'[v].full <=> /\ job'[v].answer = "succeeded"
                                /\ ReturnsAll(job'[v].refund)
<1> USE DEF Inv, TypeOK
<1>1. ASSUME NEW r \in Refunds,
             \/ BeginRequest(r) \/ CommitRequest(r) \/ CommitWalletRefund(r)
             \/ MissWalletRefund(r) \/ BeginRetry(r) \/ CommitRetry(r)
             \/ Tick(r) \/ Publish(r) \/ PublishUnmarked(r) \/ AckDuplicate(r)
      PROVE  job' = job
  BY <1>1 DEF BeginRequest, CommitRequest, CommitWalletRefund, MissWalletRefund,
              BeginRetry, CommitRetry, Tick, Publish, PublishUnmarked, AckDuplicate
<1>2. ASSUME NEW w \in Workers, NEW r \in Refunds, Claim(w, r)
      PROVE  job'[v] = job[v]
  BY <1>2 DEF Claim
<1>3. ASSUME NEW w \in Workers, NEW r \in Refunds, ConfirmManual(w, r), v = w
      PROVE  /\ job'[v].refund = r
             /\ r \in returned'
             /\ job'[v].answer = "succeeded"
             /\ job'[v].full <=> ReturnsAll(r)
  <2> DEFINE whole == ReturnsAll(r)
  <2>1. job'[w] = [pc |-> "settle", refund |-> r, attempt |-> NextAttempt(r),
                   answer |-> "succeeded", full |-> whole, by |-> "admin"]
    BY <1>3 DEF ConfirmManual
  <2>2. r \in returned'
    BY <1>3 DEF ConfirmManual
  <2>3. /\ job'[w].refund = r
        /\ job'[w].answer = "succeeded"
        /\ job'[w].full = whole
    <3> HIDE DEF whole
    <3> QED
      BY <2>1
  <2>4. job'[w].full <=> ReturnsAll(r)
    BY ONLY <2>3, Zenon
  <2> QED
    BY <1>3, <2>2, <2>3, <2>4
<1>4. ASSUME NEW w \in Workers, ProviderAnswers(w), v = w
      PROVE  /\ job'[v].refund = job[v].refund
             /\ job[v].refund \in Refunds
             /\ job'[v].answer = "succeeded" => job[v].refund \in returned'
             /\ job'[v].full <=> /\ job'[v].answer = "succeeded"
                                 /\ ReturnsAll(job[v].refund)
  <2>1. job[w] \in Job /\ job[w].refund \in Refunds
    BY <1>4 DEF ProviderAnswers, Held, Busy
  <2>2. PICK answer \in Answers(w) :
          /\ job' = [job EXCEPT ![w].pc = "settle",
                                ![w].answer = Recorded(w, answer),
                                ![w].full = /\ answer = "succeeded"
                                            /\ ReturnsAll(job[w].refund)]
          /\ returned' = IF answer = "succeeded"
                         THEN returned \cup {job[w].refund} ELSE returned
    BY <1>4 DEF ProviderAnswers
  <2> DEFINE whole == answer = "succeeded" /\ ReturnsAll(job[w].refund)
  <2>3. job'[w] = [job[w] EXCEPT !.pc = "settle", !.answer = Recorded(w, answer),
                                 !.full = whole]
    BY <2>2
  <2>4. /\ job'[w].refund = job[w].refund
        /\ job'[w].answer = Recorded(w, answer)
        /\ job'[w].full = whole
    <3> HIDE DEF whole
    <3> QED
      BY <2>1, <2>3 DEF Job
  <2>5. Recorded(w, answer) = "succeeded" <=> answer = "succeeded"
    BY DEF Recorded
  <2> QED
    BY <1>4, <2>1, <2>2, <2>4, <2>5
<1>5. ASSUME NEW w \in Workers, ProviderAnswers(w) \/ Settle(w) \/ Ack(w) \/ Crash(w),
             v # w
      PROVE  job'[v] = job[v]
  BY <1>5 DEF ProviderAnswers, Ack, Crash, Settle, ScheduleCheck, Finalize,
              RecordProviderFailure, RequireReconciliation, FinalizeRejected,
              DiscardLateAnswer, Settles
<1>6. ASSUME NEW w \in Workers, Settle(w) \/ Ack(w) \/ Crash(w)
      PROVE  job'[w].pc # "settle"
  <2>1. CASE Ack(w) \/ Crash(w) \/ FinalizeRejected(w)
    <3>1. job' = [job EXCEPT ![w] = Idle]
      BY <2>1 DEF Ack, Crash, FinalizeRejected
    <3> QED
      BY <3>1 DEF Idle
  <2>2. CASE \/ ScheduleCheck(w) \/ RecordProviderFailure(w) \/ Finalize(w)
             \/ RequireReconciliation(w) \/ DiscardLateAnswer(w)
    <3>1. job' = [job EXCEPT ![w].pc = "ack"]
      BY <2>2 DEF ScheduleCheck, RecordProviderFailure, Finalize,
                  RequireReconciliation, DiscardLateAnswer, Settles
    <3> QED
      BY <3>1 DEF Job
  <2> QED
    BY <1>6, <2>1, <2>2 DEF Settle
<1>7. ASSUME NEW w \in Workers, NEW r \in Refunds, ConfirmManual(w, r), v # w
      PROVE  job'[v] = job[v]
  BY <1>7 DEF ConfirmManual
<1>8. CASE Progress \/ UNCHANGED vars
  BY <1>8 DEF Progress, vars
<1> HIDE DEF Inv, TypeOK
<1>9. CASE \E w \in Workers : \/ ProviderAnswers(w) \/ Settle(w) \/ Ack(w) \/ Crash(w)
                              \/ \E r \in Refunds : Claim(w, r) \/ ConfirmManual(w, r)
  BY <1>2, <1>3, <1>4, <1>5, <1>6, <1>7, <1>9
<1> QED
  BY <1>1, <1>8, <1>9 DEF Next

\* An order becomes refunded in the batch of a balance refund or in the batch
\* that records an outcome.
LEMMA OrderRefunded ==
  ASSUME Inv, [Next]_vars, order' = "refunded"
  PROVE  \/ order = "refunded"
         \/ \E r \in Refunds : CommitWalletRefund(r) /\ r \in rest
         \/ \E w \in Workers : Finalize(w) /\ job[w].full
<1>1. CASE Progress \/ UNCHANGED vars
  BY <1>1 DEF Progress, WriteOrder, vars
<1>2. ASSUME NEW r \in Refunds, CommitWalletRefund(r)
      PROVE  order = "refunded" \/ r \in rest
  BY <1>2 DEF CommitWalletRefund, WriteOrder
<1>3. ASSUME NEW r \in Refunds,
             \/ BeginRequest(r) \/ CommitRequest(r) \/ MissWalletRefund(r)
             \/ BeginRetry(r) \/ CommitRetry(r)
             \/ Tick(r) \/ Publish(r) \/ PublishUnmarked(r) \/ AckDuplicate(r)
      PROVE  order = "refunded"
  BY <1>3 DEF BeginRequest, CommitRequest, MissWalletRefund, WriteOrder,
              BeginRetry, CommitRetry, Tick, Publish, PublishUnmarked, AckDuplicate
<1>4. ASSUME NEW w \in Workers, NEW r \in Refunds, Claim(w, r) \/ ConfirmManual(w, r)
      PROVE  order = "refunded"
  BY <1>4 DEF Claim, ConfirmManual
<1>5. ASSUME NEW w \in Workers, ProviderAnswers(w) \/ Ack(w) \/ Crash(w)
      PROVE  order = "refunded"
  BY <1>5 DEF ProviderAnswers, Ack, Crash
<1>6. ASSUME NEW w \in Workers, Settle(w), ~ Finalize(w)
      PROVE  order = "refunded"
  BY <1>6 DEF Settle, ScheduleCheck, RecordProviderFailure, RequireReconciliation,
              FinalizeRejected, DiscardLateAnswer
<1>7. ASSUME NEW w \in Workers, Finalize(w)
      PROVE  job[w].full
  BY <1>7 DEF Inv, TypeOK, Held, Busy, Finalize, Settles, WriteOrder, OrderAfter,
              Refundable
<1> QED
  BY <1>1, <1>2, <1>3, <1>4, <1>5, <1>6, <1>7 DEF Next

\* A refund succeeds in the batch of a balance refund, in one that missed, or
\* in the batch that records that outcome.
LEMMA RefundSucceeds ==
  ASSUME Inv, [Next]_vars, NEW q \in Refunds, status'[q] = "succeeded"
  PROVE  \/ status[q] = "succeeded"
         \/ CommitWalletRefund(q)
         \/ MissWalletRefund(q)
         \/ \E w \in Workers : /\ Finalize(w) /\ job[w].refund = q
                               /\ job[w].answer = "succeeded"
<1> USE DEF Inv, TypeOK
<1>1. CASE Progress \/ UNCHANGED vars
  BY <1>1 DEF Progress, vars, rows
<1>2. ASSUME NEW r \in Refunds, CommitWalletRefund(r) \/ MissWalletRefund(r)
      PROVE  status[q] = "succeeded" \/ r = q
  BY <1>2 DEF CommitWalletRefund, MissWalletRefund
<1>3. ASSUME NEW r \in Refunds,
             \/ BeginRequest(r) \/ CommitRequest(r) \/ BeginRetry(r) \/ CommitRetry(r)
             \/ Tick(r) \/ Publish(r) \/ PublishUnmarked(r) \/ AckDuplicate(r)
      PROVE  status[q] = "succeeded"
  BY <1>3 DEF BeginRequest, CommitRequest, BeginRetry, CommitRetry, RetriedStatus,
              Tick, Publish, PublishUnmarked, AckDuplicate, rows
<1>4. ASSUME NEW w \in Workers, NEW r \in Refunds, Claim(w, r) \/ ConfirmManual(w, r)
      PROVE  status[q] = "succeeded"
  BY <1>4 DEF Claim, ConfirmManual
<1>5. ASSUME NEW w \in Workers, ProviderAnswers(w) \/ Ack(w) \/ Crash(w)
      PROVE  status[q] = "succeeded"
  BY <1>5 DEF ProviderAnswers, Ack, Crash, rows
<1>6. ASSUME NEW w \in Workers, Settle(w), ~ Finalize(w)
      PROVE  status[q] = "succeeded"
  BY <1>6 DEF Settle, ScheduleCheck, RecordProviderFailure, RequireReconciliation,
              FinalizeRejected, DiscardLateAnswer, rows
<1>7. ASSUME NEW w \in Workers, Finalize(w)
      PROVE  \/ status[q] = "succeeded"
             \/ job[w].refund = q /\ job[w].answer = "succeeded"
  BY <1>7 DEF Finalize
<1> HIDE DEF Inv, TypeOK
<1> QED
  BY <1>1, <1>2, <1>3, <1>4, <1>5, <1>6, <1>7 DEF Next

\* What an order paid from the balance knows of its refunds.
LEMMA WalletStep ==
  ASSUME Inv, WalletOnce, [Next]_vars
  PROVE  WalletOnce'
<1> SUFFICES ASSUME funding = "wallet", NEW q \in Refunds
             PROVE  status'[q] \in {"absent", "succeeded"}
  BY PaidStays DEF WalletOnce
<1> USE DEF Inv, TypeOK, WalletOnce
<1>1. CASE Progress \/ UNCHANGED vars
  BY <1>1 DEF Progress, vars, rows
<1>2. ASSUME NEW r \in Refunds,
             \/ BeginRequest(r) \/ CommitRequest(r) \/ CommitWalletRefund(r)
             \/ MissWalletRefund(r) \/ BeginRetry(r) \/ CommitRetry(r)
             \/ Tick(r) \/ Publish(r) \/ PublishUnmarked(r) \/ AckDuplicate(r)
      PROVE  status'[q] \in {"absent", "succeeded"}
  BY <1>2 DEF BeginRequest, CommitRequest, CommitWalletRefund, MissWalletRefund,
              BeginRetry, CommitRetry, RetriedStatus, Tick, Publish,
              PublishUnmarked, AckDuplicate, rows
<1>3. ASSUME NEW w \in Workers, NEW r \in Refunds, Claim(w, r) \/ ConfirmManual(w, r)
      PROVE  status'[q] \in {"absent", "succeeded"}
  BY <1>3 DEF Claim, Claimable, ConfirmManual
<1>4. ASSUME NEW w \in Workers, ProviderAnswers(w) \/ Ack(w) \/ Crash(w)
      PROVE  status'[q] \in {"absent", "succeeded"}
  BY <1>4 DEF ProviderAnswers, Ack, Crash, rows
<1>5. ASSUME NEW w \in Workers, Settle(w)
      PROVE  status'[q] \in {"absent", "succeeded"}
  <2>1. job[w].pc = "settle" => job[w].refund \in Refunds
    BY DEF Held, Busy
  <2>2. CASE Finalize(w) \/ RecordProviderFailure(w)
    BY <2>1, <2>2 DEF Finalize, Finalizable, RecordProviderFailure, Schedulable,
                      Settles
  <2>3. CASE \/ ScheduleCheck(w) \/ RequireReconciliation(w)
             \/ FinalizeRejected(w) \/ DiscardLateAnswer(w)
    BY <2>3 DEF ScheduleCheck, RequireReconciliation, FinalizeRejected,
                DiscardLateAnswer, rows
  <2> QED
    BY <1>5, <2>2, <2>3 DEF Settle
<1> QED
  BY <1>1, <1>2, <1>3, <1>4, <1>5 DEF Next

\* Only reading the order and its refunds makes a request's read current, and
\* it is then that the request finds whether it returns the rest.
LEMMA ReadsBegin ==
  ASSUME [Next]_vars
  PROVE  \/ reading' \subseteq reading /\ rest' = rest
         \/ \E r \in Refunds : BeginRequest(r)
<1> DEFINE Same == reading' \subseteq reading /\ rest' = rest
<1> USE DEF reads, admin
<1>1. ASSUME Progress \/ UNCHANGED vars PROVE Same
  BY <1>1 DEF Progress, WriteOrder, vars
<1>2. ASSUME NEW r \in Refunds,
             \/ CommitRequest(r) \/ CommitWalletRefund(r)
             \/ MissWalletRefund(r) \/ BeginRetry(r) \/ CommitRetry(r)
             \/ Tick(r) \/ Publish(r) \/ PublishUnmarked(r) \/ AckDuplicate(r)
      PROVE  Same
  BY <1>2 DEF CommitRequest, CommitWalletRefund, MissWalletRefund, WriteOrder,
              BeginRetry, CommitRetry, Tick, Publish, PublishUnmarked, AckDuplicate
<1>3. ASSUME NEW w \in Workers, NEW r \in Refunds, Claim(w, r) \/ ConfirmManual(w, r)
      PROVE  Same
  BY <1>3 DEF Claim, ConfirmManual
<1>4. ASSUME NEW w \in Workers, ProviderAnswers(w) \/ Settle(w) \/ Ack(w) \/ Crash(w)
      PROVE  Same
  BY <1>4 DEF ProviderAnswers, Ack, Crash, Settle, ScheduleCheck, Finalize, WriteOrder,
              RecordProviderFailure, RequireReconciliation, FinalizeRejected,
              DiscardLateAnswer
<1> HIDE DEF Same
<1>5. Same \/ \E r \in Refunds : BeginRequest(r)
  BY <1>1, <1>2, <1>3, <1>4 DEF Next
<1> QED
  BY <1>5 DEF Same

\* What a request found when it read the refunds stays true: nothing that
\* succeeded is undone before its batch.
LEMMA RestStep ==
  ASSUME Inv, WalletOnce, RestHolds, [Next]_vars
  PROVE  RestHolds'
<1> SUFFICES ASSUME funding = "wallet", NEW q \in Refunds, q \in reading', q \in rest'
             PROVE  ReturnsAll(q)'
  <2>1. rest' \subseteq Refunds
    BY InvNext DEF Inv, TypeOK
  <2> QED
    BY <2>1, PaidStays DEF RestHolds
<1>1. CASE q \in reading \cap rest
  BY <1>1, SucceededGrows DEF RestHolds
<1>2. ASSUME NEW r \in Refunds, BeginRequest(r), q \notin reading \cap rest
      PROVE  ReturnsAll(q)
  <2>1. q = r /\ status[q] = "absent" /\ Sum(Reserved) + amount[q] = Paid
    BY <1>2 DEF BeginRequest
  <2>2. Reserved = Succeeded \ {q}
    BY <2>1 DEF WalletOnce, Reserved, Succeeded
  <2> QED
    BY <2>1, <2>2, RefundsAssumption DEF ReturnsAll
<1> QED
  BY <1>1, <1>2, ReadsBegin, SucceededGrows

\* Every handler keeps the invariant: settled refunds stay settled, and the
\* batches that make an order refunded are backed by what succeeded.
LEMMA ReturnStep == ReturnInv /\ [Next]_vars => ReturnInv'
<1> SUFFICES ASSUME ReturnInv, [Next]_vars PROVE ReturnInv'
  OBVIOUS
<1> USE DEF ReturnInv
<1>1. Inv'
  BY InvNext
<1>2. FullHolds'
  <2>1. ASSUME NEW w \in Workers, job'[w].pc = "settle", job'[w].full,
               NEW r \in Refunds, r = job'[w].refund
        PROVE  job'[w].answer = "succeeded" /\ ReturnsAll(r)'
    <3>1. job'[w].answer = "succeeded" /\ ReturnsAll(r)
      BY <2>1, WorkersSettle DEF FullHolds
    <3> QED
      BY <3>1, SucceededGrows
  <2>2. \A w \in Workers : job'[w].pc = "settle" => job'[w].refund \in Refunds
    BY <1>1 DEF Inv, Held, Busy
  <2> QED
    BY <2>1, <2>2 DEF FullHolds, ReturnsAll
<1>3. WalletOnce'
  BY WalletStep
<1>4. AnswerMeansReturned'
  BY WorkersSettle, PaidStays DEF AnswerMeansReturned
<1>5. RefundedMeansReturned'
  <2> SUFFICES ASSUME order' = "refunded" PROVE Sum(Succeeded)' >= Paid
    BY DEF RefundedMeansReturned
  <2>1. /\ amount' = amount
        /\ Succeeded \in SUBSET Refunds /\ Succeeded' \in SUBSET Refunds
    BY PaidStays DEF Succeeded
  <2>2. \A S \in SUBSET Refunds : Sum(S) \in Nat
    BY SumFacts DEF Inv
  <2>3. Sum(Succeeded)' = Sum(Succeeded')
    BY <2>1 DEF Sum
  <2>4. CASE order = "refunded"
    <3>1. Sum(Succeeded) >= Paid
      BY <2>4 DEF RefundedMeansReturned
    <3> QED
      BY <2>1, <2>2, <2>3, <3>1, SucceededGrows, RefundsAssumption
  <2>5. ASSUME NEW r \in Refunds, CommitWalletRefund(r), r \in rest
        PROVE  Sum(Succeeded)' >= Paid
    <3>1. funding = "wallet" /\ r \in reading /\ status' = [status EXCEPT ![r] = "succeeded"]
      BY <2>5 DEF CommitWalletRefund
    <3>2. ReturnsAll(r)
      BY <2>5, <3>1 DEF RestHolds
    <3>3. Succeeded' = (Succeeded \ {r}) \cup {r}
      BY <3>1 DEF Inv, TypeOK, Succeeded
    <3>4. Sum((Succeeded \ {r}) \cup {r}) = Sum(Succeeded \ {r}) + amount[r]
      BY <2>1, SumFacts DEF Inv
    <3> QED
      BY <2>3, <3>2, <3>3, <3>4 DEF ReturnsAll
  <2>6. ASSUME NEW w \in Workers, Finalize(w), job[w].full
        PROVE  Sum(Succeeded)' >= Paid
    <3> DEFINE r == job[w].refund
    <3>1. job[w].pc = "settle" /\ r \in Refunds
      BY <2>6 DEF Finalize, Settles, Inv, Held, Busy
    <3>2. job[w].answer = "succeeded" /\ ReturnsAll(r)
      BY <2>6, <3>1 DEF FullHolds
    <3>3. Succeeded' = (Succeeded \ {r}) \cup {r}
      BY <2>6, <3>1, <3>2 DEF Finalize, Inv, TypeOK, Succeeded
    <3>4. Sum((Succeeded \ {r}) \cup {r}) = Sum(Succeeded \ {r}) + amount[r]
      BY <2>1, <3>1, SumFacts DEF Inv
    <3> QED
      BY <2>3, <3>2, <3>3, <3>4 DEF ReturnsAll
  <2> QED
    BY <2>4, <2>5, <2>6, OrderRefunded
<1>6. (funding # "wallet" => SucceededMeansReturned)'
  <2> SUFFICES ASSUME funding # "wallet", NEW q \in Refunds, status'[q] = "succeeded"
               PROVE  q \in returned'
    BY PaidStays DEF SucceededMeansReturned
  <2>1. CASE status[q] = "succeeded"
    BY <2>1, PaidStays DEF SucceededMeansReturned
  <2>2. ASSUME NEW w \in Workers, Finalize(w), job[w].refund = q,
               job[w].answer = "succeeded"
        PROVE  q \in returned'
    BY <2>2, PaidStays DEF Finalize, Settles, AnswerMeansReturned
  <2>3. ~ CommitWalletRefund(q) /\ ~ MissWalletRefund(q)
    BY DEF CommitWalletRefund, MissWalletRefund
  <2> QED
    BY <2>1, <2>2, <2>3, RefundSucceeds
<1>7. RestHolds'
  BY RestStep
<1> QED
  BY <1>1, <1>2, <1>3, <1>4, <1>5, <1>6, <1>7

LEMMA ReturnInit == Init => ReturnInv
<1> SUFFICES ASSUME Init PROVE ReturnInv
  OBVIOUS
<1>1. Inv
  BY InvInit
<1>2. FullHolds /\ WalletOnce /\ RestHolds /\ AnswerMeansReturned
  BY DEF Init, Idle, FullHolds, WalletOnce, RestHolds, AnswerMeansReturned
<1>3. RefundedMeansReturned /\ SucceededMeansReturned
  BY DEF Init, RefundedMeansReturned, SucceededMeansReturned
<1> QED
  BY <1>1, <1>2, <1>3 DEF ReturnInv

\* The settling of refunds keeps its invariant in every reachable state.
THEOREM ReturnInvHolds == Spec => []ReturnInv
  BY ReturnInit, ReturnStep, PTL DEF Spec

\* finalizeRefund and the balance refund make an order "refunded" only when the
\* refunds that succeeded return all that was paid: the sum read before the
\* batch may be old, but it can only have grown.
THEOREM RefundedReturnsAll == Spec => []RefundedMeansReturned
<1>1. ReturnInv => RefundedMeansReturned
  BY DEF ReturnInv
<1> QED
  BY <1>1, ReturnInvHolds, PTL

\* Except for refunds to the balance, whose batch can miss, a refund that is
\* recorded as succeeded has returned the money, as the guide for refunds by
\* hand says.
THEOREM SuccessIsPaidOut == Spec => [](funding # "wallet" => SucceededMeansReturned)
<1>1. ReturnInv => (funding # "wallet" => SucceededMeansReturned)
  BY DEF ReturnInv
<1> QED
  BY <1>1, ReturnInvHolds, PTL

-----------------------------------------------------------------------------
(***************************************************************************)
(* The ledger before the first retry by hand, duplicate or redelivery.     *)
(***************************************************************************)
\* Nothing was retried by hand, sent twice or delivered again yet, and the
\* order was not paid from the balance, whose batch can miss.
Calm ==
  /\ funding # "wallet"
  /\ budget.retry = MaxRetries
  /\ budget.repeat = MaxRepeats

\* An event or a message will make a worker look at the refund.
Waiting(r) == r \in later \cup ready \/ messages[r] > 0

\* A refund has one event or message at a time, and it waits for no one else.
Token(r) ==
  /\ messages[r] <= 1
  /\ r \in later => r \notin ready /\ messages[r] = 0 /\ ~due[r]
  /\ r \in ready => messages[r] = 0
  /\ r \in ready \/ messages[r] > 0 => due[r]
  /\ Waiting(r) => status[r] \in {"pending", "processing", "failed"} /\ ~manual[r]
  /\ manual[r] => status[r] = "processing"
  /\ status[r] = "absent" => due[r]

\* A consumer that is busy has the last attempt of a refund that nothing else
\* waits for; what an administrator confirmed is the last attempt or is void.
Consumer(w) ==
  Busy(w) =>
    IF job[w].by = "queue"
      THEN /\ Current(w)
           /\ status[job[w].refund] = "processing"
           /\ ~manual[job[w].refund]
           /\ ~Waiting(job[w].refund)
      ELSE /\ job[w].pc = "settle" /\ job[w].answer = "succeeded"
           /\ Current(w) => /\ status[job[w].refund] = "processing"
                            /\ manual[job[w].refund]

\* No retry by hand is under way, every refund has its token, and every worker
\* its refund.
Carried ==
  /\ retrying = {}
  /\ \A r \in Refunds : Token(r)
  /\ \A w \in Workers : Consumer(w)

Progressing == {r \in Refunds : InProgress(r)}

\* A worker that is to record a success knows whether it returns the rest.
FullExact(w) ==
  job[w].pc = "settle" /\ job[w].answer = "succeeded" /\ Current(w)
  => (job[w].full <=> ReturnsAll(job[w].refund))

\* At most one refund is in progress, while the order is "refunding", and it
\* fits in what was paid beside those that succeeded; so does every request
\* whose read of the order is current.
Balanced ==
  /\ \A r, q \in Progressing : r = q
  /\ RefundingWhileInProgress
  /\ Sum(Succeeded \cup Progressing) <= Paid
  /\ \A r \in reading : Sum(Succeeded) + amount[r] <= Paid
  /\ \A w \in Workers : FullExact(w)
  /\ RefundedIffReturned

\* The hand that retries and the queue that repeats are only ever used up.
Bounded == budget.retry <= MaxRetries /\ budget.repeat <= MaxRepeats

LedgerInv == ReturnInv /\ Bounded /\ (Calm => Carried /\ Balanced)

\* Time, duplicates and retries only use the bounds up, so that what is calm
\* after a step was calm before it.
LEMMA CalmBefore ==
  ASSUME TypeOK, Bounded, [Next]_vars
  PROVE  Bounded' /\ (Calm' => Calm /\ budget'.repeat = budget.repeat
                                    /\ budget'.retry = budget.retry)
<1> DEFINE Spent(f) == budget[f] > 0 /\ budget' = [budget EXCEPT ![f] = @ - 1]
<1>1. budget' = budget \/ Spent("confirm") \/ Spent("retry") \/ Spent("repeat")
  <2>1. CASE Progress \/ UNCHANGED vars
    BY <2>1 DEF Progress, vars
  <2>2. ASSUME NEW r \in Refunds,
               \/ BeginRequest(r) \/ CommitRequest(r) \/ CommitWalletRefund(r)
               \/ MissWalletRefund(r) \/ BeginRetry(r) \/ CommitRetry(r)
               \/ Tick(r) \/ Publish(r) \/ PublishUnmarked(r) \/ AckDuplicate(r)
        PROVE  budget' = budget \/ Spent("retry") \/ Spent("repeat")
    BY <2>2 DEF BeginRequest, CommitRequest, CommitWalletRefund, MissWalletRefund,
                BeginRetry, CommitRetry, Tick, Publish, PublishUnmarked, Repeat,
                AckDuplicate
  <2>3. ASSUME NEW w \in Workers, ProviderAnswers(w) \/ Settle(w) \/ Ack(w) \/ Crash(w)
        PROVE  budget' = budget \/ Spent("repeat")
    BY <2>3 DEF ProviderAnswers, Ack, Crash, Settle, ScheduleCheck, Finalize,
                RecordProviderFailure, RequireReconciliation, FinalizeRejected,
                DiscardLateAnswer, Repeat
  <2>4. ASSUME NEW w \in Workers, NEW r \in Refunds, Claim(w, r) \/ ConfirmManual(w, r)
        PROVE  budget' = budget \/ Spent("confirm")
    BY <2>4 DEF Claim, ConfirmManual
  <2> QED
    BY <2>1, <2>2, <2>3, <2>4 DEF Next
<1>2. /\ budget'.retry <= budget.retry /\ budget'.repeat <= budget.repeat
      /\ budget.retry \in Nat /\ budget.repeat \in Nat
      /\ budget'.retry \in Nat /\ budget'.repeat \in Nat
  BY <1>1 DEF TypeOK
<1>3. funding' = funding
  BY PaidStays
<1> QED
  BY <1>2, <1>3, RefundsAssumption DEF Bounded, Calm

\* What can happen while the ledger is calm: no event or message is repeated,
\* and no message is a duplicate.
LEMMA CalmActs ==
  ASSUME TypeOK, Bounded, Calm', Carried, [Next]_vars
  PROVE  \/ UNCHANGED vars \/ Progress
         \/ \E r \in Refunds :
              BeginRequest(r) \/ CommitRequest(r) \/ Tick(r) \/ Publish(r)
         \/ \E w \in Workers :
              \/ ProviderAnswers(w) \/ Settle(w) \/ Ack(w) \/ Crash(w)
              \/ \E r \in Refunds : Claim(w, r) \/ ConfirmManual(w, r)
<1>1. Calm /\ budget'.repeat = budget.repeat /\ budget'.retry = budget.retry
  BY CalmBefore
<1>2. budget \in [confirm : Nat, retry : Nat, repeat : Nat]
  BY DEF TypeOK
<1>3. ASSUME NEW r \in Refunds
      PROVE  ~ CommitWalletRefund(r) /\ ~ MissWalletRefund(r) /\ ~ BeginRetry(r)
             /\ ~ CommitRetry(r) /\ ~ PublishUnmarked(r)
  BY <1>1, <1>2 DEF Calm, CommitWalletRefund, MissWalletRefund, BeginRetry,
                    CommitRetry, Carried, PublishUnmarked, Repeat
<1>4. ASSUME NEW r \in Refunds PROVE ~ AckDuplicate(r)
  BY DEF Carried, Token, Waiting, AckDuplicate, Claimable
<1> QED
  BY <1>3, <1>4 DEF Next

\* Nothing is repeated while the ledger is calm.
LEMMA CalmMessages ==
  ASSUME TypeOK, Bounded, Calm', NEW w \in Workers, [Next]_vars,
         Crash(w) \/ FinalizeRejected(w)
  PROVE  messages' = messages /\ (Crash(w) => job[w].by = "admin")
<1>1. budget'.repeat = budget.repeat
  BY CalmBefore
<1>2. budget \in [confirm : Nat, retry : Nat, repeat : Nat]
  BY DEF TypeOK
<1> QED
  BY <1>1, <1>2 DEF Crash, FinalizeRejected, Repeat

\* While the ledger is calm every refund keeps its one event or message, and
\* every busy worker the refund that nothing else waits for.
LEMMA CarriedStep ==
  ASSUME Inv, Bounded, Calm', Carried, [Next]_vars
  PROVE  Carried'
<1> USE DEF Inv, TypeOK, Carried, rows, admin, outbox
<1>1. ASSUME Progress \/ UNCHANGED vars PROVE Carried'
  BY <1>1 DEF Progress, vars, Token, Waiting, Consumer, Busy, Current
<1>2. ASSUME NEW r \in Refunds, BeginRequest(r) PROVE Carried'
  BY <1>2 DEF BeginRequest, Token, Waiting, Consumer, Busy, Current
<1>3. ASSUME NEW r \in Refunds, CommitRequest(r) PROVE Carried'
  <2>1. status[r] = "absent" /\ ~ Waiting(r) /\ ~ manual[r] /\ due[r]
    BY <1>3 DEF CommitRequest, Reads, Token
  <2>2. ASSUME NEW q \in Refunds PROVE Token(q)'
    BY <1>3, <2>1 DEF CommitRequest, Token, Waiting
  <2>3. ASSUME NEW v \in Workers PROVE Consumer(v)'
    <3>1. Busy(v) => job[v].refund \in Refunds
      BY DEF Held
    <3>2. Busy(v) /\ job[v].refund = r => ~ Current(v)
      BY <2>1 DEF Held, Untouched, Current
    <3> QED
      BY <1>3, <2>1, <3>1, <3>2 DEF CommitRequest, Consumer, Busy, Current, Waiting
  <2> QED
    BY <1>3, <2>2, <2>3 DEF CommitRequest
<1>4. ASSUME NEW r \in Refunds, Tick(r) PROVE Carried'
  <2>1. ASSUME NEW q \in Refunds PROVE Token(q)'
    BY <1>4 DEF Tick, Token, Waiting
  <2>2. ASSUME NEW v \in Workers PROVE Consumer(v)'
    BY <1>4 DEF Tick, Consumer, Busy, Current, Waiting, Held
  <2> QED
    BY <1>4, <2>1, <2>2 DEF Tick
<1>5. ASSUME NEW r \in Refunds, Publish(r) PROVE Carried'
  <2>1. ASSUME NEW q \in Refunds PROVE Token(q)'
    BY <1>5 DEF Publish, Token, Waiting
  <2>2. ASSUME NEW v \in Workers PROVE Consumer(v)'
    BY <1>5 DEF Publish, Consumer, Busy, Current, Waiting, Held
  <2> QED
    BY <1>5, <2>1, <2>2 DEF Publish
<1>6. ASSUME NEW w \in Workers, NEW r \in Refunds, Claim(w, r) PROVE Carried'
  <2>1. ASSUME NEW q \in Refunds PROVE Token(q)'
    BY <1>6 DEF Claim, Token, Waiting
  <2>2. ASSUME NEW v \in Workers PROVE Consumer(v)'
    <3>1. CASE v = w
      <4>1. ~ Waiting(r)' /\ ~ manual[r]
        BY <1>6 DEF Claim, Claimable, Token, Waiting
      <4>2. /\ job'[w].refund = r /\ job'[w].by = "queue"
            /\ job'[w].attempt = NextAttempt(r) /\ attempt'[r] = NextAttempt(r)
            /\ status'[r] = "processing" /\ manual' = manual
        BY <1>6 DEF Claim
      <4> QED
        BY <3>1, <4>1, <4>2 DEF Consumer, Current, Waiting
    <3>2. CASE v # w
      <4>1. job'[v] = job[v]
        BY <1>6, <3>2 DEF Claim
      <4>2. CASE Busy(v) /\ job[v].refund = r
        <5>1. job[v].by # "queue"
          BY <1>6, <4>2 DEF Claim, Consumer, Waiting
        <5>2. job[v].attempt # attempt'[r]
          BY <1>6, <4>2 DEF Claim, NextAttempt, Held
        <5> QED
          BY <4>1, <4>2, <5>1, <5>2 DEF Consumer, Current, Busy
      <4>3. CASE Busy(v) /\ job[v].refund # r
        <5>1. Consumer(v) /\ job[v].refund \in Refunds
          BY <4>3 DEF Held
        <5> QED
          BY <1>6, <4>1, <4>3, <5>1 DEF Claim, Consumer, Busy, Current, Waiting
      <4> QED
        BY <4>1, <4>2, <4>3 DEF Consumer, Busy
    <3> QED
      BY <3>1, <3>2
  <2> QED
    BY <1>6, <2>1, <2>2 DEF Claim
<1>7. ASSUME NEW w \in Workers, NEW r \in Refunds, ConfirmManual(w, r) PROVE Carried'
  <2>1. ASSUME NEW q \in Refunds PROVE Token(q)'
    BY <1>7 DEF ConfirmManual, Token, Waiting
  <2>2. ASSUME NEW v \in Workers PROVE Consumer(v)'
    <3>1. CASE v = w
      <4> DEFINE whole == ReturnsAll(r)
      <4>1. job'[w] = [pc |-> "settle", refund |-> r, attempt |-> NextAttempt(r),
                       answer |-> "succeeded", full |-> whole, by |-> "admin"]
        BY <1>7 DEF ConfirmManual
      <4>2. /\ job'[w].refund = r /\ job'[w].by = "admin"
            /\ job'[w].pc = "settle" /\ job'[w].answer = "succeeded"
        <5> HIDE DEF whole
        <5> QED
          BY <4>1
      <4>3. status'[r] = "processing" /\ manual'[r]
        BY <1>7 DEF ConfirmManual
      <4> QED
        BY <3>1, <4>2, <4>3 DEF Consumer, Current
    <3>2. CASE v # w
      <4>1. job'[v] = job[v]
        BY <1>7, <3>2 DEF ConfirmManual
      <4>2. CASE Busy(v) /\ job[v].refund = r
        <5>1. job[v].by # "queue"
          BY <1>7, <4>2 DEF ConfirmManual, Consumer
        <5>2. job[v].attempt # attempt'[r]
          BY <1>7, <4>2 DEF ConfirmManual, NextAttempt, Held
        <5> QED
          BY <4>1, <4>2, <5>1, <5>2 DEF Consumer, Current, Busy
      <4>3. CASE Busy(v) /\ job[v].refund # r
        <5>1. Consumer(v) /\ job[v].refund \in Refunds
          BY <4>3 DEF Held
        <5>2. attempt'[job[v].refund] = attempt[job[v].refund]
          BY <1>7, <4>3 DEF ConfirmManual
        <5> QED
          BY <1>7, <4>1, <4>3, <5>1, <5>2 DEF ConfirmManual, Consumer, Busy, Current, Waiting
      <4> QED
        BY <4>1, <4>2, <4>3 DEF Consumer, Busy
    <3> QED
      BY <3>1, <3>2
  <2> QED
    BY <1>7, <2>1, <2>2 DEF ConfirmManual
<1>8. ASSUME NEW w \in Workers, ProviderAnswers(w) PROVE Carried'
  <2>1. ASSUME NEW q \in Refunds PROVE Token(q)'
    BY <1>8 DEF ProviderAnswers, Token, Waiting
  <2>2. ASSUME NEW v \in Workers PROVE Consumer(v)'
    <3>1. CASE v # w
      BY <1>8, <3>1 DEF ProviderAnswers, Consumer, Busy, Current, Waiting
    <3>2. CASE v = w
      <4>1. /\ Busy(w) /\ job[w].by = "queue" /\ Current(w)
            /\ status[job[w].refund] = "processing" /\ ~ manual[job[w].refund]
            /\ ~ Waiting(job[w].refund)
        BY <1>8 DEF ProviderAnswers, Busy, Consumer, Job
      <4>2. PICK answer \in Answers(w) :
              job' = [job EXCEPT ![w].pc = "settle",
                                 ![w].answer = Recorded(w, answer),
                                 ![w].full = /\ answer = "succeeded"
                                             /\ ReturnsAll(job[w].refund)]
        BY <1>8 DEF ProviderAnswers
      <4> DEFINE whole == answer = "succeeded" /\ ReturnsAll(job[w].refund)
      <4>3. job'[w] = [job[w] EXCEPT !.pc = "settle", !.answer = Recorded(w, answer),
                                     !.full = whole]
        BY <4>2
      <4>4. job[w] \in Job
        OBVIOUS
      <4>5. /\ job'[w].refund = job[w].refund /\ job'[w].by = job[w].by
            /\ job'[w].attempt = job[w].attempt
        <5> HIDE DEF whole
        <5> QED
          BY ONLY <4>3, <4>4 DEF Job
      <4>6. UNCHANGED <<rows, outbox, messages>>
        BY <1>8 DEF ProviderAnswers
      <4> QED
        BY <3>2, <4>1, <4>5, <4>6 DEF Consumer, Current, Waiting
    <3> QED
      BY <3>1, <3>2
  <2> QED
    BY <1>8, <2>1, <2>2 DEF ProviderAnswers
<1>9. ASSUME NEW w \in Workers, Ack(w) \/ Crash(w) PROVE Carried'
  <2>1. messages' = messages
    BY <1>9, CalmMessages DEF Ack
  <2>2. /\ UNCHANGED <<rows, admin, outbox>>
        /\ job' = [job EXCEPT ![w] = Idle]
    BY <1>9 DEF Ack, Crash
  <2>3. ASSUME NEW v \in Workers PROVE Consumer(v)'
    BY <2>1, <2>2 DEF Idle, Consumer, Busy, Current, Waiting
  <2> QED
    BY <2>1, <2>2, <2>3 DEF Token, Waiting
<1>10. ASSUME NEW w \in Workers, FinalizeRejected(w) \/ DiscardLateAnswer(w)
       PROVE  Carried'
  <2>1. messages' = messages
    BY <1>10, CalmMessages DEF DiscardLateAnswer
  <2>2. /\ UNCHANGED <<rows, admin, outbox>>
        /\ \/ job' = [job EXCEPT ![w] = Idle]
           \/ job' = [job EXCEPT ![w].pc = "ack"]
    BY <1>10 DEF FinalizeRejected, DiscardLateAnswer, Settles
  <2>3. ASSUME NEW v \in Workers PROVE Consumer(v)'
    BY <2>1, <2>2 DEF Idle, Consumer, Busy, Current, Waiting, Job
  <2> QED
    BY <2>1, <2>2, <2>3 DEF Token, Waiting
\* The worker that writes an outcome holds the last attempt alone.
<1>11. ASSUME NEW w \in Workers, job[w].pc = "settle", Current(w),
              job' = [job EXCEPT ![w].pc = "ack"], attempt' = attempt,
              NEW v \in Workers, NEW r \in Refunds, r = job[w].refund,
              \A q \in Refunds \ {r} : /\ Waiting(q)' <=> Waiting(q)
                                       /\ status'[q] = status[q]
                                       /\ manual'[q] = manual[q]
       PROVE  Consumer(v)'
  <2>1. CASE v = w
    BY <1>11, <2>1 DEF Consumer, Busy, Job
  <2>2. CASE v # w
    <3>1. job'[v] = job[v]
      BY <1>11, <2>2
    <3>2. Busy(w)
      BY <1>11 DEF Busy
    <3>3. CASE Busy(v) /\ job[v].refund = r
      <4>1. ~ Current(v)
        BY <1>11, <2>2, <3>2, <3>3 DEF Distinct, Current
      <4>2. job[v].by # "queue" /\ job[v].pc = "settle" /\ job[v].answer = "succeeded"
        BY <3>3, <4>1 DEF Consumer
      <4> QED
        BY <1>11, <3>1, <4>1, <4>2 DEF Consumer, Current
    <3>4. CASE Busy(v) /\ job[v].refund # r
      <4>1. Consumer(v) /\ job[v].refund \in Refunds \ {r}
        BY <3>4 DEF Held
      <4> QED
        BY <1>11, <3>1, <3>4, <4>1 DEF Consumer, Current, Busy
    <3> QED
      BY <3>1, <3>3, <3>4 DEF Consumer, Busy
  <2> QED
    BY <2>1, <2>2
<1>12. ASSUME NEW w \in Workers,
              \/ ScheduleCheck(w) \/ RecordProviderFailure(w)
              \/ RequireReconciliation(w)
       PROVE  Carried'
  <2>1. /\ job[w].pc = "settle" /\ Schedulable(w)
        /\ job[w].answer # "succeeded" /\ job' = [job EXCEPT ![w].pc = "ack"]
        /\ UNCHANGED <<attempt, messages, retrying>>
    BY <1>12 DEF ScheduleCheck, RecordProviderFailure, RequireReconciliation, Settles
  <2>2. /\ job[w].refund \in Refunds /\ ~ Waiting(job[w].refund)
        /\ status[job[w].refund] = "processing"
    BY <2>1 DEF Consumer, Busy, Held, Schedulable, Job
  <2> DEFINE r == job[w].refund
  <2>3. ASSUME NEW q \in Refunds PROVE Token(q)'
    <3>1. CASE q = r
      BY <1>12, <2>1, <2>2, <3>1 DEF ScheduleCheck, RecordProviderFailure,
         RequireReconciliation, Scheduled, Token, Waiting
    <3>2. CASE q # r
      BY <1>12, <2>1, <2>2, <3>2 DEF ScheduleCheck, RecordProviderFailure,
         RequireReconciliation, Scheduled, Token, Waiting
    <3> QED
      BY <3>1, <3>2
  <2>4. \A q \in Refunds \ {r} : /\ Waiting(q)' <=> Waiting(q)
                                 /\ status'[q] = status[q] /\ manual'[q] = manual[q]
    BY <1>12, <2>1, <2>2 DEF ScheduleCheck, RecordProviderFailure,
       RequireReconciliation, Scheduled, Waiting
  <2>5. ASSUME NEW v \in Workers PROVE Consumer(v)'
    BY <1>11, <2>1, <2>2, <2>4 DEF Schedulable
  <2> QED
    BY <2>1, <2>3, <2>5
<1>13. ASSUME NEW w \in Workers, Finalize(w) PROVE Carried'
  <2>1. /\ job[w].pc = "settle" /\ Finalizable(w)
        /\ job' = [job EXCEPT ![w].pc = "ack"]
        /\ UNCHANGED <<attempt, messages, retrying, outbox>>
    BY <1>13 DEF Finalize, Settles
  <2>2. job[w].refund \in Refunds /\ ~ Waiting(job[w].refund)
    BY <2>1 DEF Consumer, Busy, Held, Finalizable, Token
  <2> DEFINE r == job[w].refund
  <2>3. ASSUME NEW q \in Refunds PROVE Token(q)'
    BY <1>13, <2>1, <2>2 DEF Finalize, Settles, Final, Token, Waiting
  <2>4. \A q \in Refunds \ {r} : /\ Waiting(q)' <=> Waiting(q)
                                 /\ status'[q] = status[q] /\ manual'[q] = manual[q]
    BY <1>13, <2>1, <2>2 DEF Finalize, Waiting
  <2>5. ASSUME NEW v \in Workers PROVE Consumer(v)'
    BY <1>11, <2>1, <2>2, <2>4 DEF Finalizable
  <2> QED
    BY <2>1, <2>3, <2>5
<1> HIDE DEF Inv, TypeOK, Carried, rows, admin, outbox
<1>14. TypeOK
  BY DEF Inv
<1> QED
  BY <1>1, <1>2, <1>3, <1>4, <1>5, <1>6, <1>7, <1>8, <1>9, <1>10, <1>12, <1>13,
     <1>14, CalmActs DEF Settle

\* Attempts are counted up by claims and confirmations, and never down.
LEMMA AttemptsGrow ==
  ASSUME Inv, [Next]_vars, NEW q \in Refunds
  PROVE  attempt[q] <= attempt'[q]
<1> USE DEF Inv, TypeOK
<1>1. ASSUME NEW w \in Workers, NEW r \in Refunds, Claim(w, r) \/ ConfirmManual(w, r)
      PROVE  attempt[q] <= attempt'[q]
  BY <1>1 DEF Claim, ConfirmManual, NextAttempt
<1>2. ASSUME NEW r \in Refunds,
             \/ BeginRequest(r) \/ CommitRequest(r) \/ CommitWalletRefund(r)
             \/ MissWalletRefund(r) \/ BeginRetry(r) \/ CommitRetry(r)
             \/ Tick(r) \/ Publish(r) \/ PublishUnmarked(r) \/ AckDuplicate(r)
      PROVE  attempt' = attempt
  BY <1>2 DEF BeginRequest, CommitRequest, CommitWalletRefund, MissWalletRefund,
              BeginRetry, CommitRetry, Tick, Publish, PublishUnmarked,
              AckDuplicate, rows
<1>3. ASSUME NEW w \in Workers, ProviderAnswers(w) \/ Settle(w) \/ Ack(w) \/ Crash(w)
      PROVE  attempt' = attempt
  BY <1>3 DEF ProviderAnswers, Ack, Crash, Settle, ScheduleCheck, Finalize,
              RecordProviderFailure, RequireReconciliation, FinalizeRejected,
              DiscardLateAnswer, rows
<1>4. CASE Progress \/ UNCHANGED vars
  BY <1>4 DEF Progress, vars, rows
<1> HIDE DEF Inv, TypeOK
<1>5. attempt[q] \in Nat
  BY DEF Inv, TypeOK
<1> QED
  BY <1>1, <1>2, <1>3, <1>4, <1>5 DEF Next

\* While no other refund succeeds, a worker's knowledge of the rest stays true.
LEMMA FullStaysExact ==
  ASSUME Inv, [Next]_vars, Succeeded' = Succeeded,
         \A w \in Workers : FullExact(w)
  PROVE  \A w \in Workers : FullExact(w)'
<1> SUFFICES ASSUME NEW w \in Workers, job'[w].pc = "settle",
                    job'[w].answer = "succeeded", Current(w)',
                    NEW r, r = job'[w].refund
             PROVE  job'[w].full <=> ReturnsAll(r)'
  BY DEF FullExact, ReturnsAll
<1>1. ReturnsAll(r)' <=> ReturnsAll(r)
  BY PaidStays DEF ReturnsAll, Sum
<1>2. CASE job'[w] = job[w]
  <2>1. r \in Refunds /\ job[w].attempt <= attempt[r] /\ job[w].attempt \in Nat
    BY <1>2 DEF Inv, TypeOK, Job, Held, Busy
  <2>2. attempt[r] <= attempt'[r] /\ attempt[r] \in Nat /\ attempt'[r] \in Nat
    BY <2>1, AttemptsGrow, InvNext DEF Inv, TypeOK
  <2>3. job[w].attempt = attempt'[r]
    BY <1>2 DEF Current
  <2>4. Current(w)
    BY <1>2, <2>1, <2>2, <2>3 DEF Current
  <2> QED
    BY <1>1, <1>2, <2>4 DEF FullExact
<1>3. CASE job'[w] # job[w]
  BY <1>1, <1>3, WorkersSettle
<1> QED
  BY <1>2, <1>3

\* The steps that begin a refund of the order or end it: all the others leave
\* what is in progress and what has succeeded as they are.
LEMMA LedgerMoves ==
  ASSUME Inv, Bounded, Calm', Carried, [Next]_vars
  PROVE  \/ /\ Succeeded' = Succeeded /\ Progressing' = Progressing
            /\ order' = order
            /\ \/ reading' = reading
               \/ \E r \in Refunds : BeginRequest(r)
         \/ /\ Succeeded' = Succeeded /\ Progressing' = Progressing
            /\ order \in Refundable /\ order' \in Refundable /\ reading' = {}
         \/ \E r \in reading :
              /\ r \notin Progressing \cup Succeeded
              /\ Succeeded' = Succeeded /\ Progressing' = Progressing \cup {r}
              /\ order' = "refunding" /\ reading' = {}
         \/ \E w \in Workers :
              /\ Finalize(w) /\ job[w].refund \in Progressing \ Succeeded
              /\ Progressing' = Progressing \ {job[w].refund}
              /\ Succeeded' = IF job[w].answer = "succeeded"
                              THEN Succeeded \cup {job[w].refund} ELSE Succeeded
<1> USE DEF Inv, TypeOK, Succeeded, Progressing, InProgress
<1>1. CASE UNCHANGED vars
  BY <1>1 DEF vars, rows, admin, reads, outbox
<1>2. CASE Progress
  BY <1>2 DEF Progress, WriteOrder, Refundable, rows, outbox
<1>3. ASSUME NEW r \in Refunds, BeginRequest(r) \/ Tick(r) \/ Publish(r)
      PROVE  /\ Succeeded' = Succeeded /\ Progressing' = Progressing
             /\ order' = order
             /\ BeginRequest(r) \/ reading' = reading
  <2>1. CASE BeginRequest(r)
    BY <2>1 DEF BeginRequest, rows, outbox
  <2>2. CASE Tick(r)
    BY <2>2 DEF Tick, admin, reads
  <2>3. CASE Publish(r)
    BY <2>3 DEF Publish, rows, admin, reads
  <2> QED
    BY <1>3, <2>1, <2>2, <2>3
<1>4. ASSUME NEW r \in Refunds, CommitRequest(r)
      PROVE  /\ r \in reading /\ r \notin Progressing \cup Succeeded
             /\ Succeeded' = Succeeded /\ Progressing' = Progressing \cup {r}
             /\ order' = "refunding" /\ reading' = {}
  <2>1. status[r] = "absent" /\ r \in reading
    BY <1>4 DEF CommitRequest, Reads
  <2> QED
    BY <1>4, <2>1 DEF CommitRequest, WriteOrder
<1>5. ASSUME NEW w \in Workers, NEW r \in Refunds, Claim(w, r) \/ ConfirmManual(w, r)
      PROVE  /\ Succeeded' = Succeeded /\ Progressing' = Progressing
             /\ order' = order /\ reading' = reading
  BY <1>5 DEF Claim, Claimable, ConfirmManual, rows, admin, reads, outbox
<1>6. ASSUME NEW w \in Workers, ProviderAnswers(w) \/ Ack(w) \/ Crash(w)
      PROVE  /\ Succeeded' = Succeeded /\ Progressing' = Progressing
             /\ order' = order /\ reading' = reading
  <2>1. messages' = messages
    BY <1>6, CalmMessages DEF ProviderAnswers, Ack
  <2> QED
    BY <1>6, <2>1 DEF ProviderAnswers, Ack, Crash, rows, admin, reads, outbox
<1>7. ASSUME NEW w \in Workers, Settle(w), ~ Finalize(w)
      PROVE  /\ Succeeded' = Succeeded /\ Progressing' = Progressing
             /\ order' = order /\ reading' = reading
  <2>1. CASE FinalizeRejected(w) \/ DiscardLateAnswer(w)
    <3>1. messages' = messages
      BY <2>1, CalmMessages DEF DiscardLateAnswer
    <3> QED
      BY <2>1, <3>1 DEF FinalizeRejected, DiscardLateAnswer, rows, admin, reads, outbox
  <2>2. CASE ScheduleCheck(w) \/ RecordProviderFailure(w) \/ RequireReconciliation(w)
    <3>1. job[w].refund \in Refunds
      BY <2>2 DEF ScheduleCheck, RecordProviderFailure, RequireReconciliation,
         Settles, Held, Busy
    <3> QED
      BY <2>2, <3>1 DEF ScheduleCheck, RecordProviderFailure, RequireReconciliation,
         Schedulable, Scheduled, admin, reads, outbox
  <2> QED
    BY <1>7, <2>1, <2>2 DEF Settle
<1>8. ASSUME NEW w \in Workers, Finalize(w)
      PROVE  /\ job[w].refund \in Progressing \ Succeeded
             /\ Progressing' = Progressing \ {job[w].refund}
             /\ Succeeded' = IF job[w].answer = "succeeded"
                             THEN Succeeded \cup {job[w].refund} ELSE Succeeded
  <2> DEFINE r == job[w].refund
  <2>1. /\ job[w].pc = "settle" /\ job[w].answer \in Final /\ Current(w)
        /\ status' = [status EXCEPT ![r] = job[w].answer]
        /\ UNCHANGED <<outbox, messages>>
    BY <1>8 DEF Finalize, Settles, Finalizable
  <2>2. r \in Refunds /\ status[r] = "processing" /\ ~ Waiting(r)
    BY <2>1 DEF Carried, Consumer, Busy, Held, Token
  <2> QED
    BY <2>1, <2>2 DEF Waiting, Final, outbox
<1> HIDE DEF Inv, TypeOK, Succeeded, Progressing
<1>9. TypeOK
  BY DEF Inv
<1> QED
  BY <1>1, <1>2, <1>3, <1>4, <1>5, <1>6, <1>7, <1>8, <1>9, CalmActs

\* While the ledger is calm, what is requested, in progress and returned stays
\* within what was paid, and the order's status tells what is in progress.
LEMMA BalancedStep ==
  ASSUME ReturnInv, Bounded, Calm', Carried, Balanced, [Next]_vars
  PROVE  Balanced'
<1>1. Inv /\ TypeOK /\ TypeOK' /\ amount' = amount
  BY InvNext, PaidStays DEF ReturnInv, Inv
<1> DEFINE S == Succeeded
           P == Progressing
           T == Succeeded'
           Q == Progressing'
<1>2. /\ S \in SUBSET Refunds /\ P \in SUBSET Refunds
      /\ T \in SUBSET Refunds /\ Q \in SUBSET Refunds
  BY DEF Succeeded, Progressing
<1>3. /\ \A X \in SUBSET Refunds : Sum(X) \in Nat
      /\ \A X \in SUBSET Refunds, r \in Refunds :
           r \notin X => Sum(X \cup {r}) = Sum(X) + amount[r]
      /\ \A r \in Refunds : amount[r] \in Nat
  BY <1>1, SumFacts
<1>4. /\ \A r, q \in P : r = q
      /\ (order = "refunding") <=> P # {}
      /\ Sum(S \cup P) <= Paid
      /\ \A r \in reading : Sum(S) + amount[r] <= Paid
      /\ \A w \in Workers : FullExact(w)
      /\ (order = "refunded") <=> (Sum(S) = Paid)
  BY DEF Balanced, RefundingWhileInProgress, Progressing, RefundedIffReturned
<1>5. SUFFICES /\ \A r, q \in Q : r = q
               /\ (order' = "refunding") <=> Q # {}
               /\ Sum(T \cup Q) <= Paid
               /\ \A r \in reading' : Sum(T) + amount[r] <= Paid
               /\ \A w \in Workers : FullExact(w)'
               /\ (order' = "refunded") <=> (Sum(T) = Paid)
  <2>1. Sum(Succeeded)' = Sum(T) /\ Sum(Succeeded \cup Progressing)' = Sum(T \cup Q)
    BY <1>1 DEF Sum
  <2> QED
    BY <1>1, <2>1 DEF Balanced, RefundingWhileInProgress, Progressing,
       RefundedIffReturned
<1>6. T = S => \A w \in Workers : FullExact(w)'
  BY <1>1, <1>4, FullStaysExact
<1>7. Paid \in Nat \ {0}
  BY RefundsAssumption
<1>8. order \in Refundable => P = {} /\ Sum(S) # Paid
  BY <1>4 DEF Refundable
<1>9. \A r \in reading : order \in Refundable /\ r \in Refunds
  BY <1>1 DEF Inv, Reads, TypeOK
<1>10. \A r \in Refunds : r \in Reserved => r \in S \cup P
  BY DEF Reserved, Succeeded, Progressing, InProgress
<1>11. \A r \in Refunds : r \in S => r \in Reserved
  BY DEF Reserved, Succeeded
<1>12. Reserved \in SUBSET Refunds
  BY DEF Reserved
<1> DEFINE Goal == /\ \A r, q \in Q : r = q
                   /\ (order' = "refunding") <=> Q # {}
                   /\ Sum(T \cup Q) <= Paid
                   /\ \A r \in reading' : Sum(T) + amount[r] <= Paid
                   /\ \A w \in Workers : FullExact(w)'
                   /\ (order' = "refunded") <=> (Sum(T) = Paid)
<1>13. ASSUME T = S, Q = P, order' = order, reading' = reading PROVE Goal
  BY <1>4, <1>6, <1>13
<1>14. ASSUME T = S, Q = P, order' = order, NEW r \in Refunds, BeginRequest(r)
       PROVE  Goal
  <2>1. order \in Refundable /\ Sum(Reserved) + amount[r] <= Paid
        /\ reading' = reading \cup {r}
    BY <1>14 DEF BeginRequest
  <2>2. Reserved = S
    BY <1>2, <1>8, <1>10, <1>11, <1>12, <2>1
  <2> QED
    BY <1>4, <1>6, <1>14, <2>1, <2>2
<1>15. ASSUME T = S, Q = P, order \in Refundable, order' \in Refundable,
              reading' = {}
       PROVE  Goal
  BY <1>4, <1>6, <1>8, <1>15 DEF Refundable
<1>16. ASSUME NEW r \in reading, r \notin P \cup S, T = S, Q = P \cup {r},
              order' = "refunding", reading' = {}
       PROVE  Goal
  <2>1. P = {} /\ Sum(S) # Paid /\ r \in Refunds
    BY <1>8, <1>9
  <2>2. Sum(T \cup Q) = Sum(S) + amount[r]
    BY <1>2, <1>3, <1>16, <2>1
  <2> QED
    BY <1>4, <1>6, <1>16, <2>1, <2>2
<1>17. ASSUME NEW w \in Workers, Finalize(w), job[w].refund \in P \ S,
              Q = P \ {job[w].refund},
              T = IF job[w].answer = "succeeded" THEN S \cup {job[w].refund} ELSE S
       PROVE  Goal
  <2> DEFINE r == job[w].refund
  <2>1. /\ job[w].pc = "settle" /\ Current(w) /\ order' = OrderAfter(w)
        /\ reading' = {} /\ attempt' = attempt /\ status[r] = "processing"
        /\ job' = [job EXCEPT ![w].pc = "ack"] /\ r \in Refunds
    <3>1. /\ job[w].pc = "settle" /\ Current(w) /\ order' = OrderAfter(w)
          /\ reading' = {} /\ attempt' = attempt
          /\ job' = [job EXCEPT ![w].pc = "ack"]
      BY <1>17 DEF Finalize, Settles, Finalizable, WriteOrder
    <3> QED
      BY <1>2, <1>17, <3>1 DEF Carried, Consumer, Busy
  <2>2. P = {r} /\ Q = {}
    BY <1>4, <1>17
  <2>3. before[r] \in Refundable /\ "refunding" \notin Refundable
        /\ "refunded" \notin Refundable
    BY <1>1, <2>1 DEF TypeOK, Refundable
  <2>4. Sum(S) # Paid /\ Sum(S \cup {r}) = Sum(S) + amount[r]
        /\ Sum(S \cup {r}) <= Paid
    BY <1>2, <1>3, <1>4, <1>17, <2>1, <2>2
  <2>5. CASE job[w].answer = "succeeded"
    <3>1. job[w].full <=> Sum(S \ {r}) + amount[r] >= Paid
      BY <1>4, <2>1, <2>5 DEF FullExact, ReturnsAll
    <3>2. S \ {r} = S
      BY <1>17
    <3>3. T = S \cup {r} /\ T \cup Q = S \cup {r}
      BY <1>17, <2>2, <2>5
    <3>4. job[w].full <=> Sum(T) = Paid
      <4> DEFINE n == Sum(S)
                 m == amount[r]
      <4>1. n \in Nat /\ m \in Nat /\ n + m <= Paid /\ Sum(T) = n + m
        BY <1>2, <1>3, <2>1, <2>4, <3>3
      <4>2. job[w].full <=> n + m >= Paid
        BY <3>1, <3>2, Zenon
      <4> HIDE DEF n, m
      <4>3. n + m >= Paid <=> Sum(T) = Paid
        BY <1>7, <4>1
      <4> QED
        BY <4>2, <4>3, Zenon
    <3>5. (order' = "refunded" <=> Sum(T) = Paid) /\ order' # "refunding"
      BY <2>1, <2>3, <3>4 DEF OrderAfter
    <3>6. ASSUME NEW v \in Workers PROVE FullExact(v)'
      <4>1. CASE v = w
        BY <1>1, <2>1, <4>1 DEF FullExact, TypeOK, Job
      <4>2. CASE v # w
        <5>1. job'[v] = job[v]
          BY <1>1, <2>1, <4>2 DEF TypeOK
        <5>2. ~ (Busy(v) /\ Current(v) /\ job[v].refund = r)
          BY <1>1, <2>1, <4>2 DEF Inv, Distinct, Busy, Current
        <5>3. Busy(v) /\ Current(v) => job[v].refund \in P
          BY <1>1 DEF Carried, Consumer, Inv, Held, Progressing, InProgress
        <5>4. ~ (Busy(v) /\ Current(v))
          BY <2>2, <5>2, <5>3
        <5> QED
          BY <2>1, <5>1, <5>4 DEF FullExact, Busy, Current
      <4> QED
        BY <4>1, <4>2
    <3> QED
      BY <2>1, <2>2, <2>4, <3>3, <3>5, <3>6
  <2>6. CASE job[w].answer # "succeeded"
    <3>1. ~ job[w].full
      BY <2>1, <2>6 DEF ReturnInv, FullHolds
    <3>2. T = S /\ T \cup Q = S
      BY <1>17, <2>2, <2>6
    <3>3. Sum(S) <= Paid
      BY <1>2, <1>3, <1>7, <2>1, <2>4
    <3> QED
      BY <1>6, <2>1, <2>2, <2>3, <2>4, <3>1, <3>2, <3>3 DEF OrderAfter
  <2> QED
    BY <2>5, <2>6
<1> HIDE DEF Goal
<1>18. Goal
  BY <1>1, <1>13, <1>14, <1>15, <1>16, <1>17, LedgerMoves
<1> QED
  BY <1>18 DEF Goal

\* The ledger is calm and balanced until the first retry by hand, duplicate or
\* redelivery.
LEMMA LedgerStep == LedgerInv /\ [Next]_vars => LedgerInv'
<1> SUFFICES ASSUME LedgerInv, [Next]_vars PROVE LedgerInv'
  OBVIOUS
<1>1. ReturnInv /\ Inv /\ TypeOK /\ Bounded
  BY DEF LedgerInv, ReturnInv, Inv
<1>2. ReturnInv' /\ Bounded'
  BY <1>1, ReturnStep, CalmBefore
<1>3. ASSUME Calm' PROVE Carried' /\ Balanced'
  <2>1. Carried /\ Balanced
    BY <1>1, <1>3, CalmBefore DEF LedgerInv
  <2> QED
    BY <1>1, <1>3, <2>1, CarriedStep, BalancedStep
<1> QED
  BY <1>2, <1>3 DEF LedgerInv

LEMMA LedgerInit == Init => LedgerInv
<1> SUFFICES ASSUME Init PROVE LedgerInv
  OBVIOUS
<1> USE RefundsAssumption
<1>1. ReturnInv
  BY ReturnInit
<1>2. Bounded /\ budget.retry = MaxRetries
  BY DEF Init, Bounded
<1>3. Carried
  BY DEF Init, Carried, Token, Waiting, Consumer, Busy, Idle
<1>4. Progressing = {} /\ Succeeded = {}
  BY DEF Init, Progressing, InProgress, Succeeded
<1>5. Sum({}) = 0
  BY SumEmpty DEF Sum
<1>6. Balanced
  <2>1. \A w \in Workers : FullExact(w)
    BY DEF Init, Idle, FullExact
  <2>2. RefundingWhileInProgress /\ order = "paid" /\ reading = {}
    BY <1>4 DEF Init, RefundingWhileInProgress, Progressing
  <2>3. Succeeded \cup Progressing = {}
    BY <1>4
  <2> QED
    BY <1>4, <1>5, <2>1, <2>2, <2>3 DEF Balanced, RefundedIffReturned
<1> QED
  BY <1>1, <1>2, <1>3, <1>6 DEF LedgerInv

\* What the ledger of a calm order keeps holds in every reachable state.
THEOREM LedgerInvHolds == Spec => []LedgerInv
  BY LedgerInit, LedgerStep, PTL DEF Spec

\* requestShopRefund reads what is reserved and commits with a compare-and-set
\* on the order: two requests that read the same balance never reserve more
\* than was paid, as long as nothing was retried by hand or repeated.
THEOREM CalmReservesWithinPaid == Spec => [](Calm => ReservedWithinPaid)
<1>1. LedgerInv => (Calm => ReservedWithinPaid)
  <2> SUFFICES ASSUME LedgerInv, Calm PROVE Sum(Reserved) <= Paid
    BY DEF ReservedWithinPaid
  <2>1. TypeOK /\ Balanced
    BY DEF LedgerInv, ReturnInv, Inv
  <2> DEFINE C == Succeeded \cup Progressing
  <2>2. Reserved \subseteq C /\ C \in SUBSET Refunds /\ Reserved \in SUBSET Refunds
    BY DEF Reserved, Succeeded, Progressing, InProgress
  <2>3. Sum(Reserved) <= Sum(C) /\ Sum(Reserved) \in Nat /\ Sum(C) \in Nat
    BY <2>1, <2>2, SumFacts
  <2>4. Sum(C) <= Paid
    BY <2>1 DEF Balanced
  <2> QED
    BY <2>3, <2>4, RefundsAssumption
<1> QED
  BY <1>1, LedgerInvHolds, PTL

\* The order is "refunding" exactly while a refund waits for an event, a
\* message, a provider's answer or a confirmation, until the first retry by
\* hand, duplicate or redelivery.
THEOREM CalmRefundingInProgress == Spec => [](Calm => RefundingWhileInProgress)
<1>1. LedgerInv => (Calm => RefundingWhileInProgress)
  BY DEF LedgerInv, Balanced
<1> QED
  BY <1>1, LedgerInvHolds, PTL

\* finalizeRefund makes the order "refunded" exactly with the refund that
\* returns the rest of what was paid, although it sums the other refunds before
\* its batch, until the first retry by hand, duplicate or redelivery.
THEOREM CalmRefundedIffReturned == Spec => [](Calm => RefundedIffReturned)
<1>1. LedgerInv => (Calm => RefundedIffReturned)
  BY DEF LedgerInv, Balanced
<1> QED
  BY <1>1, LedgerInvHolds, PTL

=============================================================================
