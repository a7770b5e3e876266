------------------------------- MODULE Refunds -------------------------------
(***************************************************************************)
(* The refund ledger of one paid shop order                                *)
(* (features/shop-payments/server/refunds.ts): administrators request,     *)
(* retry and confirm refunds; queue consumers claim a refund row, call the *)
(* payment provider and record the answer; the outbox publisher turns      *)
(* pending events into queue messages, more than once when two publishers  *)
(* read the same rows.                                                     *)
(*                                                                         *)
(* A D1 batch is one action.  What the code reads before a batch and uses  *)
(* inside it is kept in the job of the worker, so that it may be stale.    *)
(* The order's version column is not counted: every write of the order row *)
(* increments it, so a compare-and-set on it succeeds exactly when the     *)
(* order was not written since it was read.  `reading' holds the requests  *)
(* whose read is still current and `behind' those whose read is one write  *)
(* old: the batch of a balance refund inserts its row when the version is  *)
(* the one it would have written itself.  `rest' keeps what such a request *)
(* computed from the refunds it read, which may be fewer than there are    *)
(* when its batch runs.                                                    *)
(*                                                                         *)
(* Each definition whose comment begins with SLIP is a wrong variant of    *)
(* the one that follows it, used to see that the properties notice.        *)
(***************************************************************************)
EXTENDS Naturals, FiniteSets, Sums

CONSTANTS
  Refunds,      \* refund rows that may be created for the order
  Workers,      \* concurrent invocations of the refund handlers
  None,         \* no refund
  Paid,         \* paid_minor of the order
  Amounts,      \* the amounts the refunds may be requested with
  Fundings,     \* how the order may have been paid
  MaxAttempts,  \* attempts after which an unavailable provider is final (5)
  MaxPending,   \* bound: a provider answers "pending" only before this attempt
  MaxConfirms,  \* bound: calls of completeManualShopRefund
  MaxRetries,   \* bound: calls of retryShopRefund
  MaxRepeats    \* bound: messages sent twice or delivered again

ASSUME RefundsAssumption ==
  /\ IsFiniteSet(Refunds)
  /\ Paid \in Nat \ {0}
  /\ Amounts \subseteq [Refunds -> Nat \ {0}]
  /\ Fundings \subseteq {"automatic", "zpay", "manual", "wallet"}
  /\ None \notin Refunds
  /\ MaxAttempts \in Nat \ {0}
  /\ {MaxPending, MaxConfirms, MaxRetries, MaxRepeats} \subseteq Nat

VARIABLES
  funding,   \* what paid the order: a channel that refunds by itself, ZPAY
             \* (which has no refund query), a channel refunded by hand, or
             \* the customer's balance
  amount,    \* amount_minor of each refund
  order,     \* shop_orders.status
  status,    \* refunds.status, "absent" before the row is inserted
  attempt,   \* refunds.attempt_count
  before,    \* refunds.order_status_before
  manual,    \* refunds.failure_code = 'manual_action_required'
  due,       \* refunds.next_attempt_at is NULL or in the past
  traded,    \* provider_refund_id is the trade number of the ZPAY payment
  reading,   \* refund requests that hold a current read of the order
  behind,    \* refund requests whose read is one write old
  rest,      \* refund requests that read that they return all that is left
  retrying,  \* retries that have read a failed refund
  later,     \* refunds with an outbox event that is not due yet
  ready,     \* refunds with a pending outbox event that is due
  messages,  \* refund messages in the queue
  job,       \* what each worker is doing
  returned,  \* refunds whose money was returned to the customer (observer)
  budget     \* what is left of the bounds

paid == <<funding, amount>>
rows == <<status, attempt, before, manual, due, traded>>
reads == <<reading, behind, rest>>
admin == <<reads, retrying>>
outbox == <<later, ready>>
vars == <<paid, order, rows, admin, outbox, messages, job, returned, budget>>

Refundable == {"paid", "fulfilling", "completed", "failed"}
OrderStatus == Refundable \cup {"refunding", "refunded"}
RefundStatus ==
  {"absent", "pending", "processing", "failed", "succeeded", "cancelled"}
Answer ==
  {"succeeded", "failed", "cancelled", "pending", "unavailable", "ambiguous"}

Idle == [pc |-> "idle", refund |-> None, attempt |-> 0, answer |-> "none",
         full |-> FALSE, by |-> "queue"]
Job == [pc : {"idle", "call", "settle", "ack"}, refund : Refunds \cup {None},
        attempt : Nat, answer : Answer \cup {"none"}, full : BOOLEAN,
        by : {"queue", "admin"}]

Sum(S) == SumOver(amount, S)
Reserved == {r \in Refunds : status[r] \in {"pending", "processing", "succeeded"}}
Succeeded == {r \in Refunds : status[r] = "succeeded"}

Busy(w) == job[w].pc \in {"call", "settle"}

Init ==
  /\ funding \in Fundings
  /\ amount \in Amounts
  /\ order = "paid"
  /\ status = [r \in Refunds |-> "absent"]
  /\ attempt = [r \in Refunds |-> 0]
  /\ before = [r \in Refunds |-> "paid"]
  /\ manual = [r \in Refunds |-> FALSE]
  /\ due = [r \in Refunds |-> TRUE]
  /\ traded = [r \in Refunds |-> FALSE]
  /\ reading = {}
  /\ behind = {}
  /\ rest = {}
  /\ retrying = {}
  /\ later = {}
  /\ ready = {}
  /\ messages = [r \in Refunds |-> 0]
  /\ job = [w \in Workers |-> Idle]
  /\ returned = {}
  /\ budget = [confirm |-> MaxConfirms, retry |-> MaxRetries,
               repeat |-> MaxRepeats]

-----------------------------------------------------------------------------
(***************************************************************************)
(* The order row.  Every write of it, also by the delivery of its items,   *)
(* makes the reads that requests hold stale.                               *)
(***************************************************************************)
\* SLIP: the compare-and-set looks at the status only.
WriteOrderByStatus(s) == order' = s /\ UNCHANGED <<reading, behind>>

WriteOrder(s) == order' = s /\ reading' = {} /\ behind' = reading

Progress ==
  /\ order \in {"paid", "fulfilling"}
  /\ \E s \in {"fulfilling", "completed"} : WriteOrder(s)
  /\ UNCHANGED <<paid, rows, rest, retrying, outbox, messages, job, returned,
                 budget>>

-----------------------------------------------------------------------------
(***************************************************************************)
(* Requests.  requestShopRefund reads the order and the refunds that       *)
(* reserve a part of it, then commits with a compare-and-set on the order. *)
(***************************************************************************)
BeginRequest(r) ==
  /\ status[r] = "absent"
  /\ order \in Refundable
  /\ Sum(Reserved) + amount[r] <= Paid
  /\ reading' = reading \cup {r}
  /\ behind' = behind \ {r}
  /\ rest' = IF Sum(Reserved) + amount[r] = Paid THEN rest \cup {r} ELSE rest \ {r}
  /\ UNCHANGED <<paid, order, rows, retrying, outbox, messages, job, returned,
                 budget>>

CommitRequest(r) ==
  /\ funding # "wallet"
  /\ r \in reading
  /\ status' = [status EXCEPT ![r] =
                  IF funding = "manual" THEN "processing" ELSE "pending"]
  /\ before' = [before EXCEPT ![r] = order]
  /\ manual' = [manual EXCEPT ![r] = funding = "manual"]
  /\ WriteOrder("refunding")
  /\ ready' = IF funding = "manual" THEN ready ELSE ready \cup {r}
  /\ UNCHANGED <<paid, attempt, due, traded, rest, retrying, later, messages,
                 job, returned, budget>>

\* An order paid from the balance is refunded to the balance in one batch; what
\* the order becomes was decided when the other refunds were read.
CommitWalletRefund(r) ==
  /\ funding = "wallet"
  /\ r \in reading
  /\ status' = [status EXCEPT ![r] = "succeeded"]
  /\ returned' = returned \cup {r}
  /\ WriteOrder(IF r \in rest THEN "refunded" ELSE order)
  /\ UNCHANGED <<paid, attempt, before, manual, due, traded, rest, retrying,
                 outbox, messages, job, budget>>

\* The batch that misses its compare-and-set credits nothing and throws, but
\* its row is inserted when another write gave the order the version it meant
\* to write.
MissWalletRefund(r) ==
  /\ funding = "wallet"
  /\ r \in behind
  /\ status[r] = "absent"
  /\ status' = [status EXCEPT ![r] = "succeeded"]
  /\ behind' = behind \ {r}
  /\ UNCHANGED <<paid, order, attempt, before, manual, due, traded, reading,
                 rest, retrying, outbox, messages, job, returned, budget>>

-----------------------------------------------------------------------------
(***************************************************************************)
(* Retries.  retryShopRefund reads a failed refund, then moves the order   *)
(* back to "refunding" whatever its status is, and schedules the refund.   *)
(***************************************************************************)
BeginRetry(r) ==
  /\ budget.retry > 0
  /\ status[r] = "failed"
  /\ r \notin retrying
  /\ retrying' = retrying \cup {r}
  /\ budget' = [budget EXCEPT !.retry = @ - 1]
  /\ UNCHANGED <<paid, order, rows, reads, outbox, messages, job, returned>>

\* SLIP: the update of the refund has no status in its WHERE clause.
RetriedAnyStatus(r) == "pending"

RetriedStatus(r) == IF status[r] = "failed" THEN "pending" ELSE status[r]

CommitRetry(r) ==
  /\ r \in retrying
  /\ retrying' = retrying \ {r}
  /\ IF order = "refunding" THEN UNCHANGED <<order, reading, behind>>
                            ELSE WriteOrder("refunding")
  /\ status' = [status EXCEPT ![r] = RetriedStatus(r)]
  /\ manual' = [manual EXCEPT ![r] = @ /\ status[r] # "failed"]
  /\ due' = [due EXCEPT ![r] = @ \/ status[r] = "failed"]
  /\ ready' = ready \cup {r}
  /\ UNCHANGED <<paid, attempt, before, traded, rest, later, messages, job,
                 returned, budget>>

-----------------------------------------------------------------------------
(***************************************************************************)
(* Time, the outbox and the queue.                                         *)
(***************************************************************************)
\* The retry time of the refund and of the event scheduled with it passes.
Tick(r) ==
  /\ ~due[r] \/ r \in later
  /\ due' = [due EXCEPT ![r] = TRUE]
  /\ later' = later \ {r}
  /\ ready' = IF r \in later THEN ready \cup {r} ELSE ready
  /\ UNCHANGED <<paid, order, status, attempt, before, manual, traded, admin,
                 messages, job, returned, budget>>

Publish(r) ==
  /\ r \in ready
  /\ ready' = ready \ {r}
  /\ messages' = [messages EXCEPT ![r] = @ + 1]
  /\ UNCHANGED <<paid, order, rows, admin, later, job, returned, budget>>

\* A message is sent twice, or delivered again because it was not acknowledged.
Repeat(r) ==
  /\ budget.repeat > 0
  /\ budget' = [budget EXCEPT !.repeat = @ - 1]
  /\ messages' = [messages EXCEPT ![r] = @ + 1]

\* Another publisher has read the same row, or this one stops after sendBatch.
PublishUnmarked(r) ==
  /\ r \in ready
  /\ Repeat(r)
  /\ UNCHANGED <<paid, order, rows, admin, outbox, job, returned>>

\* SLIP: a refund that waits for its confirmation is claimed too.
ClaimableWhenManual(r) ==
  status[r] \in {"pending", "processing", "failed"} /\ due[r]

Claimable(r) ==
  /\ status[r] \in {"pending", "processing", "failed"}
  /\ ~manual[r]
  /\ due[r]

\* SLIP: the claim keeps the attempt it read.
SameAttempt(r) == attempt[r]

NextAttempt(r) == attempt[r] + 1

Claim(w, r) ==
  /\ job[w] = Idle
  /\ messages[r] > 0
  /\ Claimable(r)
  /\ messages' = [messages EXCEPT ![r] = @ - 1]
  /\ status' = [status EXCEPT ![r] = "processing"]
  /\ attempt' = [attempt EXCEPT ![r] = NextAttempt(r)]
  /\ due' = [due EXCEPT ![r] = FALSE]
  /\ job' = [job EXCEPT ![w] =
       [pc |-> "call", refund |-> r, attempt |-> NextAttempt(r),
        answer |-> "none", full |-> FALSE, by |-> "queue"]]
  /\ UNCHANGED <<paid, order, before, manual, traded, admin, outbox, returned,
                 budget>>

\* A message whose refund cannot be claimed is answered as a duplicate.
AckDuplicate(r) ==
  /\ messages[r] > 0
  /\ ~Claimable(r)
  /\ messages' = [messages EXCEPT ![r] = @ - 1]
  /\ UNCHANGED <<paid, order, rows, admin, outbox, job, returned, budget>>

Ack(w) ==
  /\ job[w].pc = "ack"
  /\ job' = [job EXCEPT ![w] = Idle]
  /\ UNCHANGED <<paid, order, rows, admin, outbox, messages, returned, budget>>

\* The process dies before it acknowledges, or before it finalizes what the
\* administrator confirmed.
Crash(w) ==
  /\ job[w] # Idle
  /\ job' = [job EXCEPT ![w] = Idle]
  /\ \/ job[w].by = "queue" /\ Repeat(job[w].refund)
     \/ /\ job[w].by = "admin"
        /\ budget.repeat > 0
        /\ UNCHANGED <<messages, budget>>
  /\ UNCHANGED <<paid, order, rows, admin, outbox, returned>>

-----------------------------------------------------------------------------
(***************************************************************************)
(* The provider's answer and what is recorded of it.                       *)
(***************************************************************************)
\* What refundPayment or queryRefund of the channel can return or throw.  ZPAY
\* refuses to refund a part of the payment.
Answers(w) ==
  LET r == job[w].refund IN
  CASE funding # "zpay" ->
         {"succeeded", "failed", "cancelled", "unavailable"}
           \cup (IF job[w].attempt < MaxPending THEN {"pending"} ELSE {})
    [] funding = "zpay" /\ traded[r] -> {"ambiguous"}
    [] OTHER -> {"failed", "ambiguous"}
                  \cup (IF amount[r] = Paid THEN {"succeeded"} ELSE {})

\* SLIP: what is reserved counts as returned.
ReturnsAllReserved(r) == Sum(Reserved \ {r}) + amount[r] >= Paid

\* SLIP: each refund is compared with the payment by itself.
ReturnsAllAlone(r) == amount[r] >= Paid

\* finalizeRefund sums the other succeeded refunds before its batch.
ReturnsAll(r) == Sum(Succeeded \ {r}) + amount[r] >= Paid

\* The last permitted attempt turns an unavailable provider into a failure.
Recorded(w, answer) ==
  IF answer = "unavailable" /\ job[w].attempt >= MaxAttempts
  THEN "failed" ELSE answer

ProviderAnswers(w) ==
  /\ job[w].pc = "call"
  /\ \E answer \in Answers(w) :
       /\ job' = [job EXCEPT ![w].pc = "settle",
                             ![w].answer = Recorded(w, answer),
                             ![w].full = /\ answer = "succeeded"
                                         /\ ReturnsAll(job[w].refund)]
       /\ returned' = IF answer = "succeeded"
                      THEN returned \cup {job[w].refund} ELSE returned
  /\ UNCHANGED <<paid, order, rows, admin, outbox, messages, budget>>

\* completeManualShopRefund takes the next attempt before it finalizes; the
\* administrator affirms that the money was returned.
ConfirmManual(w, r) ==
  /\ budget.confirm > 0
  /\ job[w] = Idle
  /\ status[r] = "processing"
  /\ manual[r]
  /\ attempt' = [attempt EXCEPT ![r] = NextAttempt(r)]
  /\ job' = [job EXCEPT ![w] =
       [pc |-> "settle", refund |-> r, attempt |-> NextAttempt(r),
        answer |-> "succeeded", full |-> ReturnsAll(r), by |-> "admin"]]
  /\ returned' = returned \cup {r}
  /\ budget' = [budget EXCEPT !.confirm = @ - 1]
  /\ UNCHANGED <<paid, order, status, before, manual, due, traded, admin,
                 outbox, messages>>

\* Every write of an outcome is guarded by the attempt it belongs to.
Current(w) == job[w].attempt = attempt[job[w].refund]

\* What the guarded writes of the outcome ask for.
Schedulable(w) == Current(w) /\ status[job[w].refund] = "processing"
Finalizable(w) ==
  Current(w) /\ status[job[w].refund] \in {"processing", "failed"}

\* SLIP: the refund is checked again, but no event is written for it.
CheckedWithoutEvent(r) == later

\* refundOutboxStatement writes the event in the batch that sets the retry time.
Scheduled(r) == later \cup {r}

Settles(w, answers) == /\ job[w].pc = "settle" /\ job[w].answer \in answers
                       /\ job' = [job EXCEPT ![w].pc = "ack"]

ScheduleCheck(w) ==
  LET r == job[w].refund IN
  /\ Settles(w, {"pending"})
  /\ Schedulable(w)
  /\ manual' = [manual EXCEPT ![r] = FALSE]
  /\ due' = [due EXCEPT ![r] = FALSE]
  /\ later' = Scheduled(r)
  /\ UNCHANGED <<paid, order, status, attempt, before, traded, admin, ready,
                 messages, returned, budget>>

RecordProviderFailure(w) ==
  LET r == job[w].refund IN
  /\ Settles(w, {"unavailable"})
  /\ Schedulable(w)
  /\ status' = [status EXCEPT ![r] = "failed"]
  /\ manual' = [manual EXCEPT ![r] = FALSE]
  /\ due' = [due EXCEPT ![r] = FALSE]
  /\ later' = Scheduled(r)
  /\ UNCHANGED <<paid, order, attempt, before, traded, admin, ready, messages,
                 returned, budget>>

RequireReconciliation(w) ==
  LET r == job[w].refund IN
  /\ Settles(w, {"ambiguous"})
  /\ Schedulable(w)
  /\ manual' = [manual EXCEPT ![r] = TRUE]
  /\ due' = [due EXCEPT ![r] = TRUE]
  /\ UNCHANGED <<paid, order, status, attempt, before, traded, admin, outbox,
                 messages, returned, budget>>

Final == {"succeeded", "failed", "cancelled"}

\* refunds_attempt_provider_uidx: one refund of a payment may hold the trade
\* number that ZPAY answers with for all of them.
TradeTaken(w) ==
  /\ funding = "zpay" /\ job[w].by = "queue"
  /\ \E r \in Refunds \ {job[w].refund} : traded[r]

\* SLIP: a refund that failed leaves the order as it finds it.
OrderUnlessReturned(w) == IF job[w].full THEN "refunded" ELSE order

\* SLIP: the order takes the status of the refund.
OrderAsAnswered(w) == IF job[w].full THEN "refunded" ELSE job[w].answer

OrderAfter(w) ==
  IF job[w].full THEN "refunded" ELSE before[job[w].refund]

Finalize(w) ==
  LET r == job[w].refund IN
  /\ Settles(w, Final)
  /\ Finalizable(w) /\ ~TradeTaken(w)
  /\ status' = [status EXCEPT ![r] = job[w].answer]
  /\ manual' = [manual EXCEPT ![r] = FALSE]
  /\ due' = [due EXCEPT ![r] = TRUE]
  /\ traded' = [traded EXCEPT ![r] = funding = "zpay" /\ job[w].by = "queue"]
  /\ WriteOrder(OrderAfter(w))
  /\ UNCHANGED <<paid, attempt, before, rest, retrying, outbox, messages,
                 returned, budget>>

\* The batch breaks the unique index: the handler throws, and the message is
\* delivered again or ends in the dead-letter queue.
FinalizeRejected(w) ==
  /\ job[w].pc = "settle" /\ job[w].answer \in Final
  /\ Finalizable(w) /\ TradeTaken(w)
  /\ job' = [job EXCEPT ![w] = Idle]
  /\ Repeat(job[w].refund) \/ UNCHANGED <<messages, budget>>
  /\ UNCHANGED <<paid, order, rows, admin, outbox, returned>>

\* The guarded statements change nothing: the answer came too late.
DiscardLateAnswer(w) ==
  /\ Settles(w, Answer)
  /\ IF job[w].answer \in Final THEN ~Finalizable(w) ELSE ~Schedulable(w)
  /\ UNCHANGED <<paid, order, rows, admin, outbox, messages, returned, budget>>

Settle(w) ==
  \/ ScheduleCheck(w)
  \/ RecordProviderFailure(w)
  \/ RequireReconciliation(w)
  \/ Finalize(w)
  \/ FinalizeRejected(w)
  \/ DiscardLateAnswer(w)

-----------------------------------------------------------------------------
Next ==
  \/ Progress
  \/ \E r \in Refunds :
       \/ BeginRequest(r) \/ CommitRequest(r)
       \/ CommitWalletRefund(r) \/ MissWalletRefund(r)
       \/ BeginRetry(r) \/ CommitRetry(r)
       \/ Tick(r) \/ Publish(r) \/ PublishUnmarked(r) \/ AckDuplicate(r)
  \/ \E w \in Workers :
       \/ ProviderAnswers(w) \/ Settle(w) \/ Ack(w) \/ Crash(w)
       \/ \E r \in Refunds : Claim(w, r) \/ ConfirmManual(w, r)

Spec == Init /\ [][Next]_vars

\* Cron and the web drains keep publishing, consumers keep polling, a provider
\* call ends by its own timeout, and time passes.  Nothing makes an
\* administrator act.
Fairness ==
  /\ \A r \in Refunds :
       /\ WF_vars(Tick(r))
       /\ WF_vars(Publish(r))
       /\ WF_vars(AckDuplicate(r))
       /\ WF_vars(\E w \in Workers : Claim(w, r))
  /\ \A w \in Workers :
       WF_vars(ProviderAnswers(w)) /\ WF_vars(Settle(w)) /\ WF_vars(Ack(w))

FairSpec == Spec /\ Fairness

-----------------------------------------------------------------------------
(***************************************************************************)
(* Properties that hold whatever is duplicated, retried or delivered again *)
(***************************************************************************)
\* Every variable has the type its column or its role in the code has.
TypeOK ==
  /\ funding \in Fundings
  /\ amount \in Amounts
  /\ order \in OrderStatus
  /\ status \in [Refunds -> RefundStatus]
  /\ attempt \in [Refunds -> Nat]
  /\ before \in [Refunds -> Refundable]
  /\ manual \in [Refunds -> BOOLEAN]
  /\ due \in [Refunds -> BOOLEAN]
  /\ traded \in [Refunds -> BOOLEAN]
  /\ reading \subseteq Refunds /\ behind \subseteq Refunds
  /\ rest \subseteq Refunds
  /\ retrying \subseteq Refunds
  /\ later \subseteq Refunds
  /\ ready \subseteq Refunds
  /\ messages \in [Refunds -> Nat]
  /\ job \in [Workers -> Job]
  /\ returned \subseteq Refunds
  /\ budget \in [confirm : Nat, retry : Nat, repeat : Nat]

\* An order is "refunded" only while succeeded refunds return all that was
\* paid, although finalizeRefund sums the other refunds before its batch.
RefundedMeansReturned == order = "refunded" => Sum(Succeeded) >= Paid

\* At most one worker holds the attempt that the row carries: of all the
\* workers that were given a refund by messages, redeliveries, lease expiry and
\* confirmations, one can still record an outcome.
OneCurrentWorker ==
  \A v, w \in Workers :
    /\ Busy(v) /\ Busy(w) /\ job[v].refund = job[w].refund
    /\ Current(v) /\ Current(w)
    => v = w

\* While a refund waits for an administrator's confirmation, no queue worker
\* still in a provider call can record an outcome for it.
ManualIsExclusive ==
  \A w \in Workers :
    Busy(w) /\ job[w].by = "queue" /\ manual[job[w].refund] => ~Current(w)

\* A refund that succeeded stays succeeded: neither a duplicate message, nor
\* a late answer, nor a retry that read it as failed reopens it.
SucceededIsFinal ==
  [][\A r \in Refunds : status[r] = "succeeded" => status'[r] = "succeeded"]_vars

-----------------------------------------------------------------------------
(***************************************************************************)
(* Properties of a ledger without retries by hand, duplicates or           *)
(* redeliveries.                                                           *)
(***************************************************************************)
InProgress(r) ==
  \/ status[r] \in {"pending", "processing"}
  \/ status[r] = "failed" /\ (r \in later \cup ready \/ messages[r] > 0)

\* What is requested and what is returned never exceeds what was paid, also
\* for two requests that read the balance at the same time.
ReservedWithinPaid == Sum(Reserved) <= Paid

\* The order is "refunding" exactly while one refund is in progress.
RefundingWhileInProgress ==
  (order = "refunding") <=> \E r \in Refunds : InProgress(r)

\* The order is "refunded" exactly when the whole payment is returned.
RefundedIffReturned == (order = "refunded") <=> (Sum(Succeeded) = Paid)

\* A refunding order is settled or handed to an administrator, through outages
\* of the provider and answers that the refund is pending, as long as it stops
\* answering so: scheduleRefundCheck asks again without a limit, and a provider
\* that says "pending" for ever keeps the order refunding.
RefundingEnds ==
  order = "refunding" ~> (order # "refunding" \/ \E r \in Refunds : manual[r])

-----------------------------------------------------------------------------
(***************************************************************************)
(* What the repository says of refunds and the code does not keep.         *)
(***************************************************************************)
\* MANUAL-CUSTOMER-REFUNDS.md: a refund is recorded as succeeded when the
\* money has reached the customer.
SucceededMeansReturned ==
  \A r \in Refunds : status[r] = "succeeded" => r \in returned
=============================================================================
