----------------------------- MODULE Deliveries -----------------------------
(***************************************************************************)
(* The delivery of the items of one paid order                             *)
(* (features/fulfillment/server/process.ts, outbox.ts, admin.ts, with the  *)
(* conversion of redeem-warehouse/server/convert-delivery.ts and the       *)
(* cancellation of refund-cancellation.ts).                                *)
(*                                                                         *)
(* A delivery is requested by an outbox event, which the publisher turns   *)
(* into a queue message.  Workers read the delivery with its order, read   *)
(* or convert its codes, count what else is open, and commit one batch     *)
(* that writes the delivery, its codes, its grant and, if the order's      *)
(* version is still the one read, the order.  Administrators start and     *)
(* complete manual deliveries with their own batches, retry failed         *)
(* deliveries and move the order; refunds of the order run beside them.    *)
(*                                                                         *)
(* Codes of one item are converted in the order they are read.  What the   *)
(* warehouse answers for one source reference is the same code each time.  *)
(* The attempt counter of a delivery is kept as far as it matters: whether *)
(* it has grown since the last retry by hand, whose event is named by it.  *)
(* One refund of the order runs at a time, and is not retried (see         *)
(* Refunds).                                                               *)
(*                                                                         *)
(* Each definition whose comment begins with SLIP is a wrong variant of    *)
(* the one that follows it, used to see that the properties notice.        *)
(***************************************************************************)
EXTENDS Naturals, FiniteSets

CONSTANTS
  Items,      \* the deliveries of the order, one for each item
  Manual,     \* those an administrator fills by hand
  Redeem,     \* those whose codes are converted by the warehouse
  Workers,    \* processes that handle messages
  Admins,     \* those, or others, that may be requests of administrators
  None,       \* no delivery, no message
  Quantity,   \* codes of one item
  MaxTries,   \* deliveries of one queue message before it is a dead letter
  MaxRetries, \* retries by hand of a delivery after which there are no more
  MaxVersion  \* version of the order at which the shop lets it rest

ASSUME DeliveriesAssumption ==
  /\ Manual \subseteq Items
  /\ Redeem \subseteq Items \ Manual
  /\ None \notin Items \cup Nat
  /\ Quantity \in Nat \ {0}
  /\ MaxTries \in Nat \ {0}
  /\ MaxRetries \in Nat
  /\ MaxVersion \in Nat

VARIABLES
  order,     \* shop_orders.status and version, with the refund it is in and
             \* whether an administrator completed it or it was paid back
  delivery,  \* delivery_records.status
  counted,   \* attempt_count has grown since the last retry by hand
  retries,   \* retries by hand so far
  codes,     \* stock_entries.status of the item's codes
  converted, \* codes of the item that the warehouse has replaced
  grant,     \* entitlement_grants.status
  event,     \* the latest delivery.requested event of a delivery
  message,   \* tries left of the message of each event, until it is acknowledged
  worker     \* what each worker and request has read, and where it is

shop == <<order, delivery, counted, retries, grant>>
stock == <<codes, converted>>
queue == <<event, message>>
vars == <<shop, stock, queue, worker>>

Deliverable == {"paid", "fulfilling"}
Closed == {"refunded", "cancelled", "expired"}
Unsettled == {"pending", "processing"}
Automatic == Items \ Manual
Retries == 0 .. MaxRetries
Processes == Workers \cup Admins

\* A process at a stage with an item, the retry its message is of, and the
\* order as it has read it.
At(stage, i, n, seen, version) ==
  [stage |-> stage, item |-> i, key |-> n, seen |-> seen, version |-> version,
   done |-> 0, saw |-> 0, next |-> "fulfilling"]

\* Nothing is known of the order of an idle worker.
Idle == At("idle", None, 0, "paid", 0)

\* The payment reserves the codes it finds; an item that lacks them fails.
Init ==
  /\ order = [status |-> "paid", version |-> 0, before |-> "none",
               byHand |-> FALSE, returned |-> FALSE]
  /\ codes \in [Items -> {"none", "reserved"}]
  /\ \A i \in Manual : codes[i] = "none"
  /\ delivery = [i \in Items |-> IF i \in Manual THEN "awaiting_supply"
                                 ELSE IF codes[i] = "reserved" THEN "pending"
                                 ELSE "failed"]
  /\ counted = [i \in Items |-> TRUE]
  /\ retries = [i \in Items |-> 0]
  /\ converted = [i \in Items |-> 0]
  /\ grant = [i \in Items |-> "pending"]
  /\ event = [i \in Items |-> IF codes[i] = "reserved" THEN "pending" ELSE "none"]
  /\ message = [i \in Items |-> [n \in Retries |-> None]]
  /\ worker = [w \in Processes |-> Idle]

\* The worker is through with the delivery and forgets what it has read.
EndAt(w, stage) ==
  worker' = [worker EXCEPT ![w] = At(stage, worker[w].item, worker[w].key, "paid", 0)]

-----------------------------------------------------------------------------
(***************************************************************************)
(* The outbox and the queue.                                               *)
(***************************************************************************)
\* publishPendingDeliveries sends before it marks; an event that was sent and
\* not yet marked is sent again by the next publisher.
Send(i) ==
  /\ event[i] \in {"pending", "sent"}
  /\ event' = [event EXCEPT ![i] = "sent"]
  /\ message' = [message EXCEPT ![i][retries[i]] = MaxTries]
  /\ UNCHANGED <<shop, stock, worker>>

\* SLIP: an event is marked before it is sent.
MarkUnsent(i) ==
  /\ event[i] \in {"pending", "sent"}
  /\ event' = [event EXCEPT ![i] = "published"]
  /\ UNCHANGED <<shop, stock, message, worker>>

Mark(i) ==
  /\ event[i] = "sent"
  /\ event' = [event EXCEPT ![i] = "published"]
  /\ UNCHANGED <<shop, stock, message, worker>>

\* The event of an item is published, if it is still open.
PublishEvent(i) ==
  event' = [event EXCEPT ![i] = IF @ \in {"pending", "sent"} THEN "published" ELSE @]

\* A worker that ends without an answer leaves its message to the next try.
GiveUp(w) ==
  /\ worker' = [worker EXCEPT ![w] = Idle]
  /\ UNCHANGED <<shop, stock, queue>>

Throw(w) == worker[w].stage = "throw" /\ GiveUp(w)
Crash(w) == worker[w].stage \notin {"idle", "throw"} /\ GiveUp(w)

Acknowledge(w) ==
  LET me == worker[w] IN
  /\ me.stage = "ack"
  /\ message' = [message EXCEPT ![me.item][me.key] = None]
  /\ worker' = [worker EXCEPT ![w] = Idle]
  /\ UNCHANGED <<shop, stock, event>>

-----------------------------------------------------------------------------
(***************************************************************************)
(* processDelivery.                                                        *)
(***************************************************************************)
\* What a worker does after its first read.
Path(i) ==
  IF delivery[i] = "delivered" THEN "ack"
  ELSE IF delivery[i] = "failed" THEN "throw"
  ELSE IF order.status \in Deliverable THEN "stock"
  ELSE IF order.status \in Closed THEN "close"
  ELSE "throw"

Take(w, i, n) ==
  /\ worker[w].stage = "idle"
  /\ message[i][n] # None /\ message[i][n] > 0
  /\ message' = [message EXCEPT ![i][n] = @ - 1]
  /\ worker' = [worker EXCEPT ![w] =
       IF Path(i) = "stock" THEN At("stock", i, n, order.status, order.version)
       ELSE At(Path(i), i, n, "paid", 0)]
  /\ UNCHANGED <<shop, stock, event>>

\* closeUndeliverableDelivery.
Close(w) ==
  LET i == worker[w].item IN
  /\ worker[w].stage = "close"
  /\ delivery' = [delivery EXCEPT ![i] = IF @ \in Unsettled THEN "failed" ELSE @]
  /\ PublishEvent(i)
  /\ EndAt(w, "ack")
  /\ UNCHANGED <<order, counted, retries, grant, stock, message>>

ReadStock(w) ==
  LET i == worker[w].item IN
  /\ worker[w].stage = "stock"
  /\ \/ codes[i] # "reserved" /\ EndAt(w, "throw")
     \/ /\ codes[i] = "reserved" /\ i \in Redeem
        /\ worker' = [worker EXCEPT ![w].stage = "convert", ![w].saw = converted[i]]
     \/ /\ codes[i] = "reserved" /\ i \notin Redeem
        /\ worker' = [worker EXCEPT ![w].stage = "count"]
  /\ UNCHANGED <<shop, stock, queue>>

\* recordOwnedDeliveryFailure.
RecordFailure(i) ==
  counted' = [counted EXCEPT ![i] = @ \/ delivery[i] \in Unsettled]

\* SLIP: the loop over the codes does not end with the last one.
NextCodeForever(w) ==
  worker' = [worker EXCEPT ![w].done = @ + 1]

\* The next code, or the count when there is none.
NextCode(w) ==
  LET p == worker[w] IN
  worker' = [worker EXCEPT ![w] =
    IF p.done + 1 = Quantity THEN [p EXCEPT !.stage = "count", !.done = 0, !.saw = 0]
    ELSE [p EXCEPT !.done = @ + 1]]

\* convertReservedStock for the next code: it was converted when it was read,
\* or this worker converts it, or another one has.  A refund refuses both.
Convert(w) ==
  LET i == worker[w].item
      c == worker[w].done IN
  /\ worker[w].stage = "convert"
  /\ \/ c < worker[w].saw /\ NextCode(w) /\ UNCHANGED <<converted, counted>>
     \/ /\ c >= worker[w].saw
        /\ codes[i] = "reserved" /\ converted[i] <= c
        /\ order.status \in Deliverable
        /\ converted' = [converted EXCEPT ![i] = c + 1]
        /\ NextCode(w) /\ UNCHANGED counted
     \/ /\ c >= worker[w].saw
        /\ codes[i] = "reserved" /\ converted[i] > c
        /\ NextCode(w) /\ UNCHANGED <<converted, counted>>
     \/ /\ c >= worker[w].saw
        /\ codes[i] # "reserved" \/ (converted[i] <= c /\ order.status \notin Deliverable)
        /\ RecordFailure(i) /\ EndAt(w, "throw") /\ UNCHANGED converted
  /\ UNCHANGED <<order, delivery, retries, grant, codes, queue>>

\* There is no token, a converted code does not fit its mark, or the warehouse
\* refuses, does not answer, or answers something else.
ConvertFails(w) ==
  /\ worker[w].stage = "convert"
  /\ RecordFailure(worker[w].item)
  /\ EndAt(w, "throw")
  /\ UNCHANGED <<order, delivery, retries, grant, stock, queue>>

\* SLIP: deliveries that failed or wait for supply are not counted.
CountPending(w) ==
  /\ worker[w].stage \in {"count", "manual"}
  /\ worker' = [worker EXCEPT
       ![w].next = IF \A j \in Items \ {worker[w].item} : delivery[j] \notin Unsettled
                     THEN "completed" ELSE "fulfilling",
       ![w].stage = IF @ = "count" THEN "commit" ELSE "complete"]
  /\ UNCHANGED <<shop, stock, queue>>

\* nextOrderStatus, read just before the batch.
Count(w) ==
  /\ worker[w].stage \in {"count", "manual"}
  /\ worker' = [worker EXCEPT
       ![w].next = IF \A j \in Items \ {worker[w].item} : delivery[j] = "delivered"
                     THEN "completed" ELSE "fulfilling",
       ![w].stage = IF @ = "count" THEN "commit" ELSE "complete"]
  /\ UNCHANGED <<shop, stock, queue>>

\* SLIP: the order is written whatever its status and version are.
WriteAnyOrder(w, status) ==
  order' = [order EXCEPT !.status = status, !.version = @ + 1]

\* The order takes a status if nobody has written it since it was read.
WriteOrder(w, status) ==
  order' = IF order.status = worker[w].seen /\ order.version = worker[w].version
             THEN [order EXCEPT !.status = status, !.version = @ + 1]
             ELSE order

\* SLIP: the codes are not looked at again.
MayDeliverUnowned(i) ==
  /\ delivery[i] \in Unsettled
  /\ order.status \in Deliverable

\* The statement that delivers, with what it asks of order and codes.
MayDeliver(i) ==
  /\ delivery[i] \in Unsettled
  /\ order.status \in Deliverable
  /\ i \in Redeem => codes[i] = "reserved" /\ converted[i] = Quantity

\* activateEntitlementGrantStatements, for the grant of the item.
Activate(i) ==
  grant' = [grant EXCEPT ![i] = IF @ = "pending" THEN "active" ELSE @]

\* The batch.  If the delivery is not delivered after its first statement, by
\* this worker or another one, all of it is rolled back.
Commit(w) ==
  LET i == worker[w].item IN
  /\ worker[w].stage = "commit"
  /\ \/ /\ MayDeliver(i) \/ delivery[i] = "delivered"
        /\ delivery' = [delivery EXCEPT ![i] = "delivered"]
        /\ counted' = [counted EXCEPT ![i] = @ \/ MayDeliver(i)]
        /\ codes' = [codes EXCEPT ![i] = IF @ = "reserved" THEN "delivered" ELSE @]
        /\ WriteOrder(w, worker[w].next)
        /\ PublishEvent(i)
        /\ Activate(i)
        /\ EndAt(w, "ack")
     \/ /\ ~ MayDeliver(i) /\ delivery[i] # "delivered"
        /\ IF i \in Redeem THEN RecordFailure(i) ELSE UNCHANGED counted
        /\ EndAt(w, "throw")
        /\ UNCHANGED <<order, delivery, codes, event, grant>>
  /\ UNCHANGED <<retries, converted, message>>

-----------------------------------------------------------------------------
(***************************************************************************)
(* Manual deliveries.                                                      *)
(***************************************************************************)
\* startManualDelivery and completeManualDelivery up to their batches.
OpenManual(w, i, stage) ==
  /\ worker[w].stage = "idle"
  /\ i \in Manual
  /\ delivery[i] \in (IF stage = "start" THEN {"awaiting_supply"}
                      ELSE {"awaiting_supply", "processing"})
  /\ order.status \in Deliverable
  /\ worker' = [worker EXCEPT ![w] = At(stage, i, 0, order.status, order.version)]
  /\ UNCHANGED <<shop, stock, queue>>

\* Both statements are made, and a miss of either is only reported.
StartManual(w) ==
  LET i == worker[w].item IN
  /\ worker[w].stage = "start"
  /\ delivery' = [delivery EXCEPT ![i] = IF @ = "awaiting_supply" THEN "processing" ELSE @]
  /\ WriteOrder(w, "fulfilling")
  /\ worker' = [worker EXCEPT ![w] = Idle]
  /\ UNCHANGED <<counted, retries, grant, stock, queue>>

\* SLIP: the grant is activated before the delivery is filled.
CompleteActivated(w) ==
  LET i == worker[w].item IN
  /\ worker[w].stage = "complete"
  /\ delivery' = [delivery EXCEPT ![i] =
       IF @ = "processing" THEN "delivered" ELSE @]
  /\ WriteOrder(w, worker[w].next)
  /\ Activate(i)
  /\ worker' = [worker EXCEPT ![w] = Idle]
  /\ UNCHANGED <<counted, retries, stock, queue>>

\* The batch of completeManualDelivery asks for the delivery's status only.
CompleteManual(w) ==
  LET i == worker[w].item
      filled == delivery[i] \in {"awaiting_supply", "processing"} IN
  /\ worker[w].stage = "complete"
  /\ delivery' = [delivery EXCEPT ![i] = IF filled THEN "delivered" ELSE @]
  /\ counted' = [counted EXCEPT ![i] = @ \/ filled]
  /\ WriteOrder(w, worker[w].next)
  /\ Activate(i)
  /\ worker' = [worker EXCEPT ![w] = Idle]
  /\ UNCHANGED <<retries, stock, queue>>

-----------------------------------------------------------------------------
(***************************************************************************)
(* Administrators and refunds.                                             *)
(***************************************************************************)
\* retryDeliveryFn.  The event is named by the attempt counter: if that has
\* not grown since the last retry, the name is taken and the batch fails.
RetryDelivery(i) ==
  /\ delivery[i] = "failed"
  /\ counted[i]
  /\ \A j \in Items : retries[j] < MaxRetries
  /\ delivery' = [delivery EXCEPT ![i] = "pending"]
  /\ retries' = [retries EXCEPT ![i] = @ + 1]
  /\ counted' = [counted EXCEPT ![i] = FALSE]
  /\ event' = [event EXCEPT ![i] = "pending"]
  /\ UNCHANGED <<order, grant, stock, message, worker>>

\* allowedTransitions, from the statuses of a paid order.
Successors(from) ==
  CASE from = "paid" -> {"fulfilling", "refunding", "failed"}
    [] from = "fulfilling" -> {"completed", "refunding", "failed"}
    [] from = "completed" -> {"refunding"}
    [] from = "refunding" -> {"refunded", "completed", "failed"}
    [] from = "failed" -> {"fulfilling", "refunding"}
    [] OTHER -> {}

\* transitionShopOrder.  Leaving an order as failed or refunded gives its
\* reserved codes back to the stock (releaseSaleStatements).
MoveOrder ==
  \E to \in Successors(order.status) :
    LET released == {i \in Items : to \in {"failed", "refunded"} /\ codes[i] = "reserved"} IN
    /\ order.version < MaxVersion
    /\ order' = [order EXCEPT !.status = to, !.version = @ + 1,
                              !.byHand = @ \/ to = "completed"]
    /\ codes' = [i \in Items |-> IF i \in released THEN "none" ELSE codes[i]]
    /\ converted' = [i \in Items |-> IF i \in released THEN 0 ELSE converted[i]]
    /\ UNCHANGED <<delivery, counted, retries, grant, queue, worker>>

\* requestShopRefund.
RequestRefund ==
  /\ order.version < MaxVersion
  /\ order.status \in {"paid", "fulfilling", "completed", "failed"}
  /\ order.before = "none"
  /\ order' = [order EXCEPT !.status = "refunding", !.version = @ + 1,
                            !.before = order.status]
  /\ UNCHANGED <<delivery, counted, retries, grant, stock, queue, worker>>

\* finalizeRefund of a refund that failed or leaves a part of the payment.
RestoreOrder ==
  /\ order.before # "none"
  /\ order' = [order EXCEPT !.status = order.before, !.version = @ + 1,
                            !.before = "none"]
  /\ UNCHANGED <<delivery, counted, retries, grant, stock, queue, worker>>

\* finalizeRefund of the whole payment, with the grants of the order and
\* cancelOpenFulfillmentStatements.
RefundOrder ==
  LET cancelled == {i \in Items : delivery[i] \in {"awaiting_supply", "pending"}} IN
  /\ order.before # "none"
  /\ order' = [order EXCEPT !.status = "refunded", !.version = @ + 1,
                            !.before = "none", !.returned = TRUE]
  /\ delivery' = [i \in Items |-> IF i \in cancelled THEN "failed" ELSE delivery[i]]
  /\ event' = [i \in Items |-> IF i \in cancelled /\ event[i] \in {"pending", "sent"}
                                 THEN "published" ELSE event[i]]
  /\ grant' = [i \in Items |-> "refunded"]
  /\ UNCHANGED <<counted, retries, stock, message, worker>>

-----------------------------------------------------------------------------
Work(w) ==
  \/ Throw(w) \/ Acknowledge(w)
  \/ Close(w) \/ ReadStock(w) \/ Convert(w) \/ ConvertFails(w) \/ Count(w)
  \/ Commit(w) \/ StartManual(w) \/ CompleteManual(w)

WorkerStep ==
  \/ \E w \in Processes : Work(w) \/ Crash(w)
  \/ \E w \in Workers, i \in Items, n \in Retries : Take(w, i, n)
  \/ \E w \in Admins, i \in Items, stage \in {"start", "manual"} : OpenManual(w, i, stage)

ItemStep == \E i \in Items : Send(i) \/ Mark(i) \/ RetryDelivery(i)

OrderStep == MoveOrder \/ RequestRefund \/ RestoreOrder \/ RefundOrder

Next == WorkerStep \/ ItemStep \/ OrderStep

\* The outbox is drained after every batch and every minute, the queue hands
\* out what is there, and a queue worker goes on until it ends or dies.
Fairness ==
  /\ WF_vars(\E i \in Items : event[i] = "pending" /\ Send(i))
  /\ WF_vars(\E i \in Items : Mark(i))
  /\ WF_vars(\E w \in Workers, i \in Items, n \in Retries : Take(w, i, n))
  /\ \A w \in Workers : WF_vars(Work(w))

Spec == Init /\ [][Next]_vars
FairSpec == Spec /\ Fairness

-----------------------------------------------------------------------------
(***************************************************************************)
(* Properties.                                                             *)
(***************************************************************************)
OrderStatuses == {"paid", "fulfilling", "completed", "failed", "refunding", "refunded"}

OrderStates ==
  [status : OrderStatuses, version : Nat, before : OrderStatuses \cup {"none"},
   byHand : BOOLEAN, returned : BOOLEAN]

Stages == {"idle", "throw", "ack", "close", "stock", "convert", "count", "commit",
           "start", "manual", "complete"}

WorkerStates ==
  [stage : Stages, item : Items \cup {None}, key : Retries, seen : OrderStatuses,
   version : Nat, done : 0 .. Quantity, saw : 0 .. Quantity,
   next : {"fulfilling", "completed"}]

\* Types of all variables.
TypeOK ==
  /\ order \in OrderStates
  /\ delivery \in [Items -> {"awaiting_supply", "pending", "processing", "delivered", "failed"}]
  /\ counted \in [Items -> BOOLEAN]
  /\ retries \in [Items -> Retries]
  /\ codes \in [Items -> {"none", "reserved", "delivered"}]
  /\ converted \in [Items -> 0 .. Quantity]
  /\ grant \in [Items -> {"pending", "active", "refunded"}]
  /\ event \in [Items -> {"none", "pending", "sent", "published"}]
  /\ message \in [Items -> [Retries -> 0 .. MaxTries \cup {None}]]
  /\ worker \in [Processes -> WorkerStates]

\* An order that a delivery completed has everything delivered, although the
\* deliveries are counted before the batch that writes the order, the batch of
\* a manual delivery is not rolled back when its delivery has changed, and
\* refunds and administrators write the order meanwhile (nextOrderStatus).
CompletedMeansDelivered ==
  order.status = "completed" /\ ~ order.byHand
    => \A i \in Items : delivery[i] = "delivered"

\* What the customer may use is what was delivered and not paid back: a grant
\* is active only with its delivery, a delivery leaves no grant waiting, and
\* the refund of the payment takes every grant, also from a worker that is
\* about to commit (activateEntitlementGrantStatements runs in batches whose
\* other statements may have missed).
GrantFollowsDelivery ==
  /\ \A i \in Items :
       /\ grant[i] = "active" => delivery[i] = "delivered"
       /\ delivery[i] = "delivered" => grant[i] # "pending"
  /\ order.returned => \A i \in Items : grant[i] = "refunded"

\* A converted delivery gives out codes that still belong to the order, all of
\* them converted, whoever of several workers converted them and whatever was
\* released in between (the guard of the batch, docs/adr/aisou-owned-delivery.md).
RedeemedOwnsCodes ==
  \A i \in Redeem : delivery[i] = "delivered"
    => codes[i] = "delivered" /\ converted[i] = Quantity

\* Workers do not deliver an order that is not paid or fulfilling, and no
\* delivery, manual ones included, writes its status again (the comment and
\* the guards of processDelivery).
ClosedStaysClosed ==
  [][WorkerStep /\ order.status \notin Deliverable
       => /\ UNCHANGED order
          /\ \A i \in Automatic : delivery'[i] = "delivered" => delivery[i] = "delivered"]_vars

\* The message of an event has had its last try, and nobody has answered it.
DeadLetter(i, n) ==
  /\ message[i][n] = 0
  /\ \A w \in Workers : ~ (worker[w].item = i /\ worker[w].key = n)

\* A requested delivery does not stay pending in silence: crashes, events sent
\* twice, refunds and cancellations leave it settled, or its message used up
\* every try (publishPendingDeliveries, handleQueue).
PendingIsHandled ==
  \A i \in Items :
    (delivery[i] = "pending" /\ event[i] # "none")
      ~> (delivery[i] # "pending" \/ DeadLetter(i, retries[i]))

\* When everything is delivered and no worker is left, the order is completed
\* (shop_orders.status is what rewards, reports and the customer see).
DeliveredMeansCompleted ==
  /\ \A i \in Items : delivery[i] = "delivered"
  /\ \A w \in Processes : worker[w] = Idle
  => order.status \notin Deliverable

=============================================================================
