---------------------------- MODULE OrderPayments ----------------------------
(***************************************************************************)
(* From checkout to a paid shop order                                      *)
(* (features/shop-payments/server/service.ts, with checkout, expiry, the   *)
(* balance holds of features/promotions and the database's triggers).      *)
(*                                                                         *)
(* An order reserves a coupon use and stock when it is created, may hold a *)
(* part of the customer's balance, and is paid by the balance, by a full   *)
(* hold or by a payment attempt of a provider, whose events arrive late,   *)
(* twice and out of order.  It expires, is cancelled by the trigger that a *)
(* failed attempt of a split payment fires, or is moved by an              *)
(* administrator, who may also declare it failed, or paid without payment. *)
(*                                                                         *)
(* A D1 batch with the triggers it fires is one action.  What a request    *)
(* read before its batch is kept where the batch can take effect on a read *)
(* that is no longer true: any number of requests may act on it.  A batch  *)
(* that aborts when its compare-and-set fails acts on the current state:   *)
(* the row a payment adds to shop_order_events is unique in the version of *)
(* the order, so a payment that comes after another one aborts.            *)
(* An order has each status once, so a compare-and-set on the status       *)
(* stands for one on status and version.  Cash and reward balance are one  *)
(* balance; every order buys the same stock component from local stock.    *)
(*                                                                         *)
(* Each definition whose comment begins with SLIP is a wrong variant of    *)
(* the one that follows it, used to see that the properties notice.        *)
(***************************************************************************)
EXTENDS Naturals, FiniteSets, Sums

CONSTANTS
  Orders,    \* orders of one customer
  Attempts,  \* payment attempts that may be created
  OrderOf,   \* the order each attempt is for
  Couponed,  \* the orders that ask for the discount of the coupon
  Purposes,  \* the purposes the coupon may have
  Total,     \* total_minor of an order
  Balance,   \* the customer's balance at the start
  Limit,     \* usage_limit of the coupon
  Stock,     \* codes for sale
  Quantity,  \* codes each order buys
  Mapped,    \* the component reserves its codes at checkout
  Queryable, \* attempts at providers that can be asked for a payment
  Recent     \* those of them that the minute cron asks for

ASSUME PaymentsAssumption ==
  /\ IsFiniteSet(Orders)
  /\ OrderOf \in [Attempts -> Orders]
  /\ Couponed \subseteq Orders
  /\ Purposes \subseteq {"standard", "referral", "recall"}
  /\ {Total, Quantity} \subseteq Nat \ {0}
  /\ {Balance, Limit, Stock} \subseteq Nat
  /\ Mapped \in BOOLEAN
  /\ Recent \subseteq Queryable /\ Queryable \subseteq Attempts

VARIABLES
  purpose,   \* coupons.purpose
  order,     \* shop_orders.status, "absent" before checkout
  use,       \* coupon_redemptions.status
  used,      \* coupons.used_count
  hold,      \* order_balance_holds.state
  cash,      \* what the hold takes from the balance
  balance,   \* users.balance_minor with the reward balance
  debited,   \* orders with a wallet entry of completeWalletStoreOrder
  offers,    \* amounts that requests about to insert a hold have computed
  current,   \* orders that wallet requests read, the balance not written since
  outdated,  \* orders that wallet requests read before a write of the balance
  settling,  \* orders that requests to complete a full hold have read
  free,      \* stock entries that are available
  reserved,  \* stock entries reserved for each order
  issued,    \* stock entries delivered to each order
  delivery,  \* delivery_records.status of the order's item
  call,      \* how far the request that creates the attempt is
  attempt,   \* payment_attempts.status, "absent" before the row is inserted
  quoted,    \* payment_attempts.order_amount_minor
  known,     \* attempts whose provider_payment_id is saved
  pay,       \* the payment at the provider
  declined,  \* attempts the provider has reported a failed or expired try of
  asked,     \* attempts that reconcilePendingShopPayments still selects
  ruled,     \* orders that an administrator let expire (observer)
  early,     \* events that read an expired order before its use was released
  uncounted, \* orders whose released use was consumed uncounted (observer)
  review,    \* events that found no coupon use left
  receipt    \* replay_receipts.status of the success events of each attempt

coupon == <<purpose, use, used>>
wallet == <<hold, cash, balance, debited, offers, current, outdated>>
stock == <<free, reserved, issued, delivery>>
tries == <<call, attempt, quoted, known>>
provider == <<pay, declined>>
marks == <<asked, ruled, early, uncounted>>
events == <<marks, review, receipt>>
vars == <<coupon, order, wallet, settling, stock, tries, provider, events>>

Payable == {"pending_payment", "expired"}
Bought == {"paid", "completed"}
Closed == {"expired", "cancelled"}
Unpaid == Closed \cup {"failed"}
Source == {"webhook", "reconcile"}
Live == {"created", "pending"}
Rows(o) == {a \in Attempts : OrderOf[a] = o /\ attempt[a] # "absent"}
Uses == {o \in Orders : use[o] \in {"reserved", "consumed"}}
External(o) == IF hold[o] = "none" THEN Total ELSE Total - cash[o]

Init ==
  /\ purpose \in Purposes
  /\ order = [o \in Orders |-> "absent"]
  /\ use = [o \in Orders |-> "none"]
  /\ used = 0
  /\ hold = [o \in Orders |-> "none"]
  /\ cash = [o \in Orders |-> 0]
  /\ balance = Balance
  /\ debited = {}
  /\ offers = [o \in Orders |-> {}]
  /\ current = {}
  /\ outdated = {}
  /\ settling = {}
  /\ free = Stock
  /\ reserved = [o \in Orders |-> 0]
  /\ issued = [o \in Orders |-> 0]
  /\ delivery = [o \in Orders |-> "none"]
  /\ call = [a \in Attempts |-> "none"]
  /\ attempt = [a \in Attempts |-> "absent"]
  /\ quoted = [a \in Attempts |-> 0]
  /\ known = {}
  /\ pay = [a \in Attempts |-> "none"]
  /\ declined = {}
  /\ asked = Recent
  /\ ruled = {}
  /\ early = {}
  /\ uncounted = {}
  /\ review = {}
  /\ receipt = [a \in Attempts |-> [s \in Source |-> "none"]]

-----------------------------------------------------------------------------
(***************************************************************************)
(* Parts of the batches: stock, coupon uses, and the balance, whose writes *)
(* outdate what wallet requests have read.                                 *)
(***************************************************************************)
\* SLIP: the codes reserved at checkout are reserved again at payment.
TakeStockAgain(o) ==
  /\ IF free >= Quantity
       THEN /\ free' = free - Quantity
            /\ reserved' = [reserved EXCEPT ![o] = @ + Quantity]
       ELSE UNCHANGED <<free, reserved>>
  /\ UNCHANGED issued

TakeStock(o) ==
  /\ IF reserved[o] < Quantity /\ free + reserved[o] >= Quantity
       THEN /\ free' = free - (Quantity - reserved[o])
            /\ reserved' = [reserved EXCEPT ![o] = Quantity]
       ELSE UNCHANGED <<free, reserved>>
  /\ UNCHANGED issued

Fulfil(o) ==
  /\ TakeStock(o)
  /\ delivery' = [delivery EXCEPT ![o] =
                    IF reserved'[o] = Quantity THEN "pending" ELSE "failed"]

ReturnStock(o) ==
  /\ free' = free + reserved[o]
  /\ reserved' = [reserved EXCEPT ![o] = 0]
  /\ UNCHANGED <<issued, delivery>>

Consume(o) ==
  use' = [use EXCEPT ![o] = IF @ = "reserved" THEN "consumed" ELSE @]

\* SLIP: a released use is still counted.
ReleaseUseOnly(o) ==
  /\ use' = [use EXCEPT ![o] = IF @ = "reserved" THEN "released" ELSE @]
  /\ UNCHANGED <<purpose, used>>

ReleaseUse(o) ==
  IF use[o] = "reserved"
    THEN /\ use' = [use EXCEPT ![o] = "released"]
         /\ used' = used - 1
         /\ UNCHANGED purpose
    ELSE UNCHANGED coupon

\* Trigger promotion_coupon_release.
ReleasePromotion(o) ==
  IF purpose = "standard" THEN UNCHANGED coupon ELSE ReleaseUse(o)

\* SLIP: a write of the balance does not advance its version.
WriteUnversioned(b) ==
  /\ balance' = b
  /\ UNCHANGED <<current, outdated>>

WriteBalance(b) ==
  /\ balance' = b
  /\ current' = {}
  /\ outdated' = outdated \cup current

\* Triggers order_balance_lifecycle and order_balance_hold_release.
ReleaseHold(o) ==
  /\ IF hold[o] = "held"
       THEN /\ hold' = [hold EXCEPT ![o] = "released"]
            /\ WriteBalance(balance + cash[o])
       ELSE UNCHANGED <<hold, balance, current, outdated>>
  /\ UNCHANGED <<cash, debited, offers>>

\* Trigger order_balance_lifecycle.
ConsumeHold(o) ==
  /\ hold' = [hold EXCEPT ![o] = IF @ = "held" THEN "consumed" ELSE @]
  /\ UNCHANGED <<cash, balance, debited, offers, current, outdated>>

\* SLIP: an order cancelled by a failed attempt keeps its hold.
CloseKeepingHold(o, s) ==
  /\ order' = [order EXCEPT ![o] = s]
  /\ UNCHANGED wallet

\* The order closes without a payment, and the triggers on it fire.
Close(o, s) ==
  /\ order' = [order EXCEPT ![o] = s]
  /\ ReleaseHold(o)

-----------------------------------------------------------------------------
(***************************************************************************)
(* Checkout: the order row, its coupon use and its codes, in one batch.    *)
(***************************************************************************)
Checkout(o) ==
  /\ order[o] = "absent"
  /\ Mapped => free >= Quantity
  /\ order' = [order EXCEPT ![o] = "pending_payment"]
  /\ IF o \in Couponed
       THEN /\ used < Limit
            /\ used' = used + 1
            /\ use' = [use EXCEPT ![o] = "reserved"]
       ELSE UNCHANGED <<used, use>>
  /\ IF Mapped
       THEN /\ free' = free - Quantity
            /\ reserved' = [reserved EXCEPT ![o] = Quantity]
       ELSE UNCHANGED <<free, reserved>>
  /\ UNCHANGED <<purpose, wallet, settling, issued, delivery, tries, provider,
                 events>>

-----------------------------------------------------------------------------
(***************************************************************************)
(* Paying with the balance.  reserveOrderBalance reads the balance, then   *)
(* inserts a hold that the trigger order_balance_hold_validate checks.     *)
(***************************************************************************)
BeginHold(o) ==
  /\ order[o] = "pending_payment"
  /\ hold[o] = "none"
  /\ balance > 0
  /\ offers' = [offers EXCEPT ![o] =
                  @ \cup {IF balance < Total THEN balance ELSE Total}]
  /\ UNCHANGED <<coupon, order, hold, cash, balance, debited, current,
                 outdated, settling, stock, tries, provider, events>>

InsertHold(o) ==
  /\ order[o] = "pending_payment"
  /\ hold[o] = "none"
  /\ Rows(o) = {}
  /\ \E c \in offers[o] :
       /\ c <= balance
       /\ hold' = [hold EXCEPT ![o] = "held"]
       /\ cash' = [cash EXCEPT ![o] = c]
       /\ WriteBalance(balance - c)
  /\ UNCHANGED <<coupon, order, debited, offers, settling, stock, tries,
                 provider, events>>

CancelUnstartedBalancePayment(o) ==
  /\ order[o] = "pending_payment"
  /\ hold[o] = "held"
  /\ Rows(o) = {}
  /\ Close(o, "cancelled")
  /\ ReleasePromotion(o)
  /\ UNCHANGED <<settling, stock, tries, provider, events>>

\* completeFreeStoreOrder for an order that its hold pays in full.
BeginFullHold(o) ==
  /\ order[o] = "pending_payment"
  /\ hold[o] = "held"
  /\ External(o) = 0
  /\ settling' = settling \cup {o}
  /\ UNCHANGED <<coupon, order, wallet, stock, tries, provider, events>>

CompleteFullHold(o) ==
  /\ o \in settling
  /\ order[o] = "pending_payment"
  /\ hold[o] = "held"
  /\ order' = [order EXCEPT ![o] = "paid"]
  /\ ConsumeHold(o)
  /\ Fulfil(o)
  /\ Consume(o)
  /\ UNCHANGED <<purpose, used, settling, tries, provider, events>>

\* completeWalletStoreOrder reads the order and the balance ...
BeginWallet(o) ==
  /\ order[o] = "pending_payment"
  /\ hold[o] = "none"
  /\ balance >= Total
  /\ current' = current \cup {o}
  /\ UNCHANGED <<coupon, order, hold, cash, balance, debited, offers, outdated,
                 settling, stock, tries, provider, events>>

\* ... and writes both when neither has changed.
CompleteWallet(o) ==
  /\ o \in current
  /\ order[o] = "pending_payment"
  /\ order' = [order EXCEPT ![o] = "paid"]
  /\ debited' = debited \cup {o}
  /\ WriteBalance(balance - Total)
  /\ Fulfil(o)
  /\ Consume(o)
  /\ UNCHANGED <<purpose, used, hold, cash, offers, settling, tries, provider,
                 events>>

\* The batch of either request when the order or the balance has changed: the
\* statements on stock and coupon do not depend on the compare-and-set.  Only an
\* order that is paid at the next version aborts them: its event row exists.
CompleteTooLate(o) ==
  /\ \/ o \in settling /\ order[o] # "pending_payment"
     \/ o \in current /\ order[o] # "pending_payment"
     \/ o \in outdated
  /\ order[o] # "paid"
  /\ TakeStock(o)
  /\ Consume(o)
  /\ UNCHANGED <<purpose, used, order, wallet, settling, delivery, tries,
                 provider, events>>

-----------------------------------------------------------------------------
(***************************************************************************)
(* What processShopPaymentEvent reads of an order when a success event     *)
(* arrives, by webhook or by the reconciliation of cron and order pages.   *)
(***************************************************************************)
\* SLIP: reconciliation forgets the orders that have expired.
ArrivesBeforeExpiry(a, s) ==
  /\ a \in known
  /\ pay[a] = "charged"
  /\ receipt[a][s] = "none"
  /\ s = "reconcile" => /\ a \in Queryable
                        /\ attempt[a] \in {"pending", "expired"}
                        /\ order[OrderOf[a]] = "pending_payment"

\* A success event that is no duplicate; reconciliation asks the provider about
\* the attempts that have not ended of the orders that can be paid.
Arrives(a, s) ==
  /\ a \in known
  /\ pay[a] = "charged"
  /\ receipt[a][s] = "none"
  /\ s = "reconcile" => /\ a \in Queryable
                        /\ attempt[a] \in {"pending", "expired"}
                        /\ order[OrderOf[a]] \in Payable

\* The balance and the personal coupon the order was priced with are still its.
Untied(o) ==
  \/ hold[o] = "released"
  \/ purpose = "recall" /\ use[o] = "released"

\* The success events that have read the order and have not written.
InFlight(o) == {e \in Attempts \X Source : OrderOf[e[1]] = o /\ Arrives(e[1], e[2])}

-----------------------------------------------------------------------------
(***************************************************************************)
(* Expiry and administrators.                                              *)
(***************************************************************************)
Expire(o) ==
  /\ order[o] = "pending_payment"
  /\ Close(o, "expired")
  /\ ReleaseUse(o)
  /\ ReturnStock(o)
  /\ attempt' = [a \in Attempts |->
                   IF OrderOf[a] = o /\ attempt[a] \in Live THEN "expired"
                   ELSE attempt[a]]
  /\ UNCHANGED <<settling, call, quoted, known, provider, events>>

\* An expiry run that read the order before an administrator let it expire, or
\* beside another run: the event row does not conflict, and what follows asks
\* only for an expired order of that version.  A success event may have read
\* the order when its use was still reserved.
ExpireTooLate(o) ==
  /\ order[o] = "expired"
  /\ ReleaseUse(o)
  /\ early' = IF use[o] = "reserved" THEN early \cup InFlight(o) ELSE early
  /\ ReturnStock(o)
  /\ attempt' = [a \in Attempts |->
                   IF OrderOf[a] = o /\ attempt[a] \in Live THEN "expired"
                   ELSE attempt[a]]
  /\ UNCHANGED <<order, wallet, settling, call, quoted, known, provider, asked,
                 ruled, uncounted, review, receipt>>

\* transitionShopOrder, by an administrator.
Transition(o, s) ==
  /\ order[o] = "pending_payment"
  /\ Close(o, s)
  /\ ReleasePromotion(o)
  /\ ReturnStock(o)
  /\ ruled' = IF s = "expired" THEN ruled \cup {o} ELSE ruled
  /\ UNCHANGED <<settling, tries, provider, asked, early, uncounted, review,
                 receipt>>

\* The same to "failed", which neither order_balance_lifecycle nor
\* promotion_coupon_release names.
TransitionFailed(o) ==
  /\ order[o] = "pending_payment"
  /\ order' = [order EXCEPT ![o] = "failed"]
  /\ ReturnStock(o)
  /\ UNCHANGED <<coupon, wallet, settling, tries, provider, events>>

\* Trigger mixed_payment_receipt_guard.
SplitPaymentReceived(o) ==
  hold[o] = "held" /\ External(o) > 0 =>
    \E a \in Rows(o) : attempt'[a] = "succeeded"

\* The same to "paid": the whole total counts as paid, and the triggers ask what
\* they ask of a payment; no coupon use is consumed and no delivery begins.
TransitionPaid(o) ==
  /\ order[o] = "pending_payment"
  /\ ~ Untied(o)
  /\ order' = [order EXCEPT ![o] = "paid"]
  /\ ConsumeHold(o)
  /\ UNCHANGED <<coupon, settling, stock, tries, provider, events>>
  /\ SplitPaymentReceived(o)

\* SLIP: the statement looks at the request's read, not at the order's status.
ReleaseUnguarded(o) ==
  /\ order[o] # "absent"
  /\ reserved[o] > 0
  /\ ReturnStock(o)
  /\ UNCHANGED <<coupon, order, wallet, settling, tries, provider, events>>

\* An expiry run or a transition that read the order before it was closed: its
\* compare-and-set fails, its releaseSaleStatements run.
ReleaseTooLate(o) ==
  /\ order[o] \in Unpaid
  /\ reserved[o] > 0
  /\ ReturnStock(o)
  /\ UNCHANGED <<coupon, order, wallet, settling, tries, provider, events>>

\* The fulfilment of a paid order, in one step.
Deliver(o) ==
  /\ order[o] = "paid"
  /\ delivery[o] = "pending"
  /\ order' = [order EXCEPT ![o] = "completed"]
  /\ delivery' = [delivery EXCEPT ![o] = "delivered"]
  /\ issued' = [issued EXCEPT ![o] = @ + reserved[o]]
  /\ reserved' = [reserved EXCEPT ![o] = 0]
  /\ UNCHANGED <<coupon, free, wallet, settling, tries, provider, events>>

-----------------------------------------------------------------------------
(***************************************************************************)
(* createShopPayment: the amount is quoted from the order and its hold,    *)
(* the attempt is inserted, the provider is called, its answer is saved.   *)
(***************************************************************************)
Quote(a) ==
  LET o == OrderOf[a] IN
    /\ call[a] = "none"
    /\ order[o] = "pending_payment"
    /\ hold[o] \in {"none", "held"}
    /\ call' = [call EXCEPT ![a] = "quoted"]
    /\ quoted' = [quoted EXCEPT ![a] = External(o)]
    /\ UNCHANGED <<coupon, order, wallet, settling, stock, attempt, known,
                   provider, events>>

\* SLIP: the funding snapshot is not compared with the hold.
FundingUnchecked(a) ==
  LET o == OrderOf[a] IN
    hold[o] # "none" =>
      \A b \in Rows(o) : attempt[b] \notin Live \cup {"succeeded"}

\* Triggers payment_funding_snapshot_guard and
\* mixed_payment_single_attempt_guard.
FundingHolds(a) ==
  LET o == OrderOf[a] IN
    hold[o] # "none" =>
      /\ hold[o] = "held"
      /\ quoted[a] = External(o)
      /\ \A b \in Rows(o) : attempt[b] \notin Live \cup {"succeeded"}

InsertAttempt(a) ==
  /\ call[a] = "quoted"
  /\ FundingHolds(a)
  /\ call' = [call EXCEPT ![a] = "calling"]
  /\ attempt' = [attempt EXCEPT ![a] = "created"]
  /\ UNCHANGED <<coupon, order, wallet, settling, stock, quoted, known,
                 provider, events>>

\* The provider accepts the call; its answer may never arrive.
OpenPayment(a) ==
  /\ call[a] = "calling"
  /\ pay[a] = "none"
  /\ pay' = [pay EXCEPT ![a] = "open"]
  /\ UNCHANGED <<coupon, order, wallet, settling, stock, tries, declined,
                 events>>

SavePayment(a) ==
  /\ call[a] = "calling"
  /\ pay[a] # "none"
  /\ call' = [call EXCEPT ![a] = "done"]
  /\ IF attempt[a] = "created"
       THEN /\ attempt' = [attempt EXCEPT ![a] = "pending"]
            /\ known' = known \cup {a}
       ELSE UNCHANGED <<attempt, known>>
  /\ UNCHANGED <<coupon, order, wallet, settling, stock, quoted, provider,
                 events>>

\* An attempt ends without a payment.  Trigger mixed_payment_failure_release
\* releases the hold of a split payment and cancels its order.
EndAttempt(a, s) ==
  LET o == OrderOf[a] IN
    IF attempt[a] \in Live
      THEN /\ attempt' = [attempt EXCEPT ![a] = s]
           /\ IF order[o] = "pending_payment" /\ hold[o] \in {"held", "released"}
                THEN Close(o, "cancelled") /\ ReleasePromotion(o)
                ELSE ReleaseHold(o) /\ UNCHANGED <<order, coupon>>
      ELSE UNCHANGED <<attempt, order, wallet, coupon>>

CreationFails(a) ==
  /\ call[a] = "calling"
  /\ call' = [call EXCEPT ![a] = "done"]
  /\ EndAttempt(a, "failed")
  /\ UNCHANGED <<settling, stock, quoted, known, provider, events>>

\* Checkout leaves a failed attempt behind when the request above inserted none.
RecordFailedCheckout(a) ==
  LET o == OrderOf[a] IN
    /\ call[a] = "none"
    /\ order[o] # "absent"
    /\ Rows(o) = {}
    /\ hold[o] = "none"
    /\ call' = [call EXCEPT ![a] = "done"]
    /\ attempt' = [attempt EXCEPT ![a] = "failed"]
    /\ UNCHANGED <<coupon, order, wallet, settling, stock, quoted, known,
                   provider, events>>

-----------------------------------------------------------------------------
(***************************************************************************)
(* The provider.  A customer may fail to pay and pay on a second try.      *)
(***************************************************************************)
Charge(a) ==
  /\ pay[a] = "open"
  /\ pay' = [pay EXCEPT ![a] = "charged"]
  /\ UNCHANGED <<coupon, order, wallet, settling, stock, tries, declined,
                 events>>

Decline(a) ==
  /\ pay[a] = "open"
  /\ declined' = declined \cup {a}
  /\ UNCHANGED <<coupon, order, wallet, settling, stock, tries, pay, events>>

-----------------------------------------------------------------------------
(***************************************************************************)
(* processShopPaymentEvent, for the events of webhooks and of the          *)
(* reconciliation that cron and order pages start.                         *)
(***************************************************************************)
FailureEvent(a, s) ==
  /\ a \in known
  /\ a \in declined
  /\ attempt[a] \in Live
  /\ EndAttempt(a, s)
  /\ UNCHANGED <<settling, stock, call, quoted, known, provider, events>>

Write(a, s, v) == receipt' = [receipt EXCEPT ![a] = [@ EXCEPT ![s] = v]]

\* SLIP: an event for an order that cannot be paid is acknowledged.
RecordUnpaid(a, s) ==
  /\ Arrives(a, s)
  /\ ~ Untied(OrderOf[a])
  /\ attempt[a] = "succeeded" \/ order[OrderOf[a]] \notin Payable
  /\ Write(a, s, "processed")
  /\ UNCHANGED <<coupon, order, wallet, settling, stock, tries, provider,
                 marks, review>>

\* The attempt has succeeded already: the event is only recorded.
RecordAgain(a, s) ==
  /\ Arrives(a, s)
  /\ ~ Untied(OrderOf[a])
  /\ attempt[a] = "succeeded"
  /\ Write(a, s, "processed")
  /\ UNCHANGED <<coupon, order, wallet, settling, stock, tries, provider,
                 marks, review>>

Reject(a, s) ==
  /\ Arrives(a, s)
  /\ Untied(OrderOf[a])
  /\ Write(a, s, "rejected")
  /\ UNCHANGED <<coupon, order, wallet, settling, stock, tries, provider,
                 marks, review>>

\* The coupon use that expiry released is gone ...
BeginReview(a, s) ==
  /\ Arrives(a, s)
  /\ ~ Untied(OrderOf[a])
  /\ order[OrderOf[a]] = "expired"
  /\ use[OrderOf[a]] = "released"
  /\ used >= Limit
  /\ review' = review \cup {<<a, s>>}
  /\ UNCHANGED <<coupon, order, wallet, settling, stock, tries, provider,
                 marks, receipt>>

\* ... so the payment is held for review.
HoldForReview(a, s) ==
  /\ <<a, s>> \in review
  /\ receipt[a][s] = "none"
  /\ Write(a, s, "rejected")
  /\ UNCHANGED <<coupon, order, wallet, settling, stock, tries, provider,
                 marks, review>>

\* The order becomes paid, an expired one too when its coupon use can be
\* claimed again.  An event that read the order before the use was released
\* consumes it without counting it.
Settle(a, s) ==
  LET o == OrderOf[a] IN
    /\ Arrives(a, s)
    /\ ~ Untied(o)
    /\ attempt[a] # "succeeded"
    /\ order[o] \in Payable
    /\ \/ /\ use[o] = "released"
          /\ used < Limit
          /\ used' = used + 1
          /\ UNCHANGED uncounted
       \/ use[o] # "released" /\ UNCHANGED <<used, uncounted>>
       \/ /\ use[o] = "released"
          /\ <<a, s>> \in early
          /\ uncounted' = uncounted \cup {o}
          /\ UNCHANGED used
    /\ use' = [use EXCEPT ![o] =
                 IF @ \in {"reserved", "released"} THEN "consumed" ELSE @]
    /\ Write(a, s, "processed")
    /\ attempt' = [attempt EXCEPT ![a] = IF @ = "failed" THEN @ ELSE "succeeded"]
    /\ SplitPaymentReceived(o)
    /\ order' = [order EXCEPT ![o] = "paid"]
    /\ ConsumeHold(o)
    /\ Fulfil(o)
    /\ UNCHANGED <<purpose, settling, call, quoted, known, provider, asked, ruled,
                   early, review>>

\* The cron stops selecting the attempt: it is older than a day, its channel is
\* disabled, or twenty older attempts come before it.
Lapse(a) ==
  /\ a \in asked
  /\ asked' = asked \ {a}
  /\ UNCHANGED <<coupon, order, wallet, settling, stock, tries, provider, ruled,
                 early, uncounted, review, receipt>>

-----------------------------------------------------------------------------
OrderStep(o) ==
  \/ Checkout(o)
  \/ BeginHold(o)
  \/ InsertHold(o)
  \/ CancelUnstartedBalancePayment(o)
  \/ BeginFullHold(o)
  \/ CompleteFullHold(o)
  \/ BeginWallet(o)
  \/ CompleteWallet(o)
  \/ CompleteTooLate(o)
  \/ Expire(o)
  \/ ExpireTooLate(o)
  \/ \E s \in Closed : Transition(o, s)
  \/ TransitionFailed(o)
  \/ TransitionPaid(o)
  \/ ReleaseTooLate(o)
  \/ Deliver(o)

AttemptStep(a) ==
  \/ Quote(a)
  \/ InsertAttempt(a)
  \/ OpenPayment(a)
  \/ SavePayment(a)
  \/ CreationFails(a)
  \/ RecordFailedCheckout(a)
  \/ Charge(a)
  \/ Decline(a)
  \/ \E s \in {"failed", "expired"} : FailureEvent(a, s)
  \/ Lapse(a)

SuccessEvent(a, s) ==
  \/ RecordAgain(a, s)
  \/ Reject(a, s)
  \/ BeginReview(a, s)
  \/ HoldForReview(a, s)
  \/ Settle(a, s)

Next ==
  \/ \E o \in Orders : OrderStep(o)
  \/ \E a \in Attempts : AttemptStep(a)
  \/ \E a \in Attempts, s \in Source : SuccessEvent(a, s)

Spec == Init /\ [][Next]_vars

\* The minute cron asks the provider again as long as it selects the attempt.
FairSpec ==
  Spec /\ \A a \in Attempts :
            WF_vars(a \in asked /\ SuccessEvent(a, "reconcile"))

-----------------------------------------------------------------------------
\* Every column holds a value of its domain (schema of shop_orders,
\* coupon_redemptions, order_balance_holds, stock_entries, payment_attempts).
TypeOK ==
  /\ purpose \in Purposes
  /\ order \in [Orders -> {"absent", "pending_payment"} \cup Bought \cup Unpaid]
  /\ use \in [Orders -> {"none", "reserved", "consumed", "released"}]
  /\ used \in Nat
  /\ hold \in [Orders -> {"none", "held", "consumed", "released"}]
  /\ cash \in [Orders -> 0 .. Total]
  /\ balance \in Nat
  /\ debited \subseteq Orders
  /\ offers \in [Orders -> SUBSET (1 .. Total)]
  /\ current \subseteq Orders
  /\ outdated \subseteq Orders
  /\ settling \subseteq Orders
  /\ free \in Nat
  /\ reserved \in [Orders -> 0 .. Quantity]
  /\ issued \in [Orders -> Nat]
  /\ delivery \in [Orders -> {"none", "pending", "failed", "delivered"}]
  /\ call \in [Attempts -> {"none", "quoted", "calling", "done"}]
  /\ attempt \in [Attempts -> {"absent", "failed", "expired", "succeeded"} \cup Live]
  /\ quoted \in [Attempts -> 0 .. Total]
  /\ known \subseteq Attempts
  /\ pay \in [Attempts -> {"none", "open", "charged"}]
  /\ declined \subseteq Attempts
  /\ asked \subseteq Recent
  /\ ruled \subseteq Orders
  /\ early \subseteq Attempts \X Source
  /\ uncounted \subseteq Orders
  /\ review \subseteq Attempts \X Source
  /\ receipt \in [Attempts -> [Source -> {"none", "processed", "rejected"}]]

HeldCash(o) == IF hold[o] \in {"held", "consumed"} THEN cash[o] ELSE 0

\* A delivery is recorded for a paid order only when its total was paid: by the
\* balance, by a hold of the whole total, or by a charge that covers what the
\* consumed hold leaves open, whatever raced with the quote of that charge.  An
\* order that an administrator declares paid gets no delivery.
PaidInFull ==
  \A o \in Orders : order[o] \in Bought /\ delivery[o] # "none" =>
    \/ o \in debited
    \/ hold[o] = "consumed" /\ cash[o] = Total
    \/ \E a \in Attempts :
         /\ OrderOf[a] = o
         /\ pay[a] = "charged"
         /\ quoted[a] + HeldCash(o) = Total

\* No balance is lost or made: it goes down by what open and consumed holds
\* and wallet payments took, and no order takes both.
BalanceAddsUp ==
  /\ balance + SumOver([o \in Orders |-> HeldCash(o)], Orders)
       + Total * Cardinality(debited) = Balance
  /\ \A o \in debited : HeldCash(o) = 0

Counted == Uses \ uncounted

\* The counter of a coupon never passes its limit and says how often the coupon
\* is used, except for uses that an expiry run released after an administrator
\* had let their order expire.  An order that got the discount and was paid and
\* handed to fulfilment has used it.
CouponUsesCounted ==
  /\ used <= Limit
  /\ used = Cardinality(Counted)
  /\ \A o \in uncounted : use[o] = "consumed" /\ o \in ruled
  /\ \A o \in Couponed :
       order[o] \in Bought /\ delivery[o] # "none" => use[o] = "consumed"

\* A hold is open only while the order can be paid with it, or after an
\* administrator declared the order failed; it is consumed only when the order
\* becomes paid and released only when it does not: a released hold never
\* belongs to a paid order.
HoldFollowsOrder ==
  \A o \in Orders :
    /\ hold[o] = "held" => order[o] \in {"pending_payment", "failed"}
    /\ hold[o] = "consumed" => order[o] \in Bought
    /\ hold[o] = "released" => order[o] \in Unpaid

\* A delivery that is handed to fulfilment has all its codes, and a code is
\* never promised to two orders.
PendingDeliveryHasCodes ==
  \A o \in Orders :
    delivery[o] = "pending" => order[o] = "paid" /\ reserved[o] = Quantity

\* A success event that the store acknowledged as processed has paid its order,
\* and an attempt that succeeded paid it.
AcknowledgedIsPaid ==
  \A a \in Attempts :
    (attempt[a] = "succeeded" \/ \E s \in Source : receipt[a][s] = "processed")
      => order[OrderOf[a]] \in Bought

\* A charge of a payment the store knows about and the cron asks for is answered
\* in the end: its order is paid or finally closed, or the payment is held for
\* review, unless a failure notice ended the attempt first or the cron no longer
\* selects it.
ChargeIsAnswered ==
  \A a \in Attempts :
    pay[a] = "charged" /\ a \in known ~>
      \/ order[OrderOf[a]] \notin Payable
      \/ \E s \in Source : receipt[a][s] # "none"
      \/ attempt[a] = "failed"
      \/ a \notin asked
=============================================================================
