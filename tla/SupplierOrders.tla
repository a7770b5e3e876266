--------------------------- MODULE SupplierOrders ---------------------------
(***************************************************************************)
(* The purchase that fills one paid order item from a pool of supplier     *)
(* accounts (features/suppliers/server/process.ts, orders-admin.ts,        *)
(* dujiao-callback.ts, with the cancellation of                            *)
(* features/fulfillment/server/refund-cancellation.ts).                    *)
(*                                                                         *)
(* A queue message starts a run, which a task lease keeps alone.  The run  *)
(* claims an account, asks its supplier to sell, and applies the answer;   *)
(* an account whose answer is not known stays selected and is asked about  *)
(* by later runs.  The supplier's callback, an administrator who read the  *)
(* order earlier, and the refund of the shop order write the row between   *)
(* any two statements of the run, and the process may die there.           *)
(*                                                                         *)
(* Prices, balances, rate limits and health decide whether an account may  *)
(* be asked: here any may be left out.  A lease outlives its run: it is 30 *)
(* minutes long and every call in a run times out.                         *)
(*                                                                         *)
(* The adapters take every HTTP status but 200 for a rejection, also the   *)
(* error of a gateway whose supplier did take the order.  A rejection      *)
(* therefore proves nothing: `denied' remembers the purchases that the     *)
(* shop was told it had not made, and the properties say what holds for    *)
(* the others.                                                             *)
(*                                                                         *)
(* Each definition whose comment begins with SLIP is a wrong variant of    *)
(* the one that follows it, used to see that the properties notice.        *)
(***************************************************************************)
EXTENDS Naturals, FiniteSets

CONSTANTS
  Accounts,    \* supplier accounts of the order's source
  None,        \* no account
  MaxAttempts, \* deliveries of a queue message before it is a dead letter
  Manual       \* administrators act on the order

ASSUME SuppliersAssumption ==
  /\ None \notin Accounts
  /\ MaxAttempts \in Nat \ {0}
  /\ Manual \in BOOLEAN

VARIABLES
  state,     \* supplier_orders.state
  account,   \* selected_account_id
  locked,    \* account_locked_at is set
  upstream,  \* the account whose order number is in upstream_order_id
  cards,     \* the account whose cards are in stock_entries
  delivery,  \* delivery_records.status
  refunded,  \* the shop order is refunded
  message,   \* deliveries left of the queue message
  lease,     \* a run of the task supplier.order.<id> is marked as running
  pc,        \* where the run is
  asked,     \* the account the run deals with
  left,      \* candidates the run has not tried
  answer,    \* what the supplier answered
  intents,   \* states that administrators are about to write
  purchase,  \* what each account has bought at its supplier
  denied     \* accounts whose supplier answered no to what it had sold

row == <<state, account, locked, upstream>>
goods == <<cards, delivery>>
run == <<pc, asked, left, answer>>
queue == <<message, lease>>
market == <<purchase, denied>>
vars == <<row, goods, refunded, queue, run, intents, market>>

Bought == {"placed", "ready"}
Open == {"submitting", "uncertain"}
Unclaimed == {"pending", "selecting"}

Init ==
  /\ state = "pending"
  /\ account = None
  /\ locked = FALSE
  /\ upstream = None
  /\ cards = None
  /\ delivery = "awaiting_supply"
  /\ refunded = FALSE
  /\ message = MaxAttempts
  /\ lease = FALSE
  /\ pc = "idle"
  /\ asked = None
  /\ left = {}
  /\ answer = "none"
  /\ intents = {}
  /\ purchase = [a \in Accounts |-> "none"]
  /\ denied = {}

Goto(step) == pc' = step /\ UNCHANGED <<asked, left, answer>>

-----------------------------------------------------------------------------
(***************************************************************************)
(* The statements of a run and of a callback.                              *)
(***************************************************************************)
\* markUncertain: the account is locked with the order number, if there is one.
MarkUncertain(number) ==
  IF account # None /\ state \in Open
    THEN /\ state' = "uncertain"
         /\ locked' = TRUE
         /\ upstream' = IF number = None THEN upstream ELSE number
         /\ UNCHANGED account
    ELSE UNCHANGED row

\* SLIP: a rejection also frees an account whose purchase is not known to fail.
ReleaseLocked(a) ==
  IF account = a
    THEN /\ state' = "selecting"
         /\ account' = None
         /\ upstream' = None
         /\ locked' = FALSE
    ELSE UNCHANGED row

\* releaseDefinitiveFailure, whatever the state of the order.
Release(a) ==
  IF account = a /\ ~ locked
    THEN /\ state' = "selecting"
         /\ account' = None
         /\ upstream' = None
         /\ UNCHANGED locked
    ELSE UNCHANGED row

\* SLIP: the delivery becomes pending whatever it was.
FulfillAnyDelivery(a) ==
  \/ /\ state \in Open
     /\ state' = "supplied"
     /\ upstream' = a
     /\ cards' = IF cards = None THEN a ELSE cards
     /\ delivery' = "pending"
     /\ UNCHANGED <<account, locked>>
  \/ /\ state \notin Open
     /\ upstream' = IF state = "refunded" THEN a ELSE upstream
     /\ UNCHANGED <<state, account, locked, goods>>

\* SLIP: only the cards follow the step to supplied.
FulfillUnguarded(a) ==
  /\ delivery' = IF delivery = "awaiting_supply" THEN "pending" ELSE delivery
  /\ IF state \in Open
       THEN state' = "supplied" /\ upstream' = a /\ cards' = a
       ELSE UNCHANGED <<state, upstream, cards>>
  /\ UNCHANGED <<account, locked>>

\* fulfillSupplierOrder: cards and delivery follow the step to supplied; their
\* numbers are made from the order's, so that they are stored once.  An order
\* that is refunded by now only keeps the supplier's order number.
Fulfill(a) ==
  \/ /\ state \in Open
     /\ state' = "supplied"
     /\ upstream' = a
     /\ cards' = IF cards = None THEN a ELSE cards
     /\ delivery' = IF delivery = "awaiting_supply" THEN "pending" ELSE delivery
     /\ UNCHANGED <<account, locked>>
  \/ /\ state \notin Open
     /\ upstream' = IF state = "refunded" THEN a ELSE upstream
     /\ UNCHANGED <<state, account, locked, goods>>

-----------------------------------------------------------------------------
(***************************************************************************)
(* A delivery of the queue message.                                        *)
(***************************************************************************)
\* SLIP: a dead letter is delivered again.
RefuseDeadLetter ==
  /\ lease \/ state \in {"supplied", "failed", "refunded"}
  /\ message' = IF ~ lease /\ state = "supplied" THEN 0 ELSE message - 1
  /\ UNCHANGED <<row, goods, refunded, lease, run, intents, market>>

\* Another run is marked as running, or the order has come to an end.
Refuse ==
  /\ message > 0
  /\ lease \/ state \in {"supplied", "failed", "refunded"}
  /\ message' = IF ~ lease /\ state = "supplied" THEN 0 ELSE message - 1
  /\ UNCHANGED <<row, goods, refunded, lease, run, intents, market>>

\* processSupplierOrderUnlocked reads the order.
Load ==
  /\ message > 0
  /\ ~ lease
  /\ state \notin {"supplied", "failed", "refunded"}
  /\ message' = message - 1
  /\ lease' = TRUE
  /\ IF account = None
       THEN pc' = "loaded" /\ asked' = None
       ELSE pc' = "reconciling" /\ asked' = account
  /\ answer' = IF upstream = None THEN "unnumbered" ELSE "numbered"
  /\ UNCHANGED <<row, goods, refunded, left, intents, market>>

Select ==
  /\ pc = "loaded"
  /\ state' = IF state = "pending" /\ account = None THEN "selecting" ELSE state
  /\ pc' = "choosing"
  /\ left' \in SUBSET Accounts
  /\ UNCHANGED <<account, locked, upstream, goods, refunded, queue, asked,
                 answer, intents, market>>

\* The candidate is busy, over its budget, unreachable, or its claim fails.
Skip(a) ==
  /\ pc = "choosing"
  /\ a \in left
  /\ left' = left \ {a}
  /\ UNCHANGED <<row, goods, refunded, queue, pc, asked, answer, intents,
                 market>>

Claim(a) ==
  /\ pc = "choosing"
  /\ a \in left
  /\ account = None
  /\ state \in Unclaimed
  /\ left' = left \ {a}
  /\ account' = a
  /\ state' = "submitting"
  /\ asked' = a
  /\ pc' = "claimed"
  /\ UNCHANGED <<locked, upstream, goods, refunded, queue, answer, intents,
                 market>>

Exhaust ==
  /\ pc = "choosing"
  /\ left = {}
  /\ state' = IF account = None /\ state \in Unclaimed THEN "failed" ELSE state
  /\ Goto("failing")
  /\ UNCHANGED <<account, locked, upstream, goods, refunded, queue, intents,
                 market>>

-----------------------------------------------------------------------------
(***************************************************************************)
(* The supplier's answers.                                                 *)
(***************************************************************************)
\* submitOrder.  A request number that the supplier knows buys nothing more.
\* Any answer may be lost or replaced by a gateway's error, a rejection.
Submit ==
  /\ pc = "claimed"
  /\ pc' = "answered"
  /\ \/ /\ purchase[asked] = "none"
        /\ \/ /\ answer' \in {"processing", "lost", "rejected"}
              /\ purchase' = [purchase EXCEPT ![asked] = "placed"]
           \/ /\ answer' = "supplied"
              /\ purchase' = [purchase EXCEPT ![asked] = "ready"]
     \/ /\ \/ answer' \in {"lost", "rejected"}
           \/ answer' = "processing" /\ purchase[asked] # "none"
        /\ UNCHANGED purchase
  /\ denied' = IF answer' = "rejected" /\ purchase'[asked] \in Bought
                 THEN denied \cup {asked} ELSE denied \ {asked}
  /\ UNCHANGED <<row, goods, refunded, queue, asked, left, intents>>

\* reconcileOrder asks with the order number that the run has read; without one
\* nothing can be asked.  Any call may fail, and the run then ends.
Reconcile ==
  /\ pc = "reconciling"
  /\ \/ /\ pc' = "reconciled"
        /\ answer' =
             IF answer = "unnumbered" THEN "lost"
             ELSE CASE purchase[asked] = "ready" -> "supplied"
                    [] purchase[asked] = "cancelled" -> "rejected"
                    [] OTHER -> "processing"
     \/ pc' = "failing" /\ UNCHANGED answer
  /\ UNCHANGED <<row, goods, refunded, queue, asked, left, intents, market>>

Number == IF answer = "processing" THEN asked ELSE None

\* SLIP: a lost answer frees the account like a rejection.
ApplyLostAsRejected ==
  /\ pc \in {"answered", "reconciled"}
  /\ answer # "supplied"
  /\ IF answer \in {"rejected", "lost"}
       THEN /\ Release(asked)
            /\ Goto(IF pc = "answered" THEN "choosing" ELSE "failing")
       ELSE /\ MarkUncertain(Number)
            /\ Goto(IF pc = "answered" THEN "caught" ELSE "failing")
  /\ UNCHANGED <<goods, refunded, queue, intents, market>>

\* applyPurchaseResult for an answer without cards, or the catch of a call that
\* threw one.  A rejected submission releases its account, whatever the row says
\* by now, and goes on with the next candidate; any other error is looked at once
\* more.
Apply ==
  /\ pc \in {"answered", "reconciled"}
  /\ answer # "supplied"
  /\ IF answer = "rejected"
       THEN /\ Release(asked)
            /\ Goto(IF pc = "answered" THEN "choosing" ELSE "failing")
       ELSE /\ MarkUncertain(Number)
            /\ Goto(IF pc = "answered" THEN "caught" ELSE "failing")
  /\ UNCHANGED <<goods, refunded, queue, intents, market>>

\* applyPurchaseResult keeps the identity of the purchase before anything else.
KeepIdentity ==
  /\ pc \in {"answered", "reconciled"}
  /\ answer = "supplied"
  /\ MarkUncertain(asked)
  /\ Goto("importing")
  /\ UNCHANGED <<goods, refunded, queue, intents, market>>

Import ==
  /\ pc = "importing"
  /\ Fulfill(asked)
  /\ Goto("done")
  /\ UNCHANGED <<refunded, queue, intents, market>>

\* The number of cards is wrong, or they cannot be stored.
ImportFails ==
  /\ pc = "importing"
  /\ MarkUncertain(asked)
  /\ Goto("caught")
  /\ UNCHANGED <<goods, refunded, queue, intents, market>>

\* The run looks at the order once more before it gives up.
Recheck ==
  /\ pc = "caught"
  /\ IF account = asked /\ state # "uncertain"
       THEN MarkUncertain(None)
       ELSE UNCHANGED row
  /\ Goto("failing")
  /\ UNCHANGED <<goods, refunded, queue, intents, market>>

\* The end of a run frees the task and acknowledges the message or returns it.
Finish ==
  /\ pc \in {"done", "failing"}
  /\ message' = IF pc = "done" THEN 0 ELSE message
  /\ lease' = FALSE
  /\ Goto("idle")
  /\ UNCHANGED <<row, goods, refunded, intents, market>>

-----------------------------------------------------------------------------
(***************************************************************************)
(* Everybody else.                                                         *)
(***************************************************************************)
\* The process dies in a run; its task stays marked as running ...
Crash ==
  /\ pc # "idle"
  /\ Goto("idle")
  /\ UNCHANGED <<row, goods, refunded, queue, intents, market>>

\* ... until its lease has expired.
ExpireLease ==
  /\ lease
  /\ pc = "idle"
  /\ lease' = FALSE
  /\ UNCHANGED <<row, goods, refunded, message, run, intents, market>>

\* The signed callback with the cards.
Callback(a) ==
  /\ purchase[a] = "ready"
  /\ account = a
  /\ upstream \in {None, a}
  /\ state \in Open
  /\ Fulfill(a)
  /\ UNCHANGED <<refunded, queue, run, intents, market>>

\* A callback that read the order before its refund.
CallbackTooLate(a) ==
  /\ purchase[a] = "ready"
  /\ account = a
  /\ upstream \in {None, a}
  /\ state = "refunded"
  /\ Fulfill(a)
  /\ UNCHANGED <<refunded, queue, run, intents, market>>

\* An administrator reads the order: reselect writes pending, reconcile writes
\* the state that was read ...
Consider ==
  /\ Manual
  /\ state \notin {"supplied", "refunded"}
  /\ \/ state # "uncertain" /\ ~ locked /\ intents' = intents \cup {"pending"}
     \/ account # None /\ intents' = intents \cup {state}
  /\ UNCHANGED <<row, goods, refunded, queue, run, market>>

\* ... and writes it, whatever has happened since (actSupplierOrderFn).
Act(s) ==
  /\ s \in intents
  /\ state' = s
  /\ message' = MaxAttempts
  /\ UNCHANGED <<account, locked, upstream, goods, refunded, lease, run,
                 intents, market>>

\* SLIP: only a delivery that has its cards is stopped.
RefundPending ==
  /\ ~ refunded
  /\ refunded' = TRUE
  /\ state' = IF state = "supplied" THEN state ELSE "refunded"
  /\ delivery' = IF delivery = "pending" THEN "failed" ELSE delivery
  /\ UNCHANGED <<account, locked, upstream, cards, queue, run, intents, market>>

\* The refund of the shop order completes (cancelOpenFulfillmentStatements).
Refund ==
  /\ ~ refunded
  /\ refunded' = TRUE
  /\ state' = IF state = "supplied" THEN state ELSE "refunded"
  /\ delivery' = IF delivery \in {"awaiting_supply", "pending"} THEN "failed"
                 ELSE delivery
  /\ UNCHANGED <<account, locked, upstream, cards, queue, run, intents,
                 market>>

\* processDelivery, in one step: what is delivered has its cards, and the
\* delivery of a refunded order is closed.
Deliver ==
  /\ delivery = "pending"
  /\ ~ refunded => cards # None
  /\ delivery' = IF refunded THEN "failed" ELSE "delivered"
  /\ UNCHANGED <<row, cards, refunded, queue, run, intents, market>>

\* An administrator's retry asks for the status of the delivery only.
RetryDelivery ==
  /\ Manual
  /\ delivery = "failed"
  /\ delivery' = "pending"
  /\ UNCHANGED <<row, cards, refunded, queue, run, intents, market>>

\* The supplier fills or cancels what it has accepted.
Supply(a) ==
  /\ purchase[a] = "placed"
  /\ \E s \in {"ready", "cancelled"} : purchase' = [purchase EXCEPT ![a] = s]
  /\ UNCHANGED <<row, goods, refunded, queue, run, intents, denied>>

-----------------------------------------------------------------------------
RunStep ==
  \/ Refuse
  \/ Load
  \/ Select
  \/ \E a \in Accounts : Skip(a)
  \/ \E a \in Accounts : Claim(a)
  \/ Exhaust
  \/ Submit
  \/ Reconcile
  \/ Apply
  \/ KeepIdentity
  \/ Import
  \/ ImportFails
  \/ Recheck
  \/ Finish

OtherStep ==
  \/ Crash
  \/ ExpireLease
  \/ \E a \in Accounts : Callback(a)
  \/ \E a \in Accounts : CallbackTooLate(a)
  \/ Consider
  \/ \E s \in intents : Act(s)
  \/ Refund
  \/ Deliver
  \/ RetryDelivery
  \/ \E a \in Accounts : Supply(a)

Next == RunStep \/ OtherStep

Spec == Init /\ [][Next]_vars

-----------------------------------------------------------------------------
States == Unclaimed \cup Open \cup {"supplied", "failed", "refunded"}
Account == Accounts \cup {None}

\* The columns hold values of their domains, the run is at one of its steps.
TypeOK ==
  /\ state \in States
  /\ account \in Account
  /\ locked \in BOOLEAN
  /\ upstream \in Account
  /\ cards \in Account
  /\ delivery \in {"awaiting_supply", "pending", "delivered", "failed"}
  /\ refunded \in BOOLEAN
  /\ message \in 0 .. MaxAttempts
  /\ lease \in BOOLEAN
  /\ pc \in {"idle", "loaded", "choosing", "claimed", "answered", "reconciling",
             "reconciled", "importing", "caught", "done", "failing"}
  /\ asked \in Account
  /\ left \subseteq Accounts
  /\ answer \in {"none", "numbered", "unnumbered", "processing", "supplied",
                 "rejected", "lost"}
  /\ intents \subseteq States
  /\ purchase \in [Accounts -> {"none", "placed", "ready", "cancelled"}]
  /\ denied \subseteq Accounts

\* Whatever crashes, administrators and refunds do, an account that has paid
\* its supplier stays the selected account of the order, unless the supplier
\* answered no: a second account is only asked after such an answer, and an
\* operator finds the money (releaseDefinitiveFailure, markUncertain).
PurchaseStaysSelected ==
  \A a \in Accounts \ denied : purchase[a] \in Bought => account = a

\* Cards come from a purchase that the supplier has filled, at the account that
\* is selected or that was released on a false rejection after a callback had
\* brought them.  What is delivered or can be delivered has its cards, also when
\* deliveries are retried by hand (fulfillSupplierOrder, processDelivery).
DeliveredFromPurchase ==
  /\ cards # None => /\ purchase[cards] = "ready"
                     /\ account = cards \/ cards \in denied
  /\ \/ state = "supplied"
     \/ delivery = "delivered"
     \/ delivery = "pending" /\ ~ refunded
     => cards # None

\* After the refund of the shop order neither a supplier nor a purchase that a
\* late write opened again moves the delivery: an administrator may ask for it
\* again, and then it is closed (cancelOpenFulfillmentStatements).
RefundEndsDelivery ==
  [][refunded /\ delivery' # delivery =>
       RetryDelivery \/ (delivery = "pending" /\ delivery' = "failed")]_vars

\* What happens at the suppliers, to the goods and to the delivery, without the
\* row, the runs and the administrators that bring it about.
Promise == INSTANCE PurchaseOnce WITH
  spent <- {a \in Accounts : purchase[a] \in Bought},
  denied <- {a \in denied : purchase[a] \in Bought},
  filled <- {a \in Accounts : purchase[a] = "ready"},
  goods <- IF cards = None THEN {} ELSE {cards}

\* Through crashes, callbacks, stale writes, retries and a refund, the shop spends
\* money at one account at a time but for those that deny it, takes goods once, and
\* delivers them once and not after the refund (processSupplierOrder,
\* fulfillSupplierOrder, processDelivery).
BuysOnce == Promise!Spec

\* An uncertain purchase stays on its account: a lock, once set, is not lifted
\* and the account it locks is not changed.
LockedStays == [][locked => locked' /\ account' = account]_vars

\* After the refund of the shop order no account is claimed for a purchase.
NoPurchaseAfterRefund == [][refunded => account' \in {account, None}]_vars
=============================================================================
