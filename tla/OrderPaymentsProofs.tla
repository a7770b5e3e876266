------------------------- MODULE OrderPaymentsProofs -------------------------
(***************************************************************************)
(* Proofs about OrderPayments, for every number of orders and attempts,    *)
(* all amounts and every stock: holds follow their order, only a payment   *)
(* of the total is delivered, an acknowledged payment has bought, a        *)
(* delivery starts with its codes, and coupon uses are counted.            *)
(***************************************************************************)
EXTENDS OrderPayments, SumsProofs, TLAPS

\* What requests read of the balance still holds for those whose read is
\* current, and a full hold stays one.
ReadsHold ==
  /\ \A o \in current : hold[o] = "none" /\ balance >= Total
  /\ \A o \in settling : hold[o] # "none" /\ cash[o] = Total

\* The provider knows a payment only of an attempt that was inserted.
AttemptsInserted ==
  \A a \in Attempts :
    /\ call[a] \in {"none", "quoted"} <=> attempt[a] = "absent"
    /\ pay[a] # "none" => call[a] \in {"calling", "done"}
    /\ call[a] # "none" => order[OrderOf[a]] # "absent"
    /\ a \in known => pay[a] # "none"

\* An amount quoted without a hold is the total, and what an attempt asks for
\* is what its order's hold leaves open, until that hold is released.
QuotesHold ==
  \A a \in Attempts :
    LET o == OrderOf[a] IN
      /\ call[a] = "quoted" /\ hold[o] = "none" => quoted[a] = Total
      /\ (call[a] = "calling" \/ pay[a] # "none") /\ hold[o] # "released"
           => quoted[a] + HeldCash(o) = Total

\* A use is reserved at checkout and released only with the order; expiry
\* releases it unless an administrator let the order expire.
UsesFollowOrder ==
  /\ \A o \in Orders :
       /\ o \in Couponed /\ order[o] # "absent" => use[o] # "none"
       /\ order[o] = "absent" => use[o] = "none"
       /\ use[o] = "released" => order[o] \in Closed
       /\ use[o] = "reserved" /\ order[o] = "expired" => o \in ruled
  /\ \A e \in early : OrderOf[e[1]] \in ruled

\* Only an order that was paid has a delivery.
DeliveriesFollowOrder ==
  \A o \in Orders : delivery[o] # "none" => order[o] \in Bought

\* The part of the type invariant about the coupon, and about the balance.
CouponTyped ==
  /\ purpose \in Purposes
  /\ use \in [Orders -> {"none", "reserved", "consumed", "released"}]
  /\ used \in Nat

WalletTyped ==
  /\ hold \in [Orders -> {"none", "held", "consumed", "released"}]
  /\ cash \in [Orders -> 0 .. Total]
  /\ balance \in Nat
  /\ debited \subseteq Orders
  /\ offers \in [Orders -> SUBSET (1 .. Total)]
  /\ current \subseteq Orders
  /\ outdated \subseteq Orders

Inv ==
  /\ TypeOK
  /\ ReadsHold
  /\ AttemptsInserted
  /\ QuotesHold
  /\ UsesFollowOrder
  /\ HoldFollowsOrder
  /\ PaidInFull
  /\ CouponUsesCounted
  /\ PendingDeliveryHasCodes
  /\ DeliveriesFollowOrder
  /\ AcknowledgedIsPaid

-----------------------------------------------------------------------------
\* An attempt that ends cancels its order when that has an open hold, releases
\* the hold of an order that was declared failed, and touches no hold otherwise.
LEMMA EndAttemptEffect ==
  ASSUME NEW a \in Attempts, NEW s, TypeOK, HoldFollowsOrder, EndAttempt(a, s)
  PROVE  \/ UNCHANGED <<attempt, order, wallet, coupon>>
         \/ /\ attempt[a] \in Live
            /\ attempt' = [attempt EXCEPT ![a] = s]
            /\ \/ UNCHANGED <<order, wallet, coupon>>
               \/ /\ order[OrderOf[a]] = "pending_payment"
                  /\ hold[OrderOf[a]] = "held"
                  /\ Close(OrderOf[a], "cancelled")
                  /\ ReleasePromotion(OrderOf[a])
               \/ /\ order[OrderOf[a]] = "failed"
                  /\ hold[OrderOf[a]] = "held"
                  /\ ReleaseHold(OrderOf[a])
                  /\ UNCHANGED <<order, coupon>>
<1>1. OrderOf[a] \in Orders
  BY PaymentsAssumption
<1>2. hold[OrderOf[a]] # "held" => (ReleaseHold(OrderOf[a]) => UNCHANGED wallet)
  BY DEF ReleaseHold, wallet
<1>3. hold[OrderOf[a]] = "held" => order[OrderOf[a]] \in {"pending_payment", "failed"}
  BY <1>1 DEF HoldFollowsOrder
<1>4. hold[OrderOf[a]] = "released" => order[OrderOf[a]] # "pending_payment"
  BY <1>1 DEF HoldFollowsOrder, Closed, Unpaid
<1> QED
  BY <1>1, <1>2, <1>3, <1>4 DEF EndAttempt

\* The counter of the coupon follows its uses.
LEMMA UseReleased ==
  ASSUME NEW o \in Orders, TypeOK, CouponUsesCounted, ReleaseUse(o),
         uncounted' = uncounted
  PROVE  /\ CouponTyped'
         /\ used' <= used
         /\ used' = Cardinality(Counted')
         /\ \A p \in uncounted : use'[p] = "consumed"
<1>1. /\ IsFiniteSet(Counted) /\ used = Cardinality(Counted)
      /\ \A p \in uncounted : p \in Orders /\ use[p] = "consumed"
  BY PaymentsAssumption, FS_Subset DEF Counted, Uses, CouponUsesCounted, TypeOK
<1>2. CASE use[o] = "reserved"
  <2>1. o \in Counted /\ Counted' = Counted \ {o}
    BY <1>1, <1>2 DEF Counted, Uses, ReleaseUse, TypeOK
  <2>2. Cardinality(Counted') = Cardinality(Counted) - 1 /\ IsFiniteSet(Counted')
    BY <1>1, <2>1, FS_RemoveElement
  <2>3. Cardinality(Counted') \in Nat /\ Cardinality(Counted) \in Nat
    BY <1>1, <2>2, FS_CardinalityType
  <2>4. used' = used - 1 /\ purpose' = purpose
    BY <1>2 DEF ReleaseUse
  <2>5. use' \in [Orders -> {"none", "reserved", "consumed", "released"}]
    BY <1>2 DEF ReleaseUse, TypeOK
  <2>6. \A p \in uncounted : use'[p] = "consumed"
    BY <1>1, <1>2 DEF ReleaseUse, TypeOK
  <2> QED
    BY <1>1, <2>2, <2>3, <2>4, <2>5, <2>6 DEF CouponTyped, TypeOK
<1>3. CASE use[o] # "reserved"
  <2>1. UNCHANGED <<purpose, use, used>>
    BY <1>3 DEF ReleaseUse, coupon
  <2>2. Counted' = Counted
    BY <2>1 DEF Counted, Uses
  <2> QED
    BY <1>1, <2>1, <2>2 DEF TypeOK, CouponTyped
<1> QED
  BY <1>2, <1>3

\* The same for the trigger, which leaves a standard coupon alone.
LEMMA PromotionReleased ==
  ASSUME NEW o \in Orders, TypeOK, CouponUsesCounted, ReleasePromotion(o),
         uncounted' = uncounted
  PROVE  /\ CouponTyped'
         /\ used' <= used
         /\ used' = Cardinality(Counted')
         /\ \A p \in uncounted : use'[p] = "consumed"
<1>1. CASE purpose = "standard"
  <2>1. UNCHANGED <<purpose, use, used>>
    BY <1>1 DEF ReleasePromotion, coupon
  <2>2. Counted' = Counted
    BY <2>1 DEF Counted, Uses
  <2> QED
    BY <2>1, <2>2 DEF TypeOK, CouponTyped, CouponUsesCounted
<1>2. CASE purpose # "standard"
  BY <1>2, UseReleased DEF ReleasePromotion
<1> QED
  BY <1>1, <1>2

\* Releasing a hold keeps the balance's columns in their domains.
LEMMA HoldReleased ==
  ASSUME NEW o \in Orders, TypeOK, ReleaseHold(o)
  PROVE  WalletTyped'
<1> USE DEF WalletTyped, TypeOK
<1>1. CASE hold[o] = "held"
  <2>1. balance + cash[o] \in Nat
    OBVIOUS
  <2> QED
    BY <1>1, <2>1 DEF ReleaseHold, WriteBalance
<1>2. CASE hold[o] # "held"
  BY <1>2 DEF ReleaseHold
<1> QED
  BY <1>1, <1>2

\* Codes are reserved up to the quantity and returned to the free ones.
LEMMA StockMoved ==
  ASSUME NEW o \in Orders, TypeOK, TakeStock(o) \/ ReturnStock(o)
  PROVE  free' \in Nat /\ reserved' \in [Orders -> 0 .. Quantity]
<1> USE PaymentsAssumption
<1>1. /\ free \in Nat /\ reserved[o] \in 0 .. Quantity /\ Quantity \in Nat
      /\ reserved \in [Orders -> 0 .. Quantity]
  BY DEF TypeOK
<1>2. CASE TakeStock(o)
  BY <1>1, <1>2 DEF TakeStock
<1>3. CASE ReturnStock(o)
  BY <1>1, <1>3 DEF ReturnStock
<1> QED
  BY <1>2, <1>3

\* What an attempt that ends changes stays in its domain.
LEMMA EndAttemptTyped ==
  ASSUME NEW a \in Attempts, NEW s \in {"failed", "expired"}, TypeOK,
         HoldFollowsOrder, CouponUsesCounted, EndAttempt(a, s),
         uncounted' = uncounted
  PROVE  /\ attempt' \in [Attempts -> {"absent", "failed", "expired", "succeeded"} \cup Live]
         /\ order' \in [Orders -> {"absent", "pending_payment"} \cup Bought \cup Unpaid]
         /\ CouponTyped'
         /\ WalletTyped'
         /\ used' <= used
         /\ used' = Cardinality(Counted')
         /\ \A p \in uncounted : use'[p] = "consumed"
<1>1. OrderOf[a] \in Orders
  BY PaymentsAssumption
<1> DEFINE T == [Attempts -> {"absent", "failed", "expired", "succeeded"} \cup Live]
<1>2. attempt' \in T
  <2>1. attempt' = attempt \/ attempt' = [attempt EXCEPT ![a] = s]
    BY EndAttemptEffect
  <2> QED
    BY <2>1 DEF TypeOK
<1>3. ASSUME UNCHANGED <<order, coupon>>
      PROVE  /\ order' \in [Orders -> {"absent", "pending_payment"} \cup Bought \cup Unpaid]
             /\ CouponTyped'
             /\ used' <= used
             /\ used' = Cardinality(Counted')
             /\ \A p \in uncounted : use'[p] = "consumed"
  <2>1. Counted' = Counted
    BY <1>3 DEF Counted, Uses, coupon
  <2> QED
    BY <1>3, <2>1 DEF TypeOK, CouponTyped, coupon, CouponUsesCounted
<1>4. CASE UNCHANGED <<order, wallet, coupon>>
  <2>1. WalletTyped'
    BY <1>4 DEF TypeOK, WalletTyped, wallet
  <2> QED
    BY <1>2, <1>3, <1>4, <2>1
<1>5. CASE Close(OrderOf[a], "cancelled") /\ ReleasePromotion(OrderOf[a])
  <2>1. WalletTyped'
    BY <1>1, <1>5, HoldReleased DEF Close
  <2>2. /\ CouponTyped' /\ used' <= used /\ used' = Cardinality(Counted')
        /\ \A p \in uncounted : use'[p] = "consumed"
    BY <1>1, <1>5, PromotionReleased
  <2>3. order' \in [Orders -> {"absent", "pending_payment"} \cup Bought \cup Unpaid]
    BY <1>5 DEF TypeOK, Close, Closed, Unpaid
  <2> QED
    BY <1>2, <2>1, <2>2, <2>3
<1>6. CASE ReleaseHold(OrderOf[a]) /\ UNCHANGED <<order, coupon>>
  <2>1. WalletTyped'
    BY <1>1, <1>6, HoldReleased
  <2> QED
    BY <1>2, <1>3, <1>6, <2>1
<1> QED
  BY <1>4, <1>5, <1>6, EndAttemptEffect

\* A use that is reserved, or consumed after it was released, is one more.
LEMMA UseCounted ==
  ASSUME NEW o \in Orders, TypeOK, CouponUsesCounted, use[o] \in {"none", "released"},
         NEW v \in {"reserved", "consumed"}, use' = [use EXCEPT ![o] = v],
         uncounted' = uncounted
  PROVE  Cardinality(Counted') = used + 1
<1>1. /\ IsFiniteSet(Counted) /\ used = Cardinality(Counted)
      /\ \A p \in uncounted : use[p] = "consumed"
  BY PaymentsAssumption, FS_Subset DEF Counted, Uses, CouponUsesCounted
<1>2. o \notin Counted /\ Counted' = Counted \cup {o}
  BY <1>1 DEF Counted, Uses, TypeOK
<1> QED
  BY <1>1, <1>2, FS_AddElement

\* A step that touches neither coupon nor the payment of an order counts alike.
LEMMA CouponKept ==
  ASSUME CouponUsesCounted, UNCHANGED <<coupon, ruled, uncounted>>,
         \A o \in Orders : order'[o] \in Bought /\ delivery'[o] # "none"
                          => order[o] \in Bought /\ delivery[o] # "none"
  PROVE  CouponUsesCounted'
<1>1. Counted' = Counted
  BY DEF Counted, Uses, coupon
<1> QED
  BY <1>1, PaymentsAssumption DEF CouponUsesCounted, coupon

-----------------------------------------------------------------------------
\* Every write keeps the columns in their domains.
LEMMA TypeStep == Inv /\ [Next]_vars => TypeOK'
<1> SUFFICES ASSUME Inv, [Next]_vars PROVE TypeOK'
  OBVIOUS
<1> USE PaymentsAssumption
<1> USE DEF Inv, TypeOK, ReadsHold, Payable, Bought, Closed, Unpaid, Live, coupon,
       wallet, stock, tries, provider, events, marks
<1>1. CASE \E o \in Orders : OrderStep(o)
  <2> PICK o \in Orders : OrderStep(o)
    BY <1>1
  <2>1. CASE Checkout(o)
    BY <2>1 DEF Checkout
  <2>2. CASE BeginHold(o)
    BY <2>2 DEF BeginHold
  <2>3. CASE InsertHold(o)
    BY <2>3 DEF InsertHold, WriteBalance, Rows
  <2>4. CASE CancelUnstartedBalancePayment(o)
    <3>1. ReleaseHold(o) /\ order' = [order EXCEPT ![o] = "cancelled"]
      BY <2>4 DEF CancelUnstartedBalancePayment, Close
    <3>2. WalletTyped'
      BY <3>1, HoldReleased
    <3>3. CouponTyped'
      BY <2>4, PromotionReleased DEF CancelUnstartedBalancePayment
    <3> QED
      BY <2>4, <3>1, <3>2, <3>3 DEF CancelUnstartedBalancePayment, CouponTyped, WalletTyped
  <2>5. CASE BeginFullHold(o)
    BY <2>5 DEF BeginFullHold, External
  <2>6. CASE CompleteFullHold(o)
    <3>1. free' \in Nat /\ reserved' \in [Orders -> 0 .. Quantity]
      BY <2>6, StockMoved DEF CompleteFullHold, Fulfil
    <3>2. use' \in [Orders -> {"none", "reserved", "consumed", "released"}]
      BY <2>6 DEF CompleteFullHold, Consume
    <3> QED
      BY <2>6, <3>1, <3>2 DEF CompleteFullHold, ConsumeHold, Fulfil, TakeStock
  <2>7. CASE BeginWallet(o)
    BY <2>7 DEF BeginWallet
  <2>8. CASE CompleteWallet(o)
    <3>1. balance - Total \in Nat
      BY <2>8 DEF CompleteWallet
    <3>2. WalletTyped'
      BY <2>8, <3>1 DEF CompleteWallet, WriteBalance, WalletTyped
    <3>3. free' \in Nat /\ reserved' \in [Orders -> 0 .. Quantity]
      BY <2>8, StockMoved DEF CompleteWallet, Fulfil
    <3> QED
      BY <2>8, <3>2, <3>3 DEF CompleteWallet, Fulfil, TakeStock, Consume,
         WalletTyped
  <2>9. CASE CompleteTooLate(o)
    BY <2>9 DEF CompleteTooLate, TakeStock, Consume
  <2>10. CASE Expire(o)
    <3>1. ReleaseHold(o) /\ order' = [order EXCEPT ![o] = "expired"]
      BY <2>10 DEF Expire, Close
    <3>2. WalletTyped'
      BY <3>1, HoldReleased
    <3>3. CouponTyped'
      BY <2>10, UseReleased DEF Expire
    <3>4. free' \in Nat /\ reserved' \in [Orders -> 0 .. Quantity]
      BY <2>10, StockMoved DEF Expire
    <3> QED
      BY <2>10, <3>1, <3>2, <3>3, <3>4 DEF Expire, ReturnStock, CouponTyped, WalletTyped
  <2>11. CASE \E s \in Closed : Transition(o, s)
    <3> PICK s \in Closed : Transition(o, s)
      BY <2>11
    <3>1. ReleaseHold(o) /\ order' = [order EXCEPT ![o] = s]
      BY  DEF Transition, Close
    <3>2. WalletTyped'
      BY <3>1, HoldReleased
    <3>3. CouponTyped'
      BY PromotionReleased DEF Transition
    <3>4. free' \in Nat /\ reserved' \in [Orders -> 0 .. Quantity]
      BY StockMoved DEF Transition
    <3> QED
      BY <3>1, <3>2, <3>3, <3>4 DEF Transition, ReturnStock, CouponTyped, WalletTyped
  <2>12. CASE ReleaseTooLate(o)
    BY <2>12 DEF ReleaseTooLate, ReturnStock
  <2>13. CASE Deliver(o)
    BY <2>13 DEF Deliver
  <2>14. CASE ExpireTooLate(o)
    <3>1. CouponTyped'
      BY <2>14, UseReleased DEF ExpireTooLate
    <3>2. free' \in Nat /\ reserved' \in [Orders -> 0 .. Quantity]
      BY <2>14, StockMoved DEF ExpireTooLate
    <3>3. early' \subseteq Attempts \X Source
      BY <2>14 DEF ExpireTooLate, InFlight
    <3>4. attempt' \in [Attempts -> {"absent", "failed", "expired", "succeeded"} \cup Live]
      BY <2>14 DEF ExpireTooLate
    <3> QED
      BY <2>14, <3>1, <3>2, <3>3, <3>4 DEF ExpireTooLate, ReturnStock, CouponTyped
  <2>15. CASE TransitionFailed(o)
    <3>1. free' \in Nat /\ reserved' \in [Orders -> 0 .. Quantity]
      BY <2>15, StockMoved DEF TransitionFailed
    <3> QED
      BY <2>15, <3>1 DEF TransitionFailed, ReturnStock
  <2>16. CASE TransitionPaid(o)
    BY <2>16 DEF TransitionPaid, ConsumeHold
  <2> QED
    BY <2>1, <2>2, <2>3, <2>4, <2>5, <2>6, <2>7, <2>8, <2>9, <2>10, <2>11,
       <2>12, <2>13, <2>14, <2>15, <2>16 DEF OrderStep
<1>2. CASE \E a \in Attempts : AttemptStep(a)
  <2> PICK a \in Attempts : AttemptStep(a)
    BY <1>2
  <2>1. CASE Quote(a)
    BY <2>1 DEF Quote, External
  <2>2. CASE InsertAttempt(a)
    BY <2>2 DEF InsertAttempt, FundingHolds, External, Rows
  <2>3. CASE OpenPayment(a)
    BY <2>3 DEF OpenPayment
  <2>4. CASE SavePayment(a)
    <3>1. attempt' \in [Attempts -> {"absent", "failed", "expired",
                                     "succeeded"} \cup Live]
      <4>1. attempt' = attempt \/ attempt' = [attempt EXCEPT ![a] = "pending"]
        BY <2>4 DEF SavePayment
      <4> QED
        BY <4>1
    <3>2. call' \in [Attempts -> {"none", "quoted", "calling", "done"}]
      BY <2>4 DEF SavePayment
    <3> QED
      BY <2>4, <3>1, <3>2 DEF SavePayment
  <2>5. CASE CreationFails(a)
    <3>1. /\ attempt' \in [Attempts -> {"absent", "failed", "expired",
                                        "succeeded"} \cup Live]
          /\ order' \in [Orders -> {"absent", "pending_payment"} \cup Bought
                                    \cup Unpaid]
          /\ CouponTyped'
          /\ WalletTyped'
      BY <2>5, EndAttemptTyped DEF CreationFails
    <3> QED
      BY <2>5, <3>1 DEF CreationFails, CouponTyped, WalletTyped
  <2>6. CASE RecordFailedCheckout(a)
    BY <2>6 DEF RecordFailedCheckout, Rows
  <2>7. CASE Charge(a)
    BY <2>7 DEF Charge
  <2>8. CASE Decline(a)
    BY <2>8 DEF Decline
  <2>9. CASE \E s \in {"failed", "expired"} : FailureEvent(a, s)
    <3> PICK s \in {"failed", "expired"} : FailureEvent(a, s)
      BY <2>9
    <3>0. EndAttempt(a, s) /\ uncounted' = uncounted
      BY DEF FailureEvent
    <3>1. /\ attempt' \in [Attempts -> {"absent", "failed", "expired",
                                        "succeeded"} \cup Live]
          /\ order' \in [Orders -> {"absent", "pending_payment"} \cup Bought
                                    \cup Unpaid]
          /\ CouponTyped'
          /\ WalletTyped'
      <4> HIDE DEF TypeOK
      <4>1. TypeOK /\ HoldFollowsOrder /\ CouponUsesCounted
        BY DEF Inv
      <4> QED
        BY <3>0, <4>1, EndAttemptTyped
    <3> QED
      BY <3>1 DEF FailureEvent, CouponTyped, WalletTyped
  <2>10. CASE Lapse(a)
    BY <2>10 DEF Lapse
  <2> QED
    BY <2>1, <2>2, <2>3, <2>4, <2>5, <2>6, <2>7, <2>8, <2>9, <2>10 DEF AttemptStep
<1>3. CASE \E a \in Attempts, s \in Source : SuccessEvent(a, s)
  <2> PICK a \in Attempts, s \in Source : SuccessEvent(a, s)
    BY <1>3
  <2>1. CASE RecordAgain(a, s)
    BY <2>1 DEF RecordAgain, Arrives, Untied, Write
  <2>2. CASE Reject(a, s)
    BY <2>2 DEF Reject, Arrives, Write
  <2>3. CASE BeginReview(a, s)
    BY <2>3 DEF BeginReview
  <2>4. CASE HoldForReview(a, s)
    BY <2>4 DEF HoldForReview, Write
  <2>5. CASE Settle(a, s)
    BY <2>5 DEF Settle, Arrives, Untied, Write, ConsumeHold, Fulfil, TakeStock
  <2> QED
    BY <2>1, <2>2, <2>3, <2>4, <2>5 DEF SuccessEvent
<1>4. CASE UNCHANGED vars
  BY <1>4 DEF vars
<1> QED
  BY <1>1, <1>2, <1>3, <1>4 DEF Next

-----------------------------------------------------------------------------
\* Requests and providers only move their attempt forward.
LEMMA AttemptsStep == Inv /\ [Next]_vars => AttemptsInserted'
<1> SUFFICES ASSUME Inv, [Next]_vars PROVE AttemptsInserted'
  OBVIOUS
<1> USE PaymentsAssumption
<1> USE DEF Inv, TypeOK, AttemptsInserted, Closed, Unpaid, Live, coupon, wallet,
       stock, tries, provider, events, marks
<1>1. CASE \E o \in Orders : OrderStep(o)
  <2> PICK o \in Orders : OrderStep(o)
    BY <1>1
  <2>1. CASE Checkout(o)
    BY <2>1 DEF Checkout
  <2>2. CASE BeginHold(o)
    BY <2>2 DEF BeginHold
  <2>3. CASE InsertHold(o)
    BY <2>3 DEF InsertHold, Rows
  <2>4. CASE CancelUnstartedBalancePayment(o)
    BY <2>4 DEF CancelUnstartedBalancePayment, Close, ReleaseHold
  <2>5. CASE BeginFullHold(o)
    BY <2>5 DEF BeginFullHold, External
  <2>6. CASE CompleteFullHold(o)
    BY <2>6 DEF CompleteFullHold
  <2>7. CASE BeginWallet(o)
    BY <2>7 DEF BeginWallet
  <2>8. CASE CompleteWallet(o)
    BY <2>8 DEF CompleteWallet
  <2>9. CASE CompleteTooLate(o)
    BY <2>9 DEF CompleteTooLate
  <2>10. CASE Expire(o)
    BY <2>10 DEF Expire, Close, ReleaseHold, ReturnStock
  <2>11. CASE \E s \in Closed : Transition(o, s)
    BY <2>11 DEF Transition, Close, ReleaseHold, ReturnStock
  <2>12. CASE ReleaseTooLate(o)
    BY <2>12 DEF ReleaseTooLate, ReturnStock
  <2>13. CASE Deliver(o)
    BY <2>13 DEF Deliver
  <2>14. CASE ExpireTooLate(o)
    BY <2>14 DEF ExpireTooLate
  <2>15. CASE TransitionFailed(o)
    BY <2>15 DEF TransitionFailed
  <2>16. CASE TransitionPaid(o)
    BY <2>16 DEF TransitionPaid
  <2> QED
    BY <2>1, <2>2, <2>3, <2>4, <2>5, <2>6, <2>7, <2>8, <2>9, <2>10, <2>11,
       <2>12, <2>13, <2>14, <2>15, <2>16 DEF OrderStep
<1>2. CASE \E a \in Attempts : AttemptStep(a)
  <2> PICK a \in Attempts : AttemptStep(a)
    BY <1>2
  <2>1. CASE Quote(a)
    BY <2>1 DEF Quote, External
  <2>2. CASE InsertAttempt(a)
    BY <2>2 DEF InsertAttempt, FundingHolds, External, Rows
  <2>3. CASE OpenPayment(a)
    BY <2>3 DEF OpenPayment
  <2>4. CASE SavePayment(a)
    BY <2>4 DEF SavePayment
  <2>5. CASE CreationFails(a)
    BY <2>5 DEF CreationFails, EndAttempt, Close, ReleaseHold
  <2>6. CASE RecordFailedCheckout(a)
    BY <2>6 DEF RecordFailedCheckout, Rows
  <2>7. CASE Charge(a)
    BY <2>7 DEF Charge
  <2>8. CASE Decline(a)
    BY <2>8 DEF Decline
  <2>9. CASE \E s \in {"failed", "expired"} : FailureEvent(a, s)
    BY <2>9 DEF FailureEvent, EndAttempt, Close, ReleaseHold
  <2>10. CASE Lapse(a)
    BY <2>10 DEF Lapse
  <2> QED
    BY <2>1, <2>2, <2>3, <2>4, <2>5, <2>6, <2>7, <2>8, <2>9, <2>10 DEF AttemptStep
<1>3. CASE \E a \in Attempts, s \in Source : SuccessEvent(a, s)
  <2> PICK a \in Attempts, s \in Source : SuccessEvent(a, s)
    BY <1>3
  <2>1. CASE RecordAgain(a, s)
    BY <2>1 DEF RecordAgain, Arrives, Untied, Write
  <2>2. CASE Reject(a, s)
    BY <2>2 DEF Reject, Arrives, Write
  <2>3. CASE BeginReview(a, s)
    BY <2>3 DEF BeginReview
  <2>4. CASE HoldForReview(a, s)
    BY <2>4 DEF HoldForReview, Write
  <2>5. CASE Settle(a, s)
    BY <2>5 DEF Settle, Arrives, Untied, Write
  <2> QED
    BY <2>1, <2>2, <2>3, <2>4, <2>5 DEF SuccessEvent
<1>4. CASE UNCHANGED vars
  BY <1>4 DEF vars
<1> QED
  BY <1>1, <1>2, <1>3, <1>4 DEF Next

-----------------------------------------------------------------------------
\* The open hold of an order is released that is cancelled or has failed.
Released(o) ==
  /\ hold[o] = "held"
  /\ ReleaseHold(o)
  /\ \/ order' = [order EXCEPT ![o] = "cancelled"]
     \/ order[o] = "failed" /\ order' = order

\* A hold ends with the order's payment or its closing, and every write of the
\* balance outdates what wallet requests have read.
LEMMA HoldsStep == Inv /\ [Next]_vars => (HoldFollowsOrder /\ ReadsHold)'
<1> SUFFICES ASSUME Inv, [Next]_vars PROVE (HoldFollowsOrder /\ ReadsHold)'
  OBVIOUS
<1> USE PaymentsAssumption
<1> USE DEF Inv, TypeOK, HoldFollowsOrder, ReadsHold, Payable, Bought, Closed, Unpaid,
       coupon, wallet, stock, tries, provider, events, marks
<1>1. CASE \E o \in Orders : OrderStep(o)
  <2> PICK o \in Orders : OrderStep(o)
    BY <1>1
  <2>1. CASE Checkout(o)
    BY <2>1 DEF Checkout
  <2>2. CASE BeginHold(o)
    BY <2>2 DEF BeginHold
  <2>3. CASE InsertHold(o)
    BY <2>3 DEF InsertHold, WriteBalance, Rows
  <2>4. CASE CancelUnstartedBalancePayment(o)
    BY <2>4 DEF CancelUnstartedBalancePayment, Close, ReleaseHold,
          WriteBalance
  <2>5. CASE BeginFullHold(o)
    <3>1. cash[o] \in Nat /\ Total \in Nat /\ Total - cash[o] = 0
      BY <2>5 DEF BeginFullHold, External
    <3>2. cash[o] = Total
      BY ONLY <3>1
    <3> QED
      BY <2>5, <3>2 DEF BeginFullHold
  <2>6. CASE CompleteFullHold(o)
    BY <2>6 DEF CompleteFullHold, ConsumeHold
  <2>7. CASE BeginWallet(o)
    BY <2>7 DEF BeginWallet
  <2>8. CASE CompleteWallet(o)
    BY <2>8 DEF CompleteWallet, WriteBalance
  <2>9. CASE CompleteTooLate(o)
    BY <2>9 DEF CompleteTooLate
  <2>10. CASE Expire(o)
    BY <2>10 DEF Expire, Close, ReleaseHold, WriteBalance, ReturnStock
  <2>11. CASE \E s \in Closed : Transition(o, s)
    BY <2>11 DEF Transition, Close, ReleaseHold, WriteBalance, ReturnStock
  <2>12. CASE ReleaseTooLate(o)
    BY <2>12 DEF ReleaseTooLate, ReturnStock
  <2>13. CASE Deliver(o)
    BY <2>13 DEF Deliver
  <2>14. CASE ExpireTooLate(o)
    BY <2>14 DEF ExpireTooLate
  <2>15. CASE TransitionFailed(o)
    BY <2>15 DEF TransitionFailed
  <2>16. CASE TransitionPaid(o)
    BY <2>16 DEF TransitionPaid, ConsumeHold, Untied
  <2> QED
    BY <2>1, <2>2, <2>3, <2>4, <2>5, <2>6, <2>7, <2>8, <2>9, <2>10, <2>11,
       <2>12, <2>13, <2>14, <2>15, <2>16 DEF OrderStep
<1>2. CASE \E a \in Attempts : AttemptStep(a)
  <2> PICK a \in Attempts : AttemptStep(a)
    BY <1>2
  <2>1. CASE Quote(a)
    BY <2>1 DEF Quote, External
  <2>2. CASE InsertAttempt(a)
    BY <2>2 DEF InsertAttempt, FundingHolds, External, Rows
  <2>3. CASE OpenPayment(a)
    BY <2>3 DEF OpenPayment
  <2>4. CASE SavePayment(a)
    BY <2>4 DEF SavePayment
  <2>5. CASE CreationFails(a)
    <3>1. \/ UNCHANGED <<order, wallet>>
          \/ Released(OrderOf[a])
      BY <2>5, EndAttemptEffect DEF Released, Close, CreationFails
    <3>2. UNCHANGED settling
      BY <2>5 DEF CreationFails
    <3>3. CASE UNCHANGED <<order, wallet>>
      BY <3>2, <3>3
    <3>4. CASE Released(OrderOf[a])
      <4>1. OrderOf[a] \in Orders
        OBVIOUS
      <4>2. HoldFollowsOrder'
        BY <4>1, <3>4 DEF Released, ReleaseHold
      <4>3. current' = {} /\ settling' = settling
        BY <3>2, <3>4 DEF Released, ReleaseHold, WriteBalance
      <4>4. hold'[OrderOf[a]] = "released" /\ cash' = cash
        BY <4>1, <3>4 DEF Released, ReleaseHold
      <4>5. \A o \in Orders : hold[o] # "none" => hold'[o] # "none"
        BY <4>1, <3>4 DEF Released, ReleaseHold
      <4> QED
        BY <4>2, <4>3, <4>4, <4>5
    <3> QED
      BY <3>1, <3>3, <3>4
  <2>6. CASE RecordFailedCheckout(a)
    BY <2>6 DEF RecordFailedCheckout, Rows
  <2>7. CASE Charge(a)
    BY <2>7 DEF Charge
  <2>8. CASE Decline(a)
    BY <2>8 DEF Decline
  <2>9. CASE \E s \in {"failed", "expired"} : FailureEvent(a, s)
    <3> PICK s \in {"failed", "expired"} : FailureEvent(a, s)
      BY <2>9
    <3>1. \/ UNCHANGED <<order, wallet>>
          \/ Released(OrderOf[a])
      BY EndAttemptEffect DEF Released, Close, FailureEvent
    <3>2. UNCHANGED settling
      BY DEF FailureEvent
    <3>3. CASE UNCHANGED <<order, wallet>>
      BY <3>2, <3>3
    <3>4. CASE Released(OrderOf[a])
      <4>1. OrderOf[a] \in Orders
        OBVIOUS
      <4>2. HoldFollowsOrder'
        BY <4>1, <3>4 DEF Released, ReleaseHold
      <4>3. current' = {} /\ settling' = settling
        BY <3>2, <3>4 DEF Released, ReleaseHold, WriteBalance
      <4>4. hold'[OrderOf[a]] = "released" /\ cash' = cash
        BY <4>1, <3>4 DEF Released, ReleaseHold
      <4>5. \A o \in Orders : hold[o] # "none" => hold'[o] # "none"
        BY <4>1, <3>4 DEF Released, ReleaseHold
      <4> QED
        BY <4>2, <4>3, <4>4, <4>5
    <3> QED
      BY <3>1, <3>3, <3>4
  <2>10. CASE Lapse(a)
    BY <2>10 DEF Lapse
  <2> QED
    BY <2>1, <2>2, <2>3, <2>4, <2>5, <2>6, <2>7, <2>8, <2>9, <2>10 DEF AttemptStep
<1>3. CASE \E a \in Attempts, s \in Source : SuccessEvent(a, s)
  <2> PICK a \in Attempts, s \in Source : SuccessEvent(a, s)
    BY <1>3
  <2>1. CASE RecordAgain(a, s)
    BY <2>1 DEF RecordAgain, Arrives, Untied, Write
  <2>2. CASE Reject(a, s)
    BY <2>2 DEF Reject, Arrives, Write
  <2>3. CASE BeginReview(a, s)
    BY <2>3 DEF BeginReview
  <2>4. CASE HoldForReview(a, s)
    BY <2>4 DEF HoldForReview, Write
  <2>5. CASE Settle(a, s)
    BY <2>5 DEF Settle, Arrives, Untied, Write, ConsumeHold
  <2> QED
    BY <2>1, <2>2, <2>3, <2>4, <2>5 DEF SuccessEvent
<1>4. CASE UNCHANGED vars
  BY <1>4 DEF vars
<1> QED
  BY <1>1, <1>2, <1>3, <1>4 DEF Next

-----------------------------------------------------------------------------
\* No hold appears behind a quote that was inserted, and none changes.
LEMMA QuotesStep == Inv /\ [Next]_vars => QuotesHold'
<1> SUFFICES ASSUME Inv, [Next]_vars PROVE QuotesHold'
  OBVIOUS
<1> USE PaymentsAssumption
<1> USE DEF Inv, TypeOK, QuotesHold, HoldFollowsOrder, AttemptsInserted,
       HeldCash, Payable, Bought, Closed, Unpaid, coupon, wallet, stock, tries,
       provider, events, marks
<1>1. CASE \E o \in Orders : OrderStep(o)
  <2> PICK o \in Orders : OrderStep(o)
    BY <1>1
  <2>1. CASE Checkout(o)
    BY <2>1 DEF Checkout
  <2>2. CASE BeginHold(o)
    BY <2>2 DEF BeginHold
  <2>3. CASE InsertHold(o)
    BY <2>3 DEF InsertHold, WriteBalance, Rows, External
  <2>4. CASE CancelUnstartedBalancePayment(o)
    BY <2>4 DEF CancelUnstartedBalancePayment, Close, ReleaseHold,
          WriteBalance
  <2>5. CASE BeginFullHold(o)
    BY <2>5 DEF BeginFullHold, External
  <2>6. CASE CompleteFullHold(o)
    BY <2>6 DEF CompleteFullHold, ConsumeHold
  <2>7. CASE BeginWallet(o)
    BY <2>7 DEF BeginWallet
  <2>8. CASE CompleteWallet(o)
    BY <2>8 DEF CompleteWallet, WriteBalance
  <2>9. CASE CompleteTooLate(o)
    BY <2>9 DEF CompleteTooLate
  <2>10. CASE Expire(o)
    BY <2>10 DEF Expire, Close, ReleaseHold, WriteBalance, ReturnStock
  <2>11. CASE \E s \in Closed : Transition(o, s)
    BY <2>11 DEF Transition, Close, ReleaseHold, WriteBalance, ReturnStock
  <2>12. CASE ReleaseTooLate(o)
    BY <2>12 DEF ReleaseTooLate, ReturnStock
  <2>13. CASE Deliver(o)
    BY <2>13 DEF Deliver
  <2>14. CASE ExpireTooLate(o)
    BY <2>14 DEF ExpireTooLate
  <2>15. CASE TransitionFailed(o)
    BY <2>15 DEF TransitionFailed
  <2>16. CASE TransitionPaid(o)
    BY <2>16 DEF TransitionPaid, ConsumeHold, Untied
  <2> QED
    BY <2>1, <2>2, <2>3, <2>4, <2>5, <2>6, <2>7, <2>8, <2>9, <2>10, <2>11,
       <2>12, <2>13, <2>14, <2>15, <2>16 DEF OrderStep
<1>2. CASE \E a \in Attempts : AttemptStep(a)
  <2> PICK a \in Attempts : AttemptStep(a)
    BY <1>2
  <2>1. CASE Quote(a)
    BY <2>1 DEF Quote, External
  <2>2. CASE InsertAttempt(a)
    BY <2>2 DEF InsertAttempt, FundingHolds, External, Rows
  <2>3. CASE OpenPayment(a)
    BY <2>3 DEF OpenPayment
  <2>4. CASE SavePayment(a)
    BY <2>4 DEF SavePayment
  <2>5. CASE CreationFails(a)
    BY <2>5 DEF CreationFails, EndAttempt, Close, ReleaseHold, WriteBalance
  <2>6. CASE RecordFailedCheckout(a)
    BY <2>6 DEF RecordFailedCheckout, Rows
  <2>7. CASE Charge(a)
    BY <2>7 DEF Charge
  <2>8. CASE Decline(a)
    BY <2>8 DEF Decline
  <2>9. CASE \E s \in {"failed", "expired"} : FailureEvent(a, s)
    BY <2>9 DEF FailureEvent, EndAttempt, Close, ReleaseHold, WriteBalance
  <2>10. CASE Lapse(a)
    BY <2>10 DEF Lapse
  <2> QED
    BY <2>1, <2>2, <2>3, <2>4, <2>5, <2>6, <2>7, <2>8, <2>9, <2>10 DEF AttemptStep
<1>3. CASE \E a \in Attempts, s \in Source : SuccessEvent(a, s)
  <2> PICK a \in Attempts, s \in Source : SuccessEvent(a, s)
    BY <1>3
  <2>1. CASE RecordAgain(a, s)
    BY <2>1 DEF RecordAgain, Arrives, Untied, Write
  <2>2. CASE Reject(a, s)
    BY <2>2 DEF Reject, Arrives, Write
  <2>3. CASE BeginReview(a, s)
    BY <2>3 DEF BeginReview
  <2>4. CASE HoldForReview(a, s)
    BY <2>4 DEF HoldForReview, Write
  <2>5. CASE Settle(a, s)
    BY <2>5 DEF Settle, Arrives, Untied, Write, ConsumeHold
  <2> QED
    BY <2>1, <2>2, <2>3, <2>4, <2>5 DEF SuccessEvent
<1>4. CASE UNCHANGED vars
  BY <1>4 DEF vars
<1> QED
  BY <1>1, <1>2, <1>3, <1>4 DEF Next

-----------------------------------------------------------------------------
\* A use is released with its order and never used by a closed one again.
LEMMA UsesStep == Inv /\ [Next]_vars => UsesFollowOrder'
<1> SUFFICES ASSUME Inv, [Next]_vars PROVE UsesFollowOrder'
  OBVIOUS
<1> USE PaymentsAssumption
<1> USE DEF Inv, TypeOK, UsesFollowOrder, Payable, Bought, Closed, Unpaid, Live,
       coupon, wallet, stock, tries, provider, events, marks
<1>1. CASE \E o \in Orders : OrderStep(o)
  <2> PICK o \in Orders : OrderStep(o)
    BY <1>1
  <2>1. CASE Checkout(o)
    BY <2>1 DEF Checkout
  <2>2. CASE BeginHold(o)
    BY <2>2 DEF BeginHold
  <2>3. CASE InsertHold(o)
    BY <2>3 DEF InsertHold, Rows
  <2>4. CASE CancelUnstartedBalancePayment(o)
    BY <2>4 DEF CancelUnstartedBalancePayment, Close, ReleasePromotion,
          ReleaseUse
  <2>5. CASE BeginFullHold(o)
    BY <2>5 DEF BeginFullHold, External
  <2>6. CASE CompleteFullHold(o)
    BY <2>6 DEF CompleteFullHold, Consume
  <2>7. CASE BeginWallet(o)
    BY <2>7 DEF BeginWallet
  <2>8. CASE CompleteWallet(o)
    BY <2>8 DEF CompleteWallet, Consume
  <2>9. CASE CompleteTooLate(o)
    BY <2>9 DEF CompleteTooLate, Consume
  <2>10. CASE Expire(o)
    BY <2>10 DEF Expire, Close, ReleaseUse
  <2>11. CASE \E s \in Closed : Transition(o, s)
    BY <2>11 DEF Transition, Close, ReleasePromotion, ReleaseUse
  <2>12. CASE ReleaseTooLate(o)
    BY <2>12 DEF ReleaseTooLate
  <2>13. CASE Deliver(o)
    BY <2>13 DEF Deliver
  <2>14. CASE ExpireTooLate(o)
    BY <2>14 DEF ExpireTooLate, ReleaseUse, InFlight
  <2>15. CASE TransitionFailed(o)
    BY <2>15 DEF TransitionFailed
  <2>16. CASE TransitionPaid(o)
    BY <2>16 DEF TransitionPaid
  <2> QED
    BY <2>1, <2>2, <2>3, <2>4, <2>5, <2>6, <2>7, <2>8, <2>9, <2>10, <2>11,
       <2>12, <2>13, <2>14, <2>15, <2>16 DEF OrderStep
<1>2. CASE \E a \in Attempts : AttemptStep(a)
  <2> PICK a \in Attempts : AttemptStep(a)
    BY <1>2
  <2>1. CASE Quote(a)
    BY <2>1 DEF Quote, External
  <2>2. CASE InsertAttempt(a)
    BY <2>2 DEF InsertAttempt, FundingHolds, External, Rows
  <2>3. CASE OpenPayment(a)
    BY <2>3 DEF OpenPayment
  <2>4. CASE SavePayment(a)
    BY <2>4 DEF SavePayment
  <2>5. CASE CreationFails(a)
    BY <2>5 DEF CreationFails, EndAttempt, Close, ReleasePromotion, ReleaseUse
  <2>6. CASE RecordFailedCheckout(a)
    BY <2>6 DEF RecordFailedCheckout, Rows
  <2>7. CASE Charge(a)
    BY <2>7 DEF Charge
  <2>8. CASE Decline(a)
    BY <2>8 DEF Decline
  <2>9. CASE \E s \in {"failed", "expired"} : FailureEvent(a, s)
    BY <2>9 DEF FailureEvent, EndAttempt, Close, ReleasePromotion, ReleaseUse
  <2>10. CASE Lapse(a)
    BY <2>10 DEF Lapse
  <2> QED
    BY <2>1, <2>2, <2>3, <2>4, <2>5, <2>6, <2>7, <2>8, <2>9, <2>10 DEF AttemptStep
<1>3. CASE \E a \in Attempts, s \in Source : SuccessEvent(a, s)
  <2> PICK a \in Attempts, s \in Source : SuccessEvent(a, s)
    BY <1>3
  <2>1. CASE RecordAgain(a, s)
    BY <2>1 DEF RecordAgain, Arrives, Untied, Write
  <2>2. CASE Reject(a, s)
    BY <2>2 DEF Reject, Arrives, Write
  <2>3. CASE BeginReview(a, s)
    BY <2>3 DEF BeginReview
  <2>4. CASE HoldForReview(a, s)
    BY <2>4 DEF HoldForReview, Write
  <2>5. CASE Settle(a, s)
    BY <2>5 DEF Settle, Arrives, Untied, Write
  <2> QED
    BY <2>1, <2>2, <2>3, <2>4, <2>5 DEF SuccessEvent
<1>4. CASE UNCHANGED vars
  BY <1>4 DEF vars
<1> QED
  BY <1>1, <1>2, <1>3, <1>4 DEF Next

-----------------------------------------------------------------------------
\* What paid an order stays, and an order becomes paid only by a payment in full.
LEMMA PaidStep == Inv /\ [Next]_vars => PaidInFull'
<1> SUFFICES ASSUME Inv, [Next]_vars PROVE PaidInFull'
  OBVIOUS
<1> USE PaymentsAssumption
<1> USE DEF Inv, TypeOK, PaidInFull, QuotesHold, ReadsHold, HoldFollowsOrder,
       DeliveriesFollowOrder, AttemptsInserted, HeldCash, Payable, Bought, Closed, Unpaid, coupon, wallet,
       stock, tries, provider, events, marks
<1>1. CASE \E o \in Orders : OrderStep(o)
  <2> PICK o \in Orders : OrderStep(o)
    BY <1>1
  <2>1. CASE Checkout(o)
    BY <2>1 DEF Checkout
  <2>2. CASE BeginHold(o)
    BY <2>2 DEF BeginHold
  <2>3. CASE InsertHold(o)
    <3>1. /\ order' = order /\ delivery' = delivery /\ order[o] = "pending_payment"
          /\ debited' = debited /\ UNCHANGED <<pay, quoted>>
          /\ \A p \in Orders \ {o} : hold'[p] = hold[p] /\ cash'[p] = cash[p]
      BY <2>3 DEF InsertHold, WriteBalance
    <3> QED
      BY <3>1
  <2>4. CASE CancelUnstartedBalancePayment(o)
    BY <2>4 DEF CancelUnstartedBalancePayment, Close, ReleaseHold,
          WriteBalance
  <2>5. CASE BeginFullHold(o)
    BY <2>5 DEF BeginFullHold, External
  <2>6. CASE CompleteFullHold(o)
    <3>1. /\ \A p \in Orders \ {o} : /\ order'[p] = order[p] /\ delivery'[p] = delivery[p]
                                   /\ hold'[p] = hold[p]
          /\ hold'[o] = "consumed" /\ cash[o] = Total
          /\ UNCHANGED <<cash, debited, pay, quoted>>
      BY <2>6 DEF CompleteFullHold, ConsumeHold, Fulfil
    <3>2. \A p \in Orders \ {o} : HeldCash(p)' = HeldCash(p)
      BY <3>1
    <3> HIDE DEF HeldCash
    <3> QED
      BY <3>1, <3>2
  <2>7. CASE BeginWallet(o)
    BY <2>7 DEF BeginWallet
  <2>8. CASE CompleteWallet(o)
    <3>1. /\ \A p \in Orders \ {o} : order'[p] = order[p] /\ delivery'[p] = delivery[p]
          /\ debited' = debited \cup {o}
          /\ UNCHANGED <<hold, cash, pay, quoted>>
      BY <2>8 DEF CompleteWallet, Fulfil
    <3> QED
      BY <3>1
  <2>9. CASE CompleteTooLate(o)
    BY <2>9 DEF CompleteTooLate
  <2>10. CASE Expire(o)
    BY <2>10 DEF Expire, Close, ReleaseHold, WriteBalance, ReturnStock
  <2>11. CASE \E s \in Closed : Transition(o, s)
    BY <2>11 DEF Transition, Close, ReleaseHold, WriteBalance, ReturnStock
  <2>12. CASE ReleaseTooLate(o)
    BY <2>12 DEF ReleaseTooLate, ReturnStock
  <2>13. CASE Deliver(o)
    BY <2>13 DEF Deliver
  <2>14. CASE ExpireTooLate(o)
    BY <2>14 DEF ExpireTooLate, ReturnStock
  <2>15. CASE TransitionFailed(o)
    BY <2>15 DEF TransitionFailed, ReturnStock
  <2>16. CASE TransitionPaid(o)
    BY <2>16 DEF TransitionPaid, ConsumeHold
  <2> QED
    BY <2>1, <2>2, <2>3, <2>4, <2>5, <2>6, <2>7, <2>8, <2>9, <2>10, <2>11,
       <2>12, <2>13, <2>14, <2>15, <2>16 DEF OrderStep
<1>2. CASE \E a \in Attempts : AttemptStep(a)
  <2> PICK a \in Attempts : AttemptStep(a)
    BY <1>2
  <2>1. CASE Quote(a)
    BY <2>1 DEF Quote, External
  <2>2. CASE InsertAttempt(a)
    BY <2>2 DEF InsertAttempt, FundingHolds, External, Rows
  <2>3. CASE OpenPayment(a)
    BY <2>3 DEF OpenPayment
  <2>4. CASE SavePayment(a)
    BY <2>4 DEF SavePayment
  <2>5. CASE CreationFails(a)
    BY <2>5 DEF CreationFails, EndAttempt, Close, ReleaseHold, WriteBalance
  <2>6. CASE RecordFailedCheckout(a)
    BY <2>6 DEF RecordFailedCheckout, Rows
  <2>7. CASE Charge(a)
    BY <2>7 DEF Charge
  <2>8. CASE Decline(a)
    BY <2>8 DEF Decline
  <2>9. CASE \E s \in {"failed", "expired"} : FailureEvent(a, s)
    BY <2>9 DEF FailureEvent, EndAttempt, Close, ReleaseHold, WriteBalance
  <2>10. CASE Lapse(a)
    BY <2>10 DEF Lapse
  <2> QED
    BY <2>1, <2>2, <2>3, <2>4, <2>5, <2>6, <2>7, <2>8, <2>9, <2>10 DEF AttemptStep
<1>3. CASE \E a \in Attempts, s \in Source : SuccessEvent(a, s)
  <2> PICK a \in Attempts, s \in Source : SuccessEvent(a, s)
    BY <1>3
  <2>1. CASE RecordAgain(a, s)
    BY <2>1 DEF RecordAgain, Arrives, Untied, Write
  <2>2. CASE Reject(a, s)
    BY <2>2 DEF Reject, Arrives, Write
  <2>3. CASE BeginReview(a, s)
    BY <2>3 DEF BeginReview
  <2>4. CASE HoldForReview(a, s)
    BY <2>4 DEF HoldForReview, Write
  <2>5. CASE Settle(a, s)
    <3> DEFINE o == OrderOf[a]
    <3>1. /\ \A p \in Orders \ {o} : /\ order'[p] = order[p] /\ delivery'[p] = delivery[p]
                                   /\ hold'[p] = hold[p]
          /\ UNCHANGED <<cash, debited, pay, quoted>>
      BY <2>5 DEF Settle, ConsumeHold, Fulfil
    <3>2. pay[a] = "charged" /\ quoted[a] + HeldCash(o) = Total
      BY <2>5 DEF Settle, Arrives, Untied
    <3>3. HeldCash(o)' = HeldCash(o)
      BY <2>5, <3>1 DEF Settle, ConsumeHold
    <3> QED
      BY <3>1, <3>2, <3>3
  <2> QED
    BY <2>1, <2>2, <2>3, <2>4, <2>5 DEF SuccessEvent
<1>4. CASE UNCHANGED vars
  BY <1>4 DEF vars
<1> QED
  BY <1>1, <1>2, <1>3, <1>4 DEF Next

-----------------------------------------------------------------------------
\* Each use that is reserved or claimed again is counted while one is left.
LEMMA CouponStep == Inv /\ [Next]_vars => CouponUsesCounted'
<1> SUFFICES ASSUME Inv, [Next]_vars PROVE CouponUsesCounted'
  OBVIOUS
<1> USE PaymentsAssumption
<1> USE DEF Inv, TypeOK, CouponUsesCounted, UsesFollowOrder, Payable, Bought,
       Closed, Unpaid, Live, coupon, wallet, stock, tries, provider, events, marks
<1>1. CASE \E o \in Orders : OrderStep(o)
  <2> PICK o \in Orders : OrderStep(o)
    BY <1>1
  <2>1. CASE Checkout(o)
    <3>1. CASE o \in Couponed
      <4>1. used' = used + 1 /\ used < Limit
        BY <2>1, <3>1 DEF Checkout
      <4>2. used' = Cardinality(Counted')
        BY <2>1, <3>1, <4>1, UseCounted DEF Checkout
      <4> QED
        BY <2>1, <3>1, <4>1, <4>2 DEF Checkout
    <3>2. CASE o \notin Couponed
      <4>1. Counted' = Counted
        BY <2>1, <3>2 DEF Checkout, Counted, Uses
      <4> QED
        BY <2>1, <3>2, <4>1 DEF Checkout
    <3> QED
      BY <3>1, <3>2
  <2>2. CASE BeginHold(o)
    BY <2>2, CouponKept DEF BeginHold
  <2>3. CASE InsertHold(o)
    BY <2>3, CouponKept DEF InsertHold, Rows
  <2>4. CASE CancelUnstartedBalancePayment(o)
    <3>1. /\ used' <= used /\ used' = Cardinality(Counted') /\ CouponTyped'
          /\ \A p \in uncounted : use'[p] = "consumed"
      BY <2>4, PromotionReleased DEF CancelUnstartedBalancePayment
    <3>2. used' <= Limit
      BY <3>1 DEF CouponTyped
    <3>3. \A p \in Couponed : order'[p] \in Bought /\ delivery'[p] # "none"
                              => use'[p] = "consumed"
      BY <2>4 DEF CancelUnstartedBalancePayment, Close, ReleasePromotion, ReleaseUse
    <3> QED
      BY <2>4, <3>1, <3>2, <3>3 DEF CancelUnstartedBalancePayment
  <2>5. CASE BeginFullHold(o)
    BY <2>5, CouponKept DEF BeginFullHold, External
  <2>6. CASE CompleteFullHold(o)
    <3>1. Counted' = Counted /\ used' = used
      BY <2>6 DEF CompleteFullHold, Consume, Counted, Uses
    <3>2. /\ \A p \in Couponed : order'[p] \in Bought /\ delivery'[p] # "none"
                                  => use'[p] = "consumed"
          /\ \A p \in uncounted : use'[p] = "consumed"
          /\ UNCHANGED <<ruled, uncounted>>
      BY <2>6 DEF CompleteFullHold, Consume, Fulfil
    <3> QED
      BY <3>1, <3>2
  <2>7. CASE BeginWallet(o)
    BY <2>7, CouponKept DEF BeginWallet
  <2>8. CASE CompleteWallet(o)
    <3>1. Counted' = Counted /\ used' = used
      BY <2>8 DEF CompleteWallet, Consume, Counted, Uses
    <3>2. /\ \A p \in Couponed : order'[p] \in Bought /\ delivery'[p] # "none"
                                  => use'[p] = "consumed"
          /\ \A p \in uncounted : use'[p] = "consumed"
          /\ UNCHANGED <<ruled, uncounted>>
      BY <2>8 DEF CompleteWallet, Consume, Fulfil
    <3> QED
      BY <3>1, <3>2
  <2>9. CASE CompleteTooLate(o)
    <3>1. Counted' = Counted /\ used' = used
      BY <2>9 DEF CompleteTooLate, Consume, Counted, Uses
    <3> QED
      BY <2>9, <3>1 DEF CompleteTooLate, Consume
  <2>10. CASE Expire(o)
    <3>1. /\ used' <= used /\ used' = Cardinality(Counted') /\ CouponTyped'
          /\ \A p \in uncounted : use'[p] = "consumed"
      BY <2>10, UseReleased DEF Expire
    <3>2. used' <= Limit
      BY <3>1 DEF CouponTyped
    <3>3. \A p \in Couponed : order'[p] \in Bought /\ delivery'[p] # "none"
                              => use'[p] = "consumed"
      BY <2>10 DEF Expire, Close, ReleaseUse, ReturnStock
    <3> QED
      BY <2>10, <3>1, <3>2, <3>3 DEF Expire
  <2>11. CASE \E s \in Closed : Transition(o, s)
    <3> PICK s \in Closed : Transition(o, s)
      BY <2>11
    <3>1. /\ used' <= used /\ used' = Cardinality(Counted') /\ CouponTyped'
          /\ \A p \in uncounted : use'[p] = "consumed"
      BY PromotionReleased DEF Transition
    <3>2. used' <= Limit
      BY <3>1 DEF CouponTyped
    <3>3. \A p \in Couponed : order'[p] \in Bought /\ delivery'[p] # "none"
                              => use'[p] = "consumed"
      BY DEF Transition, Close, ReleasePromotion, ReleaseUse, ReturnStock
    <3> QED
      BY <3>1, <3>2, <3>3 DEF Transition
  <2>12. CASE ReleaseTooLate(o)
    BY <2>12, CouponKept DEF ReleaseTooLate, ReturnStock
  <2>13. CASE Deliver(o)
    BY <2>13, CouponKept DEF Deliver
  <2>14. CASE ExpireTooLate(o)
    <3>1. /\ used' <= used /\ used' = Cardinality(Counted') /\ CouponTyped'
          /\ \A p \in uncounted : use'[p] = "consumed"
      BY <2>14, UseReleased DEF ExpireTooLate
    <3>2. used' <= Limit
      BY <3>1 DEF CouponTyped
    <3>3. \A p \in Couponed : order'[p] \in Bought /\ delivery'[p] # "none"
                              => use'[p] = "consumed"
      BY <2>14 DEF ExpireTooLate, ReleaseUse, ReturnStock
    <3> QED
      BY <2>14, <3>1, <3>2, <3>3 DEF ExpireTooLate
  <2>15. CASE TransitionFailed(o)
    BY <2>15, CouponKept DEF TransitionFailed, ReturnStock
  <2>16. CASE TransitionPaid(o)
    <3>1. delivery[o] = "none"
      BY <2>16 DEF TransitionPaid, DeliveriesFollowOrder
    <3> QED
      BY <2>16, <3>1, CouponKept DEF TransitionPaid
  <2> QED
    BY <2>1, <2>2, <2>3, <2>4, <2>5, <2>6, <2>7, <2>8, <2>9, <2>10, <2>11,
       <2>12, <2>13, <2>14, <2>15, <2>16 DEF OrderStep
<1>2. CASE \E a \in Attempts : AttemptStep(a)
  <2> PICK a \in Attempts : AttemptStep(a)
    BY <1>2
  <2>1. CASE Quote(a)
    BY <2>1, CouponKept DEF Quote, External
  <2>2. CASE InsertAttempt(a)
    BY <2>2, CouponKept DEF InsertAttempt, FundingHolds, External, Rows
  <2>3. CASE OpenPayment(a)
    BY <2>3, CouponKept DEF OpenPayment
  <2>4. CASE SavePayment(a)
    BY <2>4, CouponKept DEF SavePayment
  <2>5. CASE CreationFails(a)
    <3>1. /\ used' <= used /\ used' = Cardinality(Counted') /\ CouponTyped'
          /\ \A p \in uncounted : use'[p] = "consumed"
      BY <2>5, EndAttemptTyped DEF CreationFails
    <3>2. used' <= Limit
      BY <3>1 DEF CouponTyped
    <3>3. \A o \in Couponed : order'[o] \in Bought /\ delivery'[o] # "none"
                              => use'[o] = "consumed"
      BY <2>5 DEF CreationFails, EndAttempt, Close, ReleasePromotion, ReleaseUse
    <3> QED
      BY <2>5, <3>1, <3>2, <3>3 DEF CreationFails
  <2>6. CASE RecordFailedCheckout(a)
    BY <2>6, CouponKept DEF RecordFailedCheckout, Rows
  <2>7. CASE Charge(a)
    BY <2>7, CouponKept DEF Charge
  <2>8. CASE Decline(a)
    BY <2>8, CouponKept DEF Decline
  <2>9. CASE \E s \in {"failed", "expired"} : FailureEvent(a, s)
    <3> PICK s \in {"failed", "expired"} : FailureEvent(a, s)
      BY <2>9
    <3>1. /\ used' <= used /\ used' = Cardinality(Counted') /\ CouponTyped'
          /\ \A p \in uncounted : use'[p] = "consumed"
      BY EndAttemptTyped DEF FailureEvent
    <3>2. used' <= Limit
      BY <3>1 DEF CouponTyped
    <3>3. \A o \in Couponed : order'[o] \in Bought /\ delivery'[o] # "none"
                              => use'[o] = "consumed"
      BY DEF FailureEvent, EndAttempt, Close, ReleasePromotion, ReleaseUse
    <3> QED
      BY <3>1, <3>2, <3>3 DEF FailureEvent
  <2>10. CASE Lapse(a)
    BY <2>10, CouponKept DEF Lapse
  <2> QED
    BY <2>1, <2>2, <2>3, <2>4, <2>5, <2>6, <2>7, <2>8, <2>9, <2>10 DEF AttemptStep
<1>3. CASE \E a \in Attempts, s \in Source : SuccessEvent(a, s)
  <2> PICK a \in Attempts, s \in Source : SuccessEvent(a, s)
    BY <1>3
  <2>1. CASE RecordAgain(a, s)
    BY <2>1, CouponKept DEF RecordAgain, Arrives, Untied, Write
  <2>2. CASE Reject(a, s)
    BY <2>2, CouponKept DEF Reject, Arrives, Write
  <2>3. CASE BeginReview(a, s)
    BY <2>3, CouponKept DEF BeginReview
  <2>4. CASE HoldForReview(a, s)
    BY <2>4, CouponKept DEF HoldForReview, Write
  <2>5. CASE Settle(a, s)
    <3> DEFINE o == OrderOf[a]
    <3>1. o \in Orders
      OBVIOUS
    <3>2. /\ \A p \in Couponed : order'[p] \in Bought /\ delivery'[p] # "none"
                                  => use'[p] = "consumed"
          /\ \A p \in uncounted : use'[p] = "consumed"
          /\ ruled' = ruled
      BY <2>5, <3>1 DEF Settle, Fulfil
    <3>3. CASE use[o] = "released" /\ used' = used + 1
      <4>1. used < Limit /\ uncounted' = uncounted
        BY <2>5, <3>3 DEF Settle
      <4>2. use' = [use EXCEPT ![o] = "consumed"]
        BY <2>5, <3>3 DEF Settle
      <4>3. used' = Cardinality(Counted')
        BY <3>1, <3>3, <4>1, <4>2, UseCounted
      <4> QED
        BY <3>2, <3>3, <4>1, <4>3
    <3>4. CASE use[o] # "released"
      <4>1. Counted' = Counted /\ used' = used /\ uncounted' = uncounted
        BY <2>5, <3>1, <3>4 DEF Settle, Counted, Uses
      <4> QED
        BY <3>2, <4>1
    <3>5. CASE use[o] = "released" /\ uncounted' = uncounted \cup {o} /\ used' = used
              /\ <<a, s>> \in early
      <4>1. use' = [use EXCEPT ![o] = "consumed"]
        BY <2>5, <3>5 DEF Settle
      <4>2. Counted' = Counted
        BY <3>1, <3>5, <4>1 DEF Counted, Uses
      <4>3. o \in ruled
        BY <3>1, <3>5
      <4> QED
        BY <3>1, <3>2, <3>5, <4>1, <4>2, <4>3
    <3> QED
      BY <2>5, <3>3, <3>4, <3>5 DEF Settle
  <2> QED
    BY <2>1, <2>2, <2>3, <2>4, <2>5 DEF SuccessEvent
<1>4. CASE UNCHANGED vars
  BY <1>4, CouponKept DEF vars
<1> QED
  BY <1>1, <1>2, <1>3, <1>4 DEF Next

-----------------------------------------------------------------------------
\* The codes of a pending delivery are only touched by the delivery.
LEMMA DeliveryStep ==
  Inv /\ [Next]_vars => (PendingDeliveryHasCodes /\ DeliveriesFollowOrder)'
<1> SUFFICES ASSUME Inv, [Next]_vars
             PROVE  (PendingDeliveryHasCodes /\ DeliveriesFollowOrder)'
  OBVIOUS
<1> USE PaymentsAssumption
<1> USE DEF Inv, TypeOK, PendingDeliveryHasCodes, DeliveriesFollowOrder,
       Payable, Bought, Closed, Unpaid,
       coupon, wallet, stock, tries, provider, events, marks
<1>1. CASE \E o \in Orders : OrderStep(o)
  <2> PICK o \in Orders : OrderStep(o)
    BY <1>1
  <2>1. CASE Checkout(o)
    BY <2>1 DEF Checkout
  <2>2. CASE BeginHold(o)
    BY <2>2 DEF BeginHold
  <2>3. CASE InsertHold(o)
    BY <2>3 DEF InsertHold, Rows
  <2>4. CASE CancelUnstartedBalancePayment(o)
    BY <2>4 DEF CancelUnstartedBalancePayment, Close
  <2>5. CASE BeginFullHold(o)
    BY <2>5 DEF BeginFullHold, External
  <2>6. CASE CompleteFullHold(o)
    BY <2>6 DEF CompleteFullHold, Fulfil, TakeStock
  <2>7. CASE BeginWallet(o)
    BY <2>7 DEF BeginWallet
  <2>8. CASE CompleteWallet(o)
    BY <2>8 DEF CompleteWallet, Fulfil, TakeStock
  <2>9. CASE CompleteTooLate(o)
    BY <2>9 DEF CompleteTooLate, TakeStock
  <2>10. CASE Expire(o)
    BY <2>10 DEF Expire, Close, ReturnStock
  <2>11. CASE \E s \in Closed : Transition(o, s)
    BY <2>11 DEF Transition, Close, ReturnStock
  <2>12. CASE ReleaseTooLate(o)
    BY <2>12 DEF ReleaseTooLate, ReturnStock
  <2>13. CASE Deliver(o)
    BY <2>13 DEF Deliver
  <2>14. CASE ExpireTooLate(o)
    BY <2>14 DEF ExpireTooLate, ReturnStock
  <2>15. CASE TransitionFailed(o)
    BY <2>15 DEF TransitionFailed, ReturnStock
  <2>16. CASE TransitionPaid(o)
    BY <2>16 DEF TransitionPaid
  <2> QED
    BY <2>1, <2>2, <2>3, <2>4, <2>5, <2>6, <2>7, <2>8, <2>9, <2>10, <2>11,
       <2>12, <2>13, <2>14, <2>15, <2>16 DEF OrderStep
<1>2. CASE \E a \in Attempts : AttemptStep(a)
  <2> PICK a \in Attempts : AttemptStep(a)
    BY <1>2
  <2>1. CASE Quote(a)
    BY <2>1 DEF Quote, External
  <2>2. CASE InsertAttempt(a)
    BY <2>2 DEF InsertAttempt, FundingHolds, External, Rows
  <2>3. CASE OpenPayment(a)
    BY <2>3 DEF OpenPayment
  <2>4. CASE SavePayment(a)
    BY <2>4 DEF SavePayment
  <2>5. CASE CreationFails(a)
    BY <2>5 DEF CreationFails, EndAttempt, Close
  <2>6. CASE RecordFailedCheckout(a)
    BY <2>6 DEF RecordFailedCheckout, Rows
  <2>7. CASE Charge(a)
    BY <2>7 DEF Charge
  <2>8. CASE Decline(a)
    BY <2>8 DEF Decline
  <2>9. CASE \E s \in {"failed", "expired"} : FailureEvent(a, s)
    BY <2>9 DEF FailureEvent, EndAttempt, Close
  <2>10. CASE Lapse(a)
    BY <2>10 DEF Lapse
  <2> QED
    BY <2>1, <2>2, <2>3, <2>4, <2>5, <2>6, <2>7, <2>8, <2>9, <2>10 DEF AttemptStep
<1>3. CASE \E a \in Attempts, s \in Source : SuccessEvent(a, s)
  <2> PICK a \in Attempts, s \in Source : SuccessEvent(a, s)
    BY <1>3
  <2>1. CASE RecordAgain(a, s)
    BY <2>1 DEF RecordAgain, Arrives, Untied, Write
  <2>2. CASE Reject(a, s)
    BY <2>2 DEF Reject, Arrives, Write
  <2>3. CASE BeginReview(a, s)
    BY <2>3 DEF BeginReview
  <2>4. CASE HoldForReview(a, s)
    BY <2>4 DEF HoldForReview, Write
  <2>5. CASE Settle(a, s)
    BY <2>5 DEF Settle, Arrives, Untied, Write, Fulfil, TakeStock
  <2> QED
    BY <2>1, <2>2, <2>3, <2>4, <2>5 DEF SuccessEvent
<1>4. CASE UNCHANGED vars
  BY <1>4 DEF vars
<1> QED
  BY <1>1, <1>2, <1>3, <1>4 DEF Next

-----------------------------------------------------------------------------
\* Only a payment leaves an attempt succeeded or a receipt processed.
LEMMA AcknowledgedStep == Inv /\ [Next]_vars => AcknowledgedIsPaid'
<1> SUFFICES ASSUME Inv, [Next]_vars PROVE AcknowledgedIsPaid'
  OBVIOUS
<1> USE PaymentsAssumption
<1> USE DEF Inv, TypeOK, AcknowledgedIsPaid, Payable, Bought, Live, Closed, Unpaid,
       coupon, wallet, stock, tries, provider, events, marks
<1>1. CASE \E o \in Orders : OrderStep(o)
  <2> PICK o \in Orders : OrderStep(o)
    BY <1>1
  <2>1. CASE Checkout(o)
    BY <2>1 DEF Checkout
  <2>2. CASE BeginHold(o)
    BY <2>2 DEF BeginHold
  <2>3. CASE InsertHold(o)
    BY <2>3 DEF InsertHold, Rows
  <2>4. CASE CancelUnstartedBalancePayment(o)
    BY <2>4 DEF CancelUnstartedBalancePayment, Close, ReleaseHold
  <2>5. CASE BeginFullHold(o)
    BY <2>5 DEF BeginFullHold, External
  <2>6. CASE CompleteFullHold(o)
    BY <2>6 DEF CompleteFullHold
  <2>7. CASE BeginWallet(o)
    BY <2>7 DEF BeginWallet
  <2>8. CASE CompleteWallet(o)
    BY <2>8 DEF CompleteWallet
  <2>9. CASE CompleteTooLate(o)
    BY <2>9 DEF CompleteTooLate
  <2>10. CASE Expire(o)
    BY <2>10 DEF Expire, Close, ReleaseHold, ReturnStock
  <2>11. CASE \E s \in Closed : Transition(o, s)
    BY <2>11 DEF Transition, Close, ReleaseHold, ReturnStock
  <2>12. CASE ReleaseTooLate(o)
    BY <2>12 DEF ReleaseTooLate, ReturnStock
  <2>13. CASE Deliver(o)
    BY <2>13 DEF Deliver
  <2>14. CASE ExpireTooLate(o)
    BY <2>14 DEF ExpireTooLate, ReturnStock
  <2>15. CASE TransitionFailed(o)
    BY <2>15 DEF TransitionFailed, ReturnStock
  <2>16. CASE TransitionPaid(o)
    BY <2>16 DEF TransitionPaid
  <2> QED
    BY <2>1, <2>2, <2>3, <2>4, <2>5, <2>6, <2>7, <2>8, <2>9, <2>10, <2>11,
       <2>12, <2>13, <2>14, <2>15, <2>16 DEF OrderStep
<1>2. CASE \E a \in Attempts : AttemptStep(a)
  <2> PICK a \in Attempts : AttemptStep(a)
    BY <1>2
  <2>1. CASE Quote(a)
    BY <2>1 DEF Quote, External
  <2>2. CASE InsertAttempt(a)
    BY <2>2 DEF InsertAttempt, FundingHolds, External, Rows
  <2>3. CASE OpenPayment(a)
    BY <2>3 DEF OpenPayment
  <2>4. CASE SavePayment(a)
    BY <2>4 DEF SavePayment
  <2>5. CASE CreationFails(a)
    BY <2>5 DEF CreationFails, EndAttempt, Close, ReleaseHold
  <2>6. CASE RecordFailedCheckout(a)
    BY <2>6 DEF RecordFailedCheckout, Rows
  <2>7. CASE Charge(a)
    BY <2>7 DEF Charge
  <2>8. CASE Decline(a)
    BY <2>8 DEF Decline
  <2>9. CASE \E s \in {"failed", "expired"} : FailureEvent(a, s)
    <3> PICK s \in {"failed", "expired"} : FailureEvent(a, s)
      BY <2>9
    <3>1. /\ UNCHANGED receipt
          /\ \A b \in Attempts : attempt'[b] = "succeeded" => attempt[b] = "succeeded"
          /\ \A o \in Orders : order[o] \in Bought => order'[o] = order[o]
      BY DEF FailureEvent, EndAttempt, Close
    <3> QED
      BY <3>1
  <2>10. CASE Lapse(a)
    BY <2>10 DEF Lapse
  <2> QED
    BY <2>1, <2>2, <2>3, <2>4, <2>5, <2>6, <2>7, <2>8, <2>9, <2>10 DEF AttemptStep
<1>3. CASE \E a \in Attempts, s \in Source : SuccessEvent(a, s)
  <2> PICK a \in Attempts, s \in Source : SuccessEvent(a, s)
    BY <1>3
  <2>1. CASE RecordAgain(a, s)
    BY <2>1 DEF RecordAgain, Arrives, Untied, Write
  <2>2. CASE Reject(a, s)
    BY <2>2 DEF Reject, Arrives, Write
  <2>3. CASE BeginReview(a, s)
    BY <2>3 DEF BeginReview
  <2>4. CASE HoldForReview(a, s)
    BY <2>4 DEF HoldForReview, Write
  <2>5. CASE Settle(a, s)
    BY <2>5 DEF Settle, Arrives, Untied, Write
  <2> QED
    BY <2>1, <2>2, <2>3, <2>4, <2>5 DEF SuccessEvent
<1>4. CASE UNCHANGED vars
  BY <1>4 DEF vars
<1> QED
  BY <1>1, <1>2, <1>3, <1>4 DEF Next

-----------------------------------------------------------------------------
\* Nothing was ordered, quoted or paid at the start.
LEMMA InvInit == Init => Inv
<1> SUFFICES ASSUME Init PROVE Inv
  OBVIOUS
<1> USE PaymentsAssumption DEF Init
<1>1. TypeOK
  BY DEF TypeOK, Live, Bought, Closed, Unpaid
<1>2. ReadsHold /\ HoldFollowsOrder /\ UsesFollowOrder
  BY DEF ReadsHold, HoldFollowsOrder, UsesFollowOrder
<1>3. AttemptsInserted /\ QuotesHold
  BY DEF AttemptsInserted, QuotesHold
<1>4. PaidInFull /\ PendingDeliveryHasCodes /\ DeliveriesFollowOrder
  BY DEF PaidInFull, PendingDeliveryHasCodes, DeliveriesFollowOrder, Bought
<1>5. AcknowledgedIsPaid
  BY DEF AcknowledgedIsPaid
<1>6. CouponUsesCounted
  <2>1. Counted = {}
    BY DEF Counted, Uses
  <2>2. Cardinality(Counted) = 0
    BY <2>1, FS_EmptySet
  <2> QED
    BY <2>2 DEF CouponUsesCounted, Bought
<1> QED
  BY <1>1, <1>2, <1>3, <1>4, <1>5, <1>6 DEF Inv

\* Each step of customers, providers, cron and administrators keeps it.
LEMMA InvNext == Inv /\ [Next]_vars => Inv'
<1> SUFFICES ASSUME Inv, [Next]_vars PROVE Inv'
  OBVIOUS
<1>1. TypeOK' /\ AttemptsInserted' /\ QuotesHold' /\ UsesFollowOrder'
  BY TypeStep, AttemptsStep, QuotesStep, UsesStep
<1>2. HoldFollowsOrder' /\ ReadsHold'
  BY HoldsStep
<1>3. PaidInFull' /\ CouponUsesCounted'
  BY PaidStep, CouponStep
<1>4. PendingDeliveryHasCodes' /\ DeliveriesFollowOrder' /\ AcknowledgedIsPaid'
  BY DeliveryStep, AcknowledgedStep
<1> QED
  BY <1>1, <1>2, <1>3, <1>4 DEF Inv

\* The columns keep their domains: no balance, counter or stock goes negative
\* (the guards of the wallet request, the coupon and the stock statements).
THEOREM TypeCorrect == Spec => []TypeOK
<1>1. Inv => TypeOK
  BY DEF Inv
<1> QED
  BY <1>1, InvInit, InvNext, PTL DEF Spec

\* A balance hold is open while its order can be paid or was declared failed,
\* consumed when the order becomes paid and released only when it does not
\* (order_balance_lifecycle, mixed_payment_failure_release).
THEOREM HoldsFollowOrders == Spec => []HoldFollowsOrder
<1>1. Inv => HoldFollowsOrder
  BY DEF Inv
<1> QED
  BY <1>1, InvInit, InvNext, PTL DEF Spec

\* However requests, events and expiry interleave, an order that is delivered
\* was paid its total (completeWalletStoreOrder, completeFreeStoreOrder, and
\* processShopPaymentEvent with the funding guards of the database); one that an
\* administrator declares paid has no delivery (transitionShopOrder).
THEOREM PaidInFullAlways == Spec => []PaidInFull
<1>1. Inv => PaidInFull
  BY DEF Inv
<1> QED
  BY <1>1, InvInit, InvNext, PTL DEF Spec

\* A success event is recorded as processed only when its order is paid
\* (processShopPaymentEvent).
THEOREM AcknowledgedPays == Spec => []AcknowledgedIsPaid
<1>1. Inv => AcknowledgedIsPaid
  BY DEF Inv
<1> QED
  BY <1>1, InvInit, InvNext, PTL DEF Spec

\* A delivery waits for fulfilment only with all its codes reserved
\* (the sale statements of local_fulfillment).
THEOREM DeliveriesHaveCodes == Spec => []PendingDeliveryHasCodes
<1>1. Inv => PendingDeliveryHasCodes
  BY DEF Inv
<1> QED
  BY <1>1, InvInit, InvNext, PTL DEF Spec

\* The counter of the coupon never passes its limit and misses only the uses of
\* orders that an administrator let expire, and a discounted order that is paid
\* and delivered has consumed its use (checkout, processShopPaymentEvent,
\* releaseCouponRedemptionStatements, expireStoreOrders).
THEOREM CouponsCounted == Spec => []CouponUsesCounted
<1>1. Inv => CouponUsesCounted
  BY DEF Inv
<1> QED
  BY <1>1, InvInit, InvNext, PTL DEF Spec

-----------------------------------------------------------------------------
(***************************************************************************)
(* The customer's money: what a step takes from the balance it puts into a *)
(* hold or into a payment, and back.                                       *)
(***************************************************************************)
Held == [o \in Orders |-> HeldCash(o)]

\* A step that moves no money, one that moves it between the balance and the
\* hold of an order that is not paid, and one that pays such an order.
MoneyKept ==
  /\ UNCHANGED <<balance, debited>>
  /\ \A p \in Orders : HeldCash(p)' = HeldCash(p)

MoneyHeld(o) ==
  /\ order[o] \notin Bought
  /\ debited' = debited
  /\ balance' + HeldCash(o)' = balance + HeldCash(o)
  /\ \A p \in Orders \ {o} : HeldCash(p)' = HeldCash(p)

MoneySpent(o) ==
  /\ order[o] = "pending_payment"
  /\ order'[o] = "paid"
  /\ HeldCash(o) = 0
  /\ debited' = debited \cup {o}
  /\ balance' + Total = balance
  /\ \A p \in Orders : HeldCash(p)' = HeldCash(p)

MoneyMoves == MoneyKept \/ \E o \in Orders : MoneyHeld(o) \/ MoneySpent(o)

\* The triggers that release a hold return what it took.
LEMMA ReleaseMoves ==
  ASSUME NEW o \in Orders, TypeOK, order[o] \notin Bought, ReleaseHold(o)
  PROVE  MoneyMoves
<1>1. CASE hold[o] = "held"
  <2>1. /\ hold' = [hold EXCEPT ![o] = "released"] /\ balance' = balance + cash[o]
        /\ cash' = cash /\ debited' = debited
    BY <1>1 DEF ReleaseHold, WriteBalance
  <2>2. HeldCash(o) = cash[o] /\ HeldCash(o)' = 0 /\ cash[o] \in Nat /\ balance \in Nat
    BY <1>1, <2>1, PaymentsAssumption DEF HeldCash, TypeOK
  <2>3. \A p \in Orders \ {o} : HeldCash(p)' = HeldCash(p)
    BY <2>1 DEF HeldCash, TypeOK
  <2> QED
    BY <2>1, <2>2, <2>3 DEF MoneyMoves, MoneyHeld
<1>2. CASE hold[o] # "held"
  BY <1>2 DEF ReleaseHold, MoneyMoves, MoneyKept, HeldCash
<1> QED
  BY <1>1, <1>2

\* Every step of requests, triggers and events moves money in one of the ways.
LEMMA MoneyStep == Inv /\ [Next]_vars => MoneyMoves
<1> SUFFICES ASSUME Inv, [Next]_vars PROVE MoneyMoves
  OBVIOUS
<1> USE PaymentsAssumption
<1> USE DEF Inv, coupon, wallet, stock, tries, provider, events, marks
<1>0. UNCHANGED <<hold, cash, balance, debited>> => MoneyMoves
  BY DEF MoneyMoves, MoneyKept, HeldCash
<1>1. ASSUME NEW o \in Orders, OrderStep(o) PROVE MoneyMoves
  <2>1. CASE Checkout(o)
    BY <2>1, <1>0 DEF Checkout
  <2>2. CASE BeginHold(o)
    BY <2>2, <1>0 DEF BeginHold
  <2>3. CASE InsertHold(o)
    <3>1. PICK c \in offers[o] :
            /\ c <= balance
            /\ hold' = [hold EXCEPT ![o] = "held"]
            /\ cash' = [cash EXCEPT ![o] = c]
            /\ balance' = balance - c
            /\ debited' = debited /\ hold[o] = "none" /\ order[o] = "pending_payment"
      BY <2>3 DEF InsertHold, WriteBalance
    <3>2. c \in Nat /\ balance \in Nat
      BY DEF TypeOK
    <3>3. HeldCash(o) = 0 /\ HeldCash(o)' = c
      BY <3>1 DEF HeldCash, TypeOK
    <3>4. \A p \in Orders \ {o} : HeldCash(p)' = HeldCash(p)
      BY <3>1 DEF HeldCash, TypeOK
    <3>5. balance' + HeldCash(o)' = balance + HeldCash(o)
      BY <3>1, <3>2, <3>3
    <3> QED
      BY <3>1, <3>4, <3>5 DEF MoneyMoves, MoneyHeld, Bought
  <2>4. CASE CancelUnstartedBalancePayment(o)
    BY <2>4, ReleaseMoves DEF CancelUnstartedBalancePayment, Close, Bought
  <2>5. CASE BeginFullHold(o)
    BY <2>5, <1>0 DEF BeginFullHold
  <2>6. CASE CompleteFullHold(o)
    <3>1. /\ hold' = [hold EXCEPT ![o] = "consumed"] /\ hold[o] = "held"
          /\ UNCHANGED <<cash, balance, debited>>
      BY <2>6 DEF CompleteFullHold, ConsumeHold
    <3> QED
      BY <3>1 DEF MoneyMoves, MoneyKept, HeldCash, TypeOK
  <2>7. CASE BeginWallet(o)
    BY <2>7, <1>0 DEF BeginWallet
  <2>8. CASE CompleteWallet(o)
    <3>1. /\ order[o] = "pending_payment" /\ order' = [order EXCEPT ![o] = "paid"]
          /\ o \in current /\ balance' = balance - Total
          /\ debited' = debited \cup {o} /\ hold' = hold /\ cash' = cash
      BY <2>8 DEF CompleteWallet, WriteBalance
    <3>2. hold[o] = "none" /\ balance >= Total
      BY <3>1 DEF ReadsHold
    <3>3. HeldCash(o) = 0 /\ \A p \in Orders : HeldCash(p)' = HeldCash(p)
      BY <3>1, <3>2 DEF HeldCash
    <3>4. balance' + Total = balance /\ order'[o] = "paid"
      BY <3>1, <3>2 DEF TypeOK
    <3> QED
      BY <3>1, <3>3, <3>4 DEF MoneyMoves, MoneySpent
  <2>9. CASE CompleteTooLate(o)
    BY <2>9, <1>0 DEF CompleteTooLate
  <2>10. CASE Expire(o)
    BY <2>10, ReleaseMoves DEF Expire, Close, Bought
  <2>11. CASE \E s \in Closed : Transition(o, s)
    BY <2>11, ReleaseMoves DEF Transition, Close, Bought
  <2>12. CASE ReleaseTooLate(o)
    BY <2>12, <1>0 DEF ReleaseTooLate, ReturnStock
  <2>13. CASE Deliver(o)
    BY <2>13, <1>0 DEF Deliver
  <2>14. CASE ExpireTooLate(o) \/ TransitionFailed(o)
    BY <2>14, <1>0 DEF ExpireTooLate, TransitionFailed
  <2>15. CASE TransitionPaid(o)
    <3>1. /\ hold' = [hold EXCEPT ![o] = IF @ = "held" THEN "consumed" ELSE @]
          /\ UNCHANGED <<cash, balance, debited>>
      BY <2>15 DEF TransitionPaid, ConsumeHold
    <3> QED
      BY <3>1 DEF MoneyMoves, MoneyKept, HeldCash, TypeOK
  <2> QED
    BY <1>1, <2>1, <2>2, <2>3, <2>4, <2>5, <2>6, <2>7, <2>8,
       <2>9, <2>10, <2>11, <2>12, <2>13, <2>14, <2>15 DEF OrderStep
<1>2. ASSUME NEW a \in Attempts, NEW s, EndAttempt(a, s) PROVE MoneyMoves
  <2>1. OrderOf[a] \in Orders
    OBVIOUS
  <2>2. CASE order[OrderOf[a]] \in {"pending_payment", "failed"} /\ ReleaseHold(OrderOf[a])
    BY <2>1, <2>2, ReleaseMoves DEF Bought
  <2>3. CASE UNCHANGED wallet
    BY <2>3, <1>0
  <2> QED
    BY <1>2, <2>2, <2>3, EndAttemptEffect DEF Close
<1>3. ASSUME NEW a \in Attempts, AttemptStep(a) PROVE MoneyMoves
  <2>1. CASE CreationFails(a) \/ \E s \in {"failed", "expired"} : FailureEvent(a, s)
    BY <2>1, <1>2 DEF CreationFails, FailureEvent
  <2>2. CASE \/ Quote(a) \/ InsertAttempt(a) \/ OpenPayment(a) \/ SavePayment(a)
             \/ RecordFailedCheckout(a) \/ Charge(a) \/ Decline(a) \/ Lapse(a)
    BY <2>2, <1>0 DEF Quote, InsertAttempt, OpenPayment, SavePayment,
       RecordFailedCheckout, Charge, Decline, Lapse
  <2> QED
    BY <1>3, <2>1, <2>2 DEF AttemptStep
<1>4. ASSUME NEW a \in Attempts, NEW s \in Source, SuccessEvent(a, s) PROVE MoneyMoves
  <2>1. CASE Settle(a, s)
    <3>1. /\ hold' = [hold EXCEPT ![OrderOf[a]] = IF @ = "held" THEN "consumed" ELSE @]
          /\ UNCHANGED <<cash, balance, debited>>
      BY <2>1 DEF Settle, ConsumeHold
    <3> QED
      BY <3>1 DEF MoneyMoves, MoneyKept, HeldCash, TypeOK
  <2>2. CASE \/ RecordAgain(a, s) \/ Reject(a, s) \/ BeginReview(a, s)
             \/ HoldForReview(a, s)
    BY <2>2, <1>0 DEF RecordAgain, Reject, BeginReview, HoldForReview
  <2> QED
    BY <1>4, <2>1, <2>2 DEF SuccessEvent
<1>5. CASE UNCHANGED vars
  BY <1>5, <1>0 DEF vars
<1> QED
  BY <1>1, <1>3, <1>4, <1>5 DEF Next

\* A paid order stays paid: only fulfilment writes it.
LEMMA BoughtStays ==
  ASSUME Inv, [Next]_vars, NEW p \in Orders, order[p] \in Bought
  PROVE  order'[p] \in Bought
<1> USE DEF Inv, TypeOK, Bought, Closed, Unpaid, Payable
<1>1. ASSUME NEW o \in Orders, OrderStep(o) PROVE order'[p] \in Bought
  <2>1. CASE \/ Checkout(o) \/ BeginHold(o) \/ InsertHold(o)
             \/ CancelUnstartedBalancePayment(o) \/ BeginFullHold(o)
             \/ CompleteFullHold(o) \/ BeginWallet(o) \/ CompleteWallet(o)
    BY <2>1 DEF Checkout, BeginHold, InsertHold, CancelUnstartedBalancePayment,
       Close, BeginFullHold, CompleteFullHold, BeginWallet, CompleteWallet
  <2>2. CASE \/ CompleteTooLate(o) \/ Expire(o) \/ ReleaseTooLate(o) \/ Deliver(o)
             \/ \E s \in Closed : Transition(o, s)
             \/ ExpireTooLate(o) \/ TransitionFailed(o) \/ TransitionPaid(o)
    BY <2>2 DEF CompleteTooLate, Expire, ReleaseTooLate, Deliver, Transition, Close,
       ExpireTooLate, TransitionFailed, TransitionPaid
  <2> QED
    BY <1>1, <2>1, <2>2 DEF OrderStep
<1>2. ASSUME NEW a \in Attempts, NEW s, EndAttempt(a, s) PROVE order'[p] \in Bought
  BY <1>2 DEF EndAttempt, Close
<1>3. ASSUME NEW a \in Attempts, AttemptStep(a) PROVE order'[p] \in Bought
  <2>1. CASE CreationFails(a) \/ \E s \in {"failed", "expired"} : FailureEvent(a, s)
    BY <2>1, <1>2 DEF CreationFails, FailureEvent
  <2>2. CASE \/ Quote(a) \/ InsertAttempt(a) \/ OpenPayment(a) \/ SavePayment(a)
             \/ RecordFailedCheckout(a) \/ Charge(a) \/ Decline(a) \/ Lapse(a)
    BY <2>2 DEF Quote, InsertAttempt, OpenPayment, SavePayment,
       RecordFailedCheckout, Charge, Decline, Lapse
  <2> QED
    BY <1>3, <2>1, <2>2 DEF AttemptStep
<1>4. ASSUME NEW a \in Attempts, NEW s \in Source, SuccessEvent(a, s)
      PROVE  order'[p] \in Bought
  BY <1>4 DEF SuccessEvent, Settle, RecordAgain, Reject, BeginReview, HoldForReview
<1>5. CASE UNCHANGED vars
  BY <1>5 DEF vars
<1> QED
  BY <1>1, <1>3, <1>4, <1>5 DEF Next

\* The balance is taken by a wallet payment only for an order that is bought.
BalanceInv ==
  /\ Inv
  /\ BalanceAddsUp
  /\ \A o \in debited : order[o] \in Bought

\* What the open and consumed holds of all the orders took.
LEMMA HeldTyped ==
  ASSUME TypeOK
  PROVE  Held \in [Orders -> Nat] /\ SumOver(Held, Orders) \in Nat
<1>1. Held \in [Orders -> Nat]
  BY PaymentsAssumption DEF Held, HeldCash, TypeOK
<1> QED
  BY <1>1, PaymentsAssumption, SumType

\* What a wallet payment takes from the balance it adds to what was paid.
LEMMA Spent ==
  ASSUME NEW b \in Nat, NEW c \in Nat, NEW h \in Nat, NEW t \in Nat,
         NEW n \in Nat, NEW k, c + n = b, b + h + n * t = k
  PROVE  c + h + n * (t + 1) = k
<1> DEFINE m == n * t
           w == n * (t + 1)
<1>1. w = m + n /\ m \in Nat
  OBVIOUS
<1>2. b + h + m = k
  OBVIOUS
<1> HIDE DEF m, w
<1>3. c + h + w = k
  BY <1>1, <1>2
<1> QED
  BY <1>3 DEF w

\* The sum of the balance, the holds and the payments is the same after a step.
LEMMA BalanceStep == BalanceInv /\ [Next]_vars => BalanceInv'
<1> SUFFICES ASSUME BalanceInv, [Next]_vars PROVE BalanceInv'
  OBVIOUS
<1>1. Inv /\ Inv' /\ TypeOK /\ TypeOK'
  BY InvNext DEF BalanceInv, Inv
<1>2. MoneyMoves
  BY <1>1, MoneyStep
<1> DEFINE H == Held
           G == Held'
           spent == Cardinality(debited)
<1>3. /\ H \in [Orders -> Nat] /\ SumOver(H, Orders) \in Nat
      /\ \A p \in Orders : H[p] = HeldCash(p)
  BY <1>1, HeldTyped DEF Held
<1>4. /\ G \in [Orders -> Nat] /\ SumOver(G, Orders) \in Nat
      /\ \A p \in Orders : G[p] = HeldCash(p)'
  <2>1. (Held \in [Orders -> Nat] /\ SumOver(Held, Orders) \in Nat)'
    BY <1>1, HeldTyped, PTL
  <2> QED
    BY <2>1 DEF Held
<1>5. /\ balance + SumOver(H, Orders) + Total * spent = Balance
      /\ \A o \in debited : HeldCash(o) = 0 /\ order[o] \in Bought
  BY DEF BalanceInv, BalanceAddsUp, Held
<1>6. /\ IsFiniteSet(debited) /\ spent \in Nat
      /\ balance \in Nat /\ balance' \in Nat /\ Total \in Nat /\ Balance \in Nat
      /\ debited \subseteq Orders /\ debited' \subseteq Orders /\ IsFiniteSet(Orders)
  BY <1>1, PaymentsAssumption, FS_Subset, FS_CardinalityType DEF TypeOK
<1>7. SUFFICES /\ balance' + SumOver(G, Orders) + Total * Cardinality(debited') = Balance
               /\ \A o \in debited' : HeldCash(o)' = 0 /\ order'[o] \in Bought
  BY <1>1 DEF BalanceInv, BalanceAddsUp, Held
<1> HIDE DEF H, G
<1>8. \A o \in debited : order'[o] \in Bought
  BY <1>1, <1>5, <1>6, BoughtStays
<1>9. CASE MoneyKept
  <2>1. SumOver(G, Orders) = SumOver(H, Orders)
    BY <1>3, <1>4, <1>9, SumSame DEF MoneyKept
  <2> QED
    BY <1>5, <1>6, <1>8, <1>9, <2>1 DEF MoneyKept
<1>10. ASSUME NEW o \in Orders, MoneyHeld(o)
       PROVE  /\ balance' + SumOver(G, Orders) + Total * Cardinality(debited') = Balance
              /\ \A p \in debited' : HeldCash(p)' = 0 /\ order'[p] \in Bought
  <2>1. \A p \in Orders \ {o} : G[p] = H[p]
    BY <1>3, <1>4, <1>10 DEF MoneyHeld
  <2>2. SumOver(G, Orders) + H[o] = SumOver(H, Orders) + G[o]
    BY <1>3, <1>4, <1>6, <2>1, SumWrite
  <2>3. balance' + G[o] = balance + H[o] /\ debited' = debited
    BY <1>3, <1>4, <1>10 DEF MoneyHeld
  <2>4. o \notin debited
    BY <1>5, <1>10 DEF MoneyHeld, Bought
  <2>5. G[o] \in Nat /\ H[o] \in Nat
    BY <1>3, <1>4
  <2>6. balance' + SumOver(G, Orders) = balance + SumOver(H, Orders)
    BY <1>3, <1>4, <1>6, <2>2, <2>3, <2>5
  <2>7. \A p \in debited : HeldCash(p)' = 0
    BY <1>5, <1>6, <1>10, <2>4 DEF MoneyHeld
  <2> QED
    BY <1>5, <1>8, <2>3, <2>6, <2>7
<1>11. ASSUME NEW o \in Orders, MoneySpent(o)
       PROVE  /\ balance' + SumOver(G, Orders) + Total * Cardinality(debited') = Balance
              /\ \A p \in debited' : HeldCash(p)' = 0 /\ order'[p] \in Bought
  <2>1. SumOver(G, Orders) = SumOver(H, Orders)
    BY <1>3, <1>4, <1>11, SumSame DEF MoneySpent
  <2>2. o \notin debited
    BY <1>5, <1>11 DEF MoneySpent, Bought
  <2>3. Cardinality(debited') = spent + 1
    BY <1>6, <1>11, <2>2, FS_AddElement DEF MoneySpent
  <2>4. balance' + Total = balance
    BY <1>11 DEF MoneySpent
  <2>5. balance + SumOver(G, Orders) + Total * spent = Balance
    BY <1>5, <2>1
  <2>6. balance' + SumOver(G, Orders) + Total * Cardinality(debited') = Balance
    <3> DEFINE b == balance
               c == balance'
               h == SumOver(G, Orders)
               n == spent
               k == Balance
    <3>1. /\ b \in Nat /\ c \in Nat /\ h \in Nat /\ n \in Nat /\ Total \in Nat
          /\ c + Total = b /\ b + h + Total * n = k
      BY <1>4, <1>6, <2>4, <2>5
    <3> HIDE DEF b, c, h, n, k
    <3>2. c + h + Total * (n + 1) = k
      BY <3>1, Spent
    <3> QED
      BY <2>3, <3>2 DEF c, h, n, k
  <2>7. order'[o] \in Bought /\ HeldCash(o)' = 0
    BY <1>11 DEF MoneySpent, Bought
  <2>8. \A p \in debited' : p \in debited \/ p = o
    BY <1>11 DEF MoneySpent
  <2>9. \A p \in debited : HeldCash(p)' = 0
    BY <1>5, <1>6, <1>11 DEF MoneySpent
  <2> QED
    BY <1>8, <2>6, <2>7, <2>8, <2>9
<1> QED
  BY <1>2, <1>9, <1>10, <1>11 DEF MoneyMoves

LEMMA BalanceInit == Init => BalanceInv
<1> SUFFICES ASSUME Init PROVE BalanceInv
  OBVIOUS
<1>1. Inv
  BY InvInit
<1>2. balance = Balance /\ debited = {} /\ \A o \in Orders : HeldCash(o) = 0
  BY DEF Init, HeldCash
<1>3. SumOver(Held, Orders) = 0
  <2>1. Shares(Held, Orders) = {}
    BY <1>2 DEF Shares, Held
  <2> QED
    BY <2>1, FS_EmptySet DEF SumOver
<1>4. Cardinality(debited) = 0
  BY <1>2, FS_EmptySet
<1>5. balance + SumOver(Held, Orders) + Total * Cardinality(debited) = Balance
  BY <1>2, <1>3, <1>4, PaymentsAssumption
<1> QED
  BY <1>1, <1>2, <1>5 DEF BalanceInv, BalanceAddsUp, Held

\* No money of the customer is lost or made by holds, wallet payments, expiry,
\* cancellation and the triggers that release and consume holds: the balance
\* and what it was used for always add up to what it was.
THEOREM BalanceIsKept == Spec => []BalanceAddsUp
<1>1. BalanceInv => BalanceAddsUp
  BY DEF BalanceInv
<1> QED
  BY <1>1, BalanceInit, BalanceStep, PTL DEF Spec

=============================================================================
