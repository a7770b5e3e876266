------------------------ MODULE SupplierOrdersProofs ------------------------
(***************************************************************************)
(* Proofs about SupplierOrders, for any pool of accounts, any number of    *)
(* messages, crashes, callbacks and actions of administrators: a purchase  *)
(* that its supplier does not deny stays on the selected account, cards    *)
(* come from a filled purchase, a refund ends the delivery, a locked       *)
(* account is not changed, and all of it implements PurchaseOnce.          *)
(***************************************************************************)
EXTENDS SupplierOrders, TLAPS

\* The two halves of the type invariant: the rows, and the run with its world.
RowTyped ==
  /\ state \in States
  /\ account \in Account
  /\ locked \in BOOLEAN
  /\ upstream \in Account
  /\ cards \in Account
  /\ delivery \in {"awaiting_supply", "pending", "delivered", "failed"}
  /\ refunded \in BOOLEAN

RunTyped ==
  /\ message \in 0 .. MaxAttempts
  /\ lease \in BOOLEAN
  /\ pc \in {"idle", "loaded", "choosing", "claimed", "answered", "reconciling",
             "reconciled", "importing", "caught", "done", "failing"}
  /\ asked \in Account
  /\ left \subseteq Accounts
  /\ answer \in {"none", "numbered", "unnumbered", "processing", "supplied",
                 "rejected", "lost"}
  /\ intents \subseteq States
  /\ purchase \in [Accounts -> {"none", "placed", "ready", "cancelled"}]
  /\ denied \subseteq Accounts

\* What the run may rely on: the account it deals with is selected from its
\* claim to its last statement, a supplier that said no has sold nothing or
\* denies it, and one that gave cards has filled its order.
RunKnows ==
  /\ pc \in {"claimed", "answered", "reconciling", "reconciled", "importing"}
       => asked \in Accounts /\ account = asked
  /\ pc = "claimed" /\ purchase[asked] \in Bought => asked \in denied
  /\ pc \in {"answered", "reconciled"} /\ answer = "rejected"
       => purchase[asked] \notin Bought \/ asked \in denied
  /\ pc \in {"answered", "reconciled"} /\ answer = "supplied"
       => purchase[asked] = "ready"
  /\ pc = "importing" => purchase[asked] = "ready"

\* A lock has an account, no administrator writes the states that the supply and
\* the refund write, and the delivery waits only until cards or a refund come.
RowIsSound ==
  /\ locked => account # None
  /\ intents \cap {"supplied", "refunded"} = {}
  /\ delivery = "awaiting_supply" => cards = None /\ ~ refunded
  /\ delivery = "failed" => refunded

Inv ==
  /\ TypeOK
  /\ RunKnows
  /\ RowIsSound
  /\ PurchaseStaysSelected
  /\ DeliveredFromPurchase

\* Nothing is bought when the order is paid.
LEMMA InvInit == Init => Inv
<1> SUFFICES ASSUME Init PROVE Inv
  OBVIOUS
<1> USE SuppliersAssumption DEF Init
<1>1. TypeOK
  <2>1. RowTyped
    BY DEF RowTyped, States, Account, Unclaimed
  <2>2. message \in 0 .. MaxAttempts
    OBVIOUS
  <2>3. RunTyped
    BY <2>2 DEF RunTyped, States, Account
  <2> QED
    BY <2>1, <2>3 DEF TypeOK, RowTyped, RunTyped
<1>2. RunKnows /\ RowIsSound
  BY DEF RunKnows, RowIsSound
<1>3. PurchaseStaysSelected
  BY DEF PurchaseStaysSelected, Bought
<1>4. DeliveredFromPurchase
  BY DEF DeliveredFromPurchase
<1> QED
  BY <1>1, <1>2, <1>3, <1>4 DEF Inv

\* The run, its supplier and everybody else keep the columns typed.
LEMMA TypeStep == Inv /\ [Next]_vars => TypeOK'
<1> SUFFICES ASSUME Inv, [Next]_vars PROVE TypeOK'
  OBVIOUS
<1> USE SuppliersAssumption
<1> USE DEF Inv, TypeOK, RunKnows, RowIsSound,
        row, goods, run, queue, market, States, Account, Unclaimed, Open, Bought
<1>1. CASE RunStep
  <2>1. CASE Refuse
    BY <2>1 DEF Refuse
  <2>2. CASE Load
    <3>1. RowTyped'
      BY <2>2 DEF Load, RowTyped
    <3>2. RunTyped'
      BY <2>2 DEF Load, RunTyped
    <3> QED
      BY <3>1, <3>2 DEF RowTyped, RunTyped
  <2>3. CASE Select
    <3>1. RowTyped'
      BY <2>3 DEF Select, RowTyped
    <3>2. RunTyped'
      BY <2>3 DEF Select, RunTyped
    <3> QED
      BY <3>1, <3>2 DEF RowTyped, RunTyped
  <2>4. CASE \E a \in Accounts : Skip(a)
    BY <2>4 DEF Skip
  <2>5. CASE \E a \in Accounts : Claim(a)
    BY <2>5 DEF Claim
  <2>6. CASE Exhaust
    <3>1. RowTyped'
      BY <2>6 DEF Exhaust, Goto, RowTyped
    <3>2. RunTyped'
      BY <2>6 DEF Exhaust, Goto, RunTyped
    <3> QED
      BY <3>1, <3>2 DEF RowTyped, RunTyped
  <2>7. CASE Submit
    BY <2>7 DEF Submit
  <2>8. CASE Reconcile
    BY <2>8 DEF Reconcile
  <2>9. CASE Apply
    <3>1. RowTyped'
      BY <2>9 DEF Apply, Goto, Release, MarkUncertain, Number, RowTyped
    <3>2. RunTyped'
      BY <2>9 DEF Apply, Goto, Release, MarkUncertain, Number, RunTyped
    <3> QED
      BY <3>1, <3>2 DEF RowTyped, RunTyped
  <2>10. CASE KeepIdentity
    <3>1. RowTyped'
      BY <2>10 DEF KeepIdentity, Goto, MarkUncertain, RowTyped
    <3>2. RunTyped'
      BY <2>10 DEF KeepIdentity, Goto, MarkUncertain, RunTyped
    <3> QED
      BY <3>1, <3>2 DEF RowTyped, RunTyped
  <2>11. CASE Import
    <3>1. RowTyped'
      BY <2>11 DEF Import, Goto, Fulfill, RowTyped
    <3>2. RunTyped'
      BY <2>11 DEF Import, Goto, Fulfill, RunTyped
    <3> QED
      BY <3>1, <3>2 DEF RowTyped, RunTyped
  <2>12. CASE ImportFails
    <3>1. RowTyped'
      BY <2>12 DEF ImportFails, Goto, MarkUncertain, RowTyped
    <3>2. RunTyped'
      BY <2>12 DEF ImportFails, Goto, MarkUncertain, RunTyped
    <3> QED
      BY <3>1, <3>2 DEF RowTyped, RunTyped
  <2>13. CASE Recheck
    <3>1. RowTyped'
      BY <2>13 DEF Recheck, Goto, MarkUncertain, RowTyped
    <3>2. RunTyped'
      BY <2>13 DEF Recheck, Goto, MarkUncertain, RunTyped
    <3> QED
      BY <3>1, <3>2 DEF RowTyped, RunTyped
  <2>14. CASE Finish
    <3>1. RowTyped'
      BY <2>14 DEF Finish, Goto, RowTyped
    <3>2. RunTyped'
      <4>1. message' \in 0 .. MaxAttempts
        BY <2>14 DEF Finish
      <4> QED
        BY <2>14, <4>1 DEF Finish, Goto, RunTyped
    <3> QED
      BY <3>1, <3>2 DEF RowTyped, RunTyped
  <2> QED
    BY <1>1, <2>1, <2>2, <2>3, <2>4, <2>5, <2>6, <2>7, <2>8, <2>9,
       <2>10, <2>11, <2>12, <2>13, <2>14 DEF RunStep
<1>2. CASE OtherStep
  <2>1. CASE Crash
    <3>1. RowTyped'
      BY <2>1 DEF Crash, Goto, RowTyped
    <3>2. RunTyped'
      BY <2>1 DEF Crash, Goto, RunTyped
    <3> QED
      BY <3>1, <3>2 DEF RowTyped, RunTyped
  <2>2. CASE ExpireLease
    <3>1. RowTyped'
      BY <2>2 DEF ExpireLease, RowTyped
    <3>2. RunTyped'
      BY <2>2 DEF ExpireLease, RunTyped
    <3> QED
      BY <3>1, <3>2 DEF RowTyped, RunTyped
  <2>3. CASE \E a \in Accounts : Callback(a)
    <3>1. RowTyped'
      BY <2>3 DEF Callback, Fulfill, RowTyped
    <3>2. RunTyped'
      BY <2>3 DEF Callback, Fulfill, RunTyped
    <3> QED
      BY <3>1, <3>2 DEF RowTyped, RunTyped
  <2>4. CASE \E a \in Accounts : CallbackTooLate(a)
    <3>1. RowTyped'
      BY <2>4 DEF CallbackTooLate, Fulfill, RowTyped
    <3>2. RunTyped'
      BY <2>4 DEF CallbackTooLate, Fulfill, RunTyped
    <3> QED
      BY <3>1, <3>2 DEF RowTyped, RunTyped
  <2>5. CASE Consider
    <3>1. RowTyped'
      BY <2>5 DEF Consider, RowTyped
    <3>2. RunTyped'
      BY <2>5 DEF Consider, RunTyped
    <3> QED
      BY <3>1, <3>2 DEF RowTyped, RunTyped
  <2>6. CASE \E s \in intents : Act(s)
    BY <2>6 DEF Act
  <2>7. CASE Refund
    BY <2>7 DEF Refund
  <2>8. CASE Deliver
    BY <2>8 DEF Deliver
  <2>9. CASE RetryDelivery
    BY <2>9 DEF RetryDelivery
  <2>10. CASE \E a \in Accounts : Supply(a)
    BY <2>10 DEF Supply
  <2> QED
    BY <1>2, <2>1, <2>2, <2>3, <2>4, <2>5, <2>6, <2>7, <2>8, <2>9, <2>10
       DEF OtherStep
<1>3. CASE UNCHANGED vars
  BY <1>3 DEF vars
<1> QED
  BY <1>1, <1>2, <1>3 DEF Next

\* Only the run selects and releases its account, and only a rejection does.
LEMMA RunStepKnows == Inv /\ [Next]_vars => RunKnows'
<1> SUFFICES ASSUME Inv, [Next]_vars PROVE RunKnows'
  OBVIOUS
<1> USE SuppliersAssumption
<1> USE DEF Inv, TypeOK, RunKnows, RowIsSound, PurchaseStaysSelected,
        row, goods, run, queue, market, States, Account, Unclaimed, Open, Bought
<1>1. CASE RunStep
  <2>1. CASE Refuse
    BY <2>1 DEF Refuse
  <2>2. CASE Load
    BY <2>2 DEF Load
  <2>3. CASE Select
    BY <2>3 DEF Select
  <2>4. CASE \E a \in Accounts : Skip(a)
    BY <2>4 DEF Skip
  <2>5. CASE \E a \in Accounts : Claim(a)
    BY <2>5 DEF Claim
  <2>6. CASE Exhaust
    BY <2>6 DEF Exhaust, Goto
  <2>7. CASE Submit
    BY <2>7 DEF Submit
  <2>8. CASE Reconcile
    BY <2>8 DEF Reconcile
  <2>9. CASE Apply
    BY <2>9 DEF Apply, Goto, Release, MarkUncertain, Number
  <2>10. CASE KeepIdentity
    BY <2>10 DEF KeepIdentity, Goto, MarkUncertain
  <2>11. CASE Import
    BY <2>11 DEF Import, Goto, Fulfill
  <2>12. CASE ImportFails
    BY <2>12 DEF ImportFails, Goto, MarkUncertain
  <2>13. CASE Recheck
    BY <2>13 DEF Recheck, Goto, MarkUncertain
  <2>14. CASE Finish
    BY <2>14 DEF Finish, Goto
  <2> QED
    BY <1>1, <2>1, <2>2, <2>3, <2>4, <2>5, <2>6, <2>7, <2>8, <2>9,
       <2>10, <2>11, <2>12, <2>13, <2>14 DEF RunStep
<1>2. CASE OtherStep
  <2>1. CASE Crash
    BY <2>1 DEF Crash, Goto
  <2>2. CASE ExpireLease
    BY <2>2 DEF ExpireLease
  <2>3. CASE \E a \in Accounts : Callback(a)
    BY <2>3 DEF Callback, Fulfill
  <2>4. CASE \E a \in Accounts : CallbackTooLate(a)
    BY <2>4 DEF CallbackTooLate, Fulfill
  <2>5. CASE Consider
    BY <2>5 DEF Consider
  <2>6. CASE \E s \in intents : Act(s)
    BY <2>6 DEF Act
  <2>7. CASE Refund
    BY <2>7 DEF Refund
  <2>8. CASE Deliver
    BY <2>8 DEF Deliver
  <2>9. CASE RetryDelivery
    BY <2>9 DEF RetryDelivery
  <2>10. CASE \E a \in Accounts : Supply(a)
    BY <2>10 DEF Supply
  <2> QED
    BY <1>2, <2>1, <2>2, <2>3, <2>4, <2>5, <2>6, <2>7, <2>8, <2>9, <2>10
       DEF OtherStep
<1>3. CASE UNCHANGED vars
  BY <1>3 DEF vars
<1> QED
  BY <1>1, <1>2, <1>3 DEF Next

\* What administrators write is neither supplied nor refunded.
LEMMA RowStep == Inv /\ [Next]_vars => RowIsSound'
<1> SUFFICES ASSUME Inv, [Next]_vars PROVE RowIsSound'
  OBVIOUS
<1> USE SuppliersAssumption
<1> USE DEF Inv, TypeOK, RunKnows, RowIsSound,
        row, goods, run, queue, market, States, Account, Unclaimed, Open, Bought
<1>1. CASE RunStep
  <2>1. CASE Refuse
    BY <2>1 DEF Refuse
  <2>2. CASE Load
    BY <2>2 DEF Load
  <2>3. CASE Select
    BY <2>3 DEF Select
  <2>4. CASE \E a \in Accounts : Skip(a)
    BY <2>4 DEF Skip
  <2>5. CASE \E a \in Accounts : Claim(a)
    BY <2>5 DEF Claim
  <2>6. CASE Exhaust
    BY <2>6 DEF Exhaust, Goto
  <2>7. CASE Submit
    BY <2>7 DEF Submit
  <2>8. CASE Reconcile
    BY <2>8 DEF Reconcile
  <2>9. CASE Apply
    BY <2>9 DEF Apply, Goto, Release, MarkUncertain, Number
  <2>10. CASE KeepIdentity
    BY <2>10 DEF KeepIdentity, Goto, MarkUncertain
  <2>11. CASE Import
    BY <2>11 DEF Import, Goto, Fulfill
  <2>12. CASE ImportFails
    BY <2>12 DEF ImportFails, Goto, MarkUncertain
  <2>13. CASE Recheck
    BY <2>13 DEF Recheck, Goto, MarkUncertain
  <2>14. CASE Finish
    BY <2>14 DEF Finish, Goto
  <2> QED
    BY <1>1, <2>1, <2>2, <2>3, <2>4, <2>5, <2>6, <2>7, <2>8, <2>9,
       <2>10, <2>11, <2>12, <2>13, <2>14 DEF RunStep
<1>2. CASE OtherStep
  <2>1. CASE Crash
    BY <2>1 DEF Crash, Goto
  <2>2. CASE ExpireLease
    BY <2>2 DEF ExpireLease
  <2>3. CASE \E a \in Accounts : Callback(a)
    BY <2>3 DEF Callback, Fulfill
  <2>4. CASE \E a \in Accounts : CallbackTooLate(a)
    BY <2>4 DEF CallbackTooLate, Fulfill
  <2>5. CASE Consider
    BY <2>5 DEF Consider
  <2>6. CASE \E s \in intents : Act(s)
    BY <2>6 DEF Act
  <2>7. CASE Refund
    BY <2>7 DEF Refund
  <2>8. CASE Deliver
    BY <2>8 DEF Deliver
  <2>9. CASE RetryDelivery
    BY <2>9 DEF RetryDelivery
  <2>10. CASE \E a \in Accounts : Supply(a)
    BY <2>10 DEF Supply
  <2> QED
    BY <1>2, <2>1, <2>2, <2>3, <2>4, <2>5, <2>6, <2>7, <2>8, <2>9, <2>10
       DEF OtherStep
<1>3. CASE UNCHANGED vars
  BY <1>3 DEF vars
<1> QED
  BY <1>1, <1>2, <1>3 DEF Next

\* An account leaves its order only after a rejection.
LEMMA PurchaseStep == Inv /\ [Next]_vars => PurchaseStaysSelected'
<1> SUFFICES ASSUME Inv, [Next]_vars PROVE PurchaseStaysSelected'
  OBVIOUS
<1> USE SuppliersAssumption
<1> USE DEF Inv, TypeOK, RunKnows, RowIsSound, PurchaseStaysSelected,
        row, goods, run, queue, market, States, Account, Unclaimed, Open, Bought
<1>1. CASE RunStep
  <2>1. CASE Refuse
    BY <2>1 DEF Refuse
  <2>2. CASE Load
    BY <2>2 DEF Load
  <2>3. CASE Select
    BY <2>3 DEF Select
  <2>4. CASE \E a \in Accounts : Skip(a)
    BY <2>4 DEF Skip
  <2>5. CASE \E a \in Accounts : Claim(a)
    BY <2>5 DEF Claim
  <2>6. CASE Exhaust
    BY <2>6 DEF Exhaust, Goto
  <2>7. CASE Submit
    BY <2>7 DEF Submit
  <2>8. CASE Reconcile
    BY <2>8 DEF Reconcile
  <2>9. CASE Apply
    BY <2>9 DEF Apply, Goto, Release, MarkUncertain, Number
  <2>10. CASE KeepIdentity
    BY <2>10 DEF KeepIdentity, Goto, MarkUncertain
  <2>11. CASE Import
    BY <2>11 DEF Import, Goto, Fulfill
  <2>12. CASE ImportFails
    BY <2>12 DEF ImportFails, Goto, MarkUncertain
  <2>13. CASE Recheck
    BY <2>13 DEF Recheck, Goto, MarkUncertain
  <2>14. CASE Finish
    BY <2>14 DEF Finish, Goto
  <2> QED
    BY <1>1, <2>1, <2>2, <2>3, <2>4, <2>5, <2>6, <2>7, <2>8, <2>9,
       <2>10, <2>11, <2>12, <2>13, <2>14 DEF RunStep
<1>2. CASE OtherStep
  <2>1. CASE Crash
    BY <2>1 DEF Crash, Goto
  <2>2. CASE ExpireLease
    BY <2>2 DEF ExpireLease
  <2>3. CASE \E a \in Accounts : Callback(a)
    BY <2>3 DEF Callback, Fulfill
  <2>4. CASE \E a \in Accounts : CallbackTooLate(a)
    BY <2>4 DEF CallbackTooLate, Fulfill
  <2>5. CASE Consider
    BY <2>5 DEF Consider
  <2>6. CASE \E s \in intents : Act(s)
    BY <2>6 DEF Act
  <2>7. CASE Refund
    BY <2>7 DEF Refund
  <2>8. CASE Deliver
    BY <2>8 DEF Deliver
  <2>9. CASE RetryDelivery
    BY <2>9 DEF RetryDelivery
  <2>10. CASE \E a \in Accounts : Supply(a)
    BY <2>10 DEF Supply
  <2> QED
    BY <1>2, <2>1, <2>2, <2>3, <2>4, <2>5, <2>6, <2>7, <2>8, <2>9, <2>10
       DEF OtherStep
<1>3. CASE UNCHANGED vars
  BY <1>3 DEF vars
<1> QED
  BY <1>1, <1>2, <1>3 DEF Next

\* Cards are stored once, with the step to supplied.
LEMMA CardsStep == Inv /\ [Next]_vars =>
         DeliveredFromPurchase'
<1> SUFFICES ASSUME Inv, [Next]_vars PROVE DeliveredFromPurchase'
  OBVIOUS
<1> USE SuppliersAssumption
<1> USE DEF Inv, TypeOK, RunKnows, RowIsSound, PurchaseStaysSelected,
        DeliveredFromPurchase,
        row, goods, run, queue, market, States, Account, Unclaimed, Open, Bought
<1>1. CASE RunStep
  <2>1. CASE Refuse
    BY <2>1 DEF Refuse
  <2>2. CASE Load
    BY <2>2 DEF Load
  <2>3. CASE Select
    BY <2>3 DEF Select
  <2>4. CASE \E a \in Accounts : Skip(a)
    BY <2>4 DEF Skip
  <2>5. CASE \E a \in Accounts : Claim(a)
    BY <2>5 DEF Claim
  <2>6. CASE Exhaust
    BY <2>6 DEF Exhaust, Goto
  <2>7. CASE Submit
    BY <2>7 DEF Submit
  <2>8. CASE Reconcile
    BY <2>8 DEF Reconcile
  <2>9. CASE Apply
    BY <2>9 DEF Apply, Goto, Release, MarkUncertain, Number
  <2>10. CASE KeepIdentity
    BY <2>10 DEF KeepIdentity, Goto, MarkUncertain
  <2>11. CASE Import
    BY <2>11 DEF Import, Goto, Fulfill
  <2>12. CASE ImportFails
    BY <2>12 DEF ImportFails, Goto, MarkUncertain
  <2>13. CASE Recheck
    BY <2>13 DEF Recheck, Goto, MarkUncertain
  <2>14. CASE Finish
    BY <2>14 DEF Finish, Goto
  <2> QED
    BY <1>1, <2>1, <2>2, <2>3, <2>4, <2>5, <2>6, <2>7, <2>8, <2>9,
       <2>10, <2>11, <2>12, <2>13, <2>14 DEF RunStep
<1>2. CASE OtherStep
  <2>1. CASE Crash
    BY <2>1 DEF Crash, Goto
  <2>2. CASE ExpireLease
    BY <2>2 DEF ExpireLease
  <2>3. CASE \E a \in Accounts : Callback(a)
    BY <2>3 DEF Callback, Fulfill
  <2>4. CASE \E a \in Accounts : CallbackTooLate(a)
    BY <2>4 DEF CallbackTooLate, Fulfill
  <2>5. CASE Consider
    BY <2>5 DEF Consider
  <2>6. CASE \E s \in intents : Act(s)
    BY <2>6 DEF Act
  <2>7. CASE Refund
    BY <2>7 DEF Refund
  <2>8. CASE Deliver
    BY <2>8 DEF Deliver
  <2>9. CASE RetryDelivery
    BY <2>9 DEF RetryDelivery
  <2>10. CASE \E a \in Accounts : Supply(a)
    BY <2>10 DEF Supply
  <2> QED
    BY <1>2, <2>1, <2>2, <2>3, <2>4, <2>5, <2>6, <2>7, <2>8, <2>9, <2>10
       DEF OtherStep
<1>3. CASE UNCHANGED vars
  BY <1>3 DEF vars
<1> QED
  BY <1>1, <1>2, <1>3 DEF Next

\* A locked account is neither released nor replaced.
LEMMA LockStep == Inv /\ [Next]_vars =>
         (locked => locked' /\ account' = account)
<1> SUFFICES ASSUME Inv, [Next]_vars PROVE
         (locked => locked' /\ account' = account)
  OBVIOUS
<1> USE SuppliersAssumption
<1> USE DEF Inv, TypeOK, RunKnows, RowIsSound,
        row, goods, run, queue, market, States, Account, Unclaimed, Open, Bought
<1>1. CASE RunStep
  <2>1. CASE Refuse
    BY <2>1 DEF Refuse
  <2>2. CASE Load
    BY <2>2 DEF Load
  <2>3. CASE Select
    BY <2>3 DEF Select
  <2>4. CASE \E a \in Accounts : Skip(a)
    BY <2>4 DEF Skip
  <2>5. CASE \E a \in Accounts : Claim(a)
    BY <2>5 DEF Claim
  <2>6. CASE Exhaust
    BY <2>6 DEF Exhaust, Goto
  <2>7. CASE Submit
    BY <2>7 DEF Submit
  <2>8. CASE Reconcile
    BY <2>8 DEF Reconcile
  <2>9. CASE Apply
    BY <2>9 DEF Apply, Goto, Release, MarkUncertain, Number
  <2>10. CASE KeepIdentity
    BY <2>10 DEF KeepIdentity, Goto, MarkUncertain
  <2>11. CASE Import
    BY <2>11 DEF Import, Goto, Fulfill
  <2>12. CASE ImportFails
    BY <2>12 DEF ImportFails, Goto, MarkUncertain
  <2>13. CASE Recheck
    BY <2>13 DEF Recheck, Goto, MarkUncertain
  <2>14. CASE Finish
    BY <2>14 DEF Finish, Goto
  <2> QED
    BY <1>1, <2>1, <2>2, <2>3, <2>4, <2>5, <2>6, <2>7, <2>8, <2>9,
       <2>10, <2>11, <2>12, <2>13, <2>14 DEF RunStep
<1>2. CASE OtherStep
  <2>1. CASE Crash
    BY <2>1 DEF Crash, Goto
  <2>2. CASE ExpireLease
    BY <2>2 DEF ExpireLease
  <2>3. CASE \E a \in Accounts : Callback(a)
    BY <2>3 DEF Callback, Fulfill
  <2>4. CASE \E a \in Accounts : CallbackTooLate(a)
    BY <2>4 DEF CallbackTooLate, Fulfill
  <2>5. CASE Consider
    BY <2>5 DEF Consider
  <2>6. CASE \E s \in intents : Act(s)
    BY <2>6 DEF Act
  <2>7. CASE Refund
    BY <2>7 DEF Refund
  <2>8. CASE Deliver
    BY <2>8 DEF Deliver
  <2>9. CASE RetryDelivery
    BY <2>9 DEF RetryDelivery
  <2>10. CASE \E a \in Accounts : Supply(a)
    BY <2>10 DEF Supply
  <2> QED
    BY <1>2, <2>1, <2>2, <2>3, <2>4, <2>5, <2>6, <2>7, <2>8, <2>9, <2>10
       DEF OtherStep
<1>3. CASE UNCHANGED vars
  BY <1>3 DEF vars
<1> QED
  BY <1>1, <1>2, <1>3 DEF Next

\* After the refund the delivery waits no more, so that an import leaves it alone.
LEMMA RefundStep == Inv /\ [Next]_vars =>
         (refunded /\ delivery' # delivery =>
            RetryDelivery \/ (delivery = "pending" /\ delivery' = "failed"))
<1> SUFFICES ASSUME Inv, [Next]_vars PROVE
         (refunded /\ delivery' # delivery =>
            RetryDelivery \/ (delivery = "pending" /\ delivery' = "failed"))
  OBVIOUS
<1> USE SuppliersAssumption
<1> USE DEF Inv, TypeOK, RunKnows, RowIsSound,
        row, goods, run, queue, market, States, Account, Unclaimed, Open, Bought
<1>1. CASE RunStep
  <2>1. CASE Refuse
    BY <2>1 DEF Refuse
  <2>2. CASE Load
    BY <2>2 DEF Load
  <2>3. CASE Select
    BY <2>3 DEF Select
  <2>4. CASE \E a \in Accounts : Skip(a)
    BY <2>4 DEF Skip
  <2>5. CASE \E a \in Accounts : Claim(a)
    BY <2>5 DEF Claim
  <2>6. CASE Exhaust
    BY <2>6 DEF Exhaust, Goto
  <2>7. CASE Submit
    BY <2>7 DEF Submit
  <2>8. CASE Reconcile
    BY <2>8 DEF Reconcile
  <2>9. CASE Apply
    BY <2>9 DEF Apply, Goto, Release, MarkUncertain, Number
  <2>10. CASE KeepIdentity
    BY <2>10 DEF KeepIdentity, Goto, MarkUncertain
  <2>11. CASE Import
    BY <2>11 DEF Import, Goto, Fulfill
  <2>12. CASE ImportFails
    BY <2>12 DEF ImportFails, Goto, MarkUncertain
  <2>13. CASE Recheck
    BY <2>13 DEF Recheck, Goto, MarkUncertain
  <2>14. CASE Finish
    BY <2>14 DEF Finish, Goto
  <2> QED
    BY <1>1, <2>1, <2>2, <2>3, <2>4, <2>5, <2>6, <2>7, <2>8, <2>9,
       <2>10, <2>11, <2>12, <2>13, <2>14 DEF RunStep
<1>2. CASE OtherStep
  <2>1. CASE Crash
    BY <2>1 DEF Crash, Goto
  <2>2. CASE ExpireLease
    BY <2>2 DEF ExpireLease
  <2>3. CASE \E a \in Accounts : Callback(a)
    BY <2>3 DEF Callback, Fulfill
  <2>4. CASE \E a \in Accounts : CallbackTooLate(a)
    BY <2>4 DEF CallbackTooLate, Fulfill
  <2>5. CASE Consider
    BY <2>5 DEF Consider
  <2>6. CASE \E s \in intents : Act(s)
    BY <2>6 DEF Act
  <2>7. CASE Refund
    BY <2>7 DEF Refund
  <2>8. CASE Deliver
    BY <2>8 DEF Deliver
  <2>9. CASE RetryDelivery
    BY <2>9 DEF RetryDelivery
  <2>10. CASE \E a \in Accounts : Supply(a)
    BY <2>10 DEF Supply
  <2> QED
    BY <1>2, <2>1, <2>2, <2>3, <2>4, <2>5, <2>6, <2>7, <2>8, <2>9, <2>10
       DEF OtherStep
<1>3. CASE UNCHANGED vars
  BY <1>3 DEF vars
<1> QED
  BY <1>1, <1>2, <1>3 DEF Next

\* Every step keeps the invariant.
LEMMA InvNext == Inv /\ [Next]_vars => Inv'
<1> SUFFICES ASSUME Inv, [Next]_vars PROVE Inv'
  OBVIOUS
<1>1. TypeOK' /\ RunKnows' /\ RowIsSound'
  BY TypeStep, RunStepKnows, RowStep
<1>2. PurchaseStaysSelected' /\ DeliveredFromPurchase'
  BY PurchaseStep, CardsStep
<1> QED
  BY <1>1, <1>2 DEF Inv

-----------------------------------------------------------------------------
\* The columns of the order and the variables of the run keep their domains.
THEOREM TypeCorrect == Spec => []TypeOK
<1>1. Inv => TypeOK
  BY DEF Inv
<1> QED
  BY <1>1, InvInit, InvNext, PTL DEF Spec

\* A purchase that a supplier made and does not deny stays on the selected account,
\* so that no second account is asked (releaseDefinitiveFailure, markUncertain).
THEOREM NeverBoughtTwice == Spec => []PurchaseStaysSelected
<1>1. Inv => PurchaseStaysSelected
  BY DEF Inv
<1> QED
  BY <1>1, InvInit, InvNext, PTL DEF Spec

\* Cards and deliveries follow the exact step to supplied
\* (fulfillSupplierOrder).
THEOREM CardsAreBought == Spec => []DeliveredFromPurchase
<1>1. Inv => DeliveredFromPurchase
  BY DEF Inv
<1> QED
  BY <1>1, InvInit, InvNext, PTL DEF Spec

\* After the refund of the shop order no import, callback or reopened purchase moves
\* the delivery; an administrator's retry is closed again (processDelivery).
THEOREM RefundEnds == Spec => RefundEndsDelivery
<1>1. Inv /\ [Next]_vars =>
        [refunded /\ delivery' # delivery =>
           RetryDelivery \/ (delivery = "pending" /\ delivery' = "failed")]_vars
  BY RefundStep
<1> QED
  BY <1>1, InvInit, InvNext, PTL DEF Spec, RefundEndsDelivery

\* A lock is never lifted and its account never changed, by runs, callbacks,
\* administrators or refunds (account_locked_at).
THEOREM LocksHold == Spec => LockedStays
<1>1. Inv /\ [Next]_vars => [locked => locked' /\ account' = account]_vars
  BY LockStep
<1> QED
  BY <1>1, InvInit, InvNext, PTL DEF Spec, LockedStays

-----------------------------------------------------------------------------
(***************************************************************************)
(* The purchase implements PurchaseOnce.                                   *)
(***************************************************************************)
\* What PurchaseOnce sees of the purchase.
Spent == {a \in Accounts : purchase[a] \in Bought}
Denied == {a \in denied : purchase[a] \in Bought}
Filled == {a \in Accounts : purchase[a] = "ready"}
Goods == IF cards = None THEN {} ELSE {cards}

Seen == <<Spent, Denied, Filled, Goods, delivery, refunded>>

\* The supplier takes the order, or is asked again for one that it had taken: the
\* run has the selected account in its hands, so that all else is denied.
LEMMA SubmitBuys ==
  ASSUME Inv, Submit
  PROVE  UNCHANGED Seen \/ \E a \in Accounts : Promise!Buy(a) \/ Promise!Admit(a)
<1>1. /\ asked \in Accounts
      /\ purchase \in [Accounts -> {"none", "placed", "ready", "cancelled"}]
      /\ denied \subseteq Accounts
      /\ \A a \in Accounts : purchase[a] \in Bought => a \in denied
  <2>1. /\ asked \in Accounts /\ account = asked
        /\ purchase[asked] \in Bought => asked \in denied
    BY DEF Inv, RunKnows, Submit
  <2> QED
    BY <2>1 DEF Inv, TypeOK, PurchaseStaysSelected
<1>2. UNCHANGED <<Goods, delivery, refunded>>
  BY DEF Submit, goods, row, Goods
<1>3. denied' \in {denied \cup {asked}, denied \ {asked}}
  BY DEF Submit
<1>4. Spent \subseteq Denied
  BY <1>1 DEF Spent, Denied
<1>5. CASE UNCHANGED purchase
  <2>1. UNCHANGED <<Spent, Filled>>
    BY <1>5 DEF Spent, Filled
  <2>2. Denied' \in {Denied, Denied \ {asked}}
    BY <1>1, <1>3, <1>5 DEF Denied, Submit
  <2>3. CASE Denied' = Denied
    BY <1>2, <2>1, <2>3 DEF Seen
  <2>4. CASE Denied' = Denied \ {asked}
    <3>1. Promise!Admit(asked)
      BY <1>2, <1>4, <2>1, <2>4 DEF Promise!Admit, Spent, Denied, Filled, Goods
    <3> QED
      BY <1>1, <3>1 DEF Promise!Admit
  <2> QED
    BY <2>2, <2>3, <2>4
<1>6. ASSUME NEW s \in {"placed", "ready"}, purchase[asked] = "none",
             purchase' = [purchase EXCEPT ![asked] = s]
      PROVE  Promise!Buy(asked)
  <2>1. asked \notin Spent /\ Spent' = Spent \cup {asked}
    BY <1>1, <1>6 DEF Spent, Bought
  <2>2. Filled' \in {Filled, Filled \cup {asked}}
    <3>1. CASE s = "placed"
      BY <1>1, <1>6, <3>1 DEF Filled
    <3>2. CASE s = "ready"
      BY <1>1, <1>6, <3>2 DEF Filled
    <3> QED
      BY <3>1, <3>2
  <2>3. Denied' \in {Denied, Denied \cup {asked}}
    <3>1. \A a \in Accounts \ {asked} : purchase'[a] = purchase[a]
      BY <1>1, <1>6
    <3>2. purchase[asked] \notin Bought /\ purchase'[asked] \in Bought
      BY <1>1, <1>6 DEF Bought
    <3>3. CASE denied' = denied \cup {asked}
      BY <1>1, <3>1, <3>2, <3>3 DEF Denied
    <3>4. CASE denied' = denied \ {asked}
      BY <1>1, <3>1, <3>2, <3>4 DEF Denied
    <3> QED
      BY <1>3, <3>3, <3>4
  <2> QED
    BY <1>2, <1>4, <2>1, <2>2, <2>3
       DEF Promise!Buy, Spent, Denied, Filled, Goods
<1>7. \/ UNCHANGED purchase
      \/ \E s \in {"placed", "ready"} :
           purchase[asked] = "none" /\ purchase' = [purchase EXCEPT ![asked] = s]
  BY DEF Submit
<1>8. CASE \E s \in {"placed", "ready"} :
             purchase[asked] = "none" /\ purchase' = [purchase EXCEPT ![asked] = s]
  <2>1. Promise!Buy(asked)
    BY <1>6, <1>8
  <2> QED
    BY <1>1, <2>1 DEF Promise!Buy
<1> QED
  BY <1>5, <1>7, <1>8

\* The supplier fills or cancels what it has accepted.
LEMMA SupplyMoves ==
  ASSUME Inv, NEW a \in Accounts, Supply(a)
  PROVE  Promise!Fill(a) \/ Promise!Cancel(a)
<1>1. /\ purchase \in [Accounts -> {"none", "placed", "ready", "cancelled"}]
      /\ purchase[a] = "placed" /\ denied \subseteq Accounts /\ denied' = denied
  BY DEF Inv, TypeOK, Supply
<1>2. UNCHANGED <<Goods, delivery, refunded>>
  BY DEF Supply, goods, row, Goods
<1>3. a \in Spent \ Filled
  BY <1>1 DEF Spent, Filled, Bought
<1>4. CASE purchase' = [purchase EXCEPT ![a] = "ready"]
  <2>1. Spent' = Spent /\ Filled' = Filled \cup {a} /\ Denied' = Denied
    BY <1>1, <1>4 DEF Spent, Filled, Denied, Bought
  <2> QED
    BY <1>2, <1>3, <2>1 DEF Promise!Fill, Spent, Filled, Denied, Goods
<1>5. CASE purchase' = [purchase EXCEPT ![a] = "cancelled"]
  <2>1. Spent' = Spent \ {a} /\ Filled' = Filled /\ Denied' = Denied \ {a}
    BY <1>1, <1>5 DEF Spent, Filled, Denied, Bought
  <2> QED
    BY <1>2, <1>3, <2>1 DEF Promise!Cancel, Spent, Filled, Denied, Goods
<1> QED
  BY <1>4, <1>5 DEF Supply

\* Cards are stored for a filled purchase and at most once.
LEMMA FulfillStocks ==
  ASSUME Inv, NEW a \in Accounts, purchase[a] = "ready", Fulfill(a),
         UNCHANGED <<refunded, purchase, denied>>
  PROVE  UNCHANGED Seen \/ Promise!Stock(a)
<1>1. UNCHANGED <<Spent, Filled, Denied>> /\ a \in Filled /\ a # None
  BY SuppliersAssumption DEF Spent, Filled, Denied
<1>2. CASE UNCHANGED goods
  BY <1>1, <1>2 DEF goods, Goods, Seen
<1>3. CASE /\ cards' = IF cards = None THEN a ELSE cards
           /\ delivery' = IF delivery = "awaiting_supply" THEN "pending" ELSE delivery
  <2>1. CASE cards = None
    <3>1. Goods = {} /\ Goods' = {a}
      BY <1>1, <1>3, <2>1 DEF Goods
    <3> QED
      BY <1>1, <1>3, <3>1 DEF Promise!Stock, Spent, Filled, Denied, Goods
  <2>2. CASE cards # None
    BY <1>1, <1>3, <2>2 DEF Inv, RowIsSound, Goods, Seen
  <2> QED
    BY <2>1, <2>2
<1> QED
  BY <1>2, <1>3 DEF Fulfill

\* Every other step is one of PurchaseOnce or changes nothing that it sees.
LEMMA StepImplements == Inv /\ [Next]_vars => [Promise!Next]_(Promise!promise)
<1> SUFFICES ASSUME Inv, [Next]_vars
             PROVE  Promise!Next \/ UNCHANGED Seen
  BY DEF Promise!promise, Seen, Spent, Denied, Filled, Goods
<1> USE DEF goods, row, market, Spent, Denied, Filled, Goods, Seen
<1>1. CASE RunStep
  <2>1. CASE Refuse
    BY <2>1 DEF Refuse
  <2>2. CASE Load
    BY <2>2 DEF Load
  <2>3. CASE Select
    BY <2>3 DEF Select
  <2>4. CASE \E a \in Accounts : Skip(a)
    BY <2>4 DEF Skip
  <2>5. CASE \E a \in Accounts : Claim(a)
    BY <2>5 DEF Claim
  <2>6. CASE Exhaust
    BY <2>6 DEF Exhaust, Goto
  <2>7. CASE Submit
    BY <2>7, SubmitBuys DEF Promise!Next
  <2>8. CASE Reconcile
    BY <2>8 DEF Reconcile
  <2>9. CASE Apply
    BY <2>9 DEF Apply, Release, MarkUncertain, Goto
  <2>10. CASE KeepIdentity
    BY <2>10 DEF KeepIdentity, MarkUncertain, Goto
  <2>11. CASE Import
    <3>1. asked \in Accounts /\ purchase[asked] = "ready"
      BY <2>11 DEF Inv, RunKnows, Import
    <3> QED
      BY <2>11, <3>1, FulfillStocks DEF Import, Promise!Next
  <2>12. CASE ImportFails
    BY <2>12 DEF ImportFails, MarkUncertain, Goto
  <2>13. CASE Recheck
    BY <2>13 DEF Recheck, MarkUncertain, Goto
  <2>14. CASE Finish
    BY <2>14 DEF Finish, Goto
  <2> QED
    BY <1>1, <2>1, <2>2, <2>3, <2>4, <2>5, <2>6, <2>7, <2>8, <2>9, <2>10,
       <2>11, <2>12, <2>13, <2>14
       DEF RunStep
<1>2. CASE OtherStep
  <2>1. CASE Crash
    BY <2>1 DEF Crash, Goto
  <2>2. CASE ExpireLease
    BY <2>2 DEF ExpireLease
  <2>3. CASE \E a \in Accounts : Callback(a)
    BY <2>3, FulfillStocks DEF Callback, Promise!Next
  <2>4. CASE \E a \in Accounts : CallbackTooLate(a)
    BY <2>4, FulfillStocks DEF CallbackTooLate, Promise!Next
  <2>5. CASE Consider
    BY <2>5 DEF Consider
  <2>6. CASE \E s \in intents : Act(s)
    BY <2>6 DEF Act
  <2>7. CASE Refund
    <3>1. delivery \in {"awaiting_supply", "pending", "delivered", "failed"}
      BY DEF Inv, TypeOK
    <3> QED
      BY <2>7, <3>1 DEF Refund, Promise!Refund, Promise!Next
  <2>8. CASE Deliver
    BY <2>8 DEF Deliver, Promise!Deliver, Promise!Close, Promise!Next
  <2>9. CASE RetryDelivery
    BY <2>9 DEF RetryDelivery, Promise!Retry, Promise!Next
  <2>10. CASE \E a \in Accounts : Supply(a)
    BY <2>10, SupplyMoves DEF Promise!Next
  <2> QED
    BY <1>2, <2>1, <2>2, <2>3, <2>4, <2>5, <2>6, <2>7, <2>8, <2>9, <2>10
       DEF OtherStep
<1>3. CASE UNCHANGED vars
  BY <1>3 DEF vars
<1> QED
  BY <1>1, <1>2, <1>3 DEF Next

\* The purchase of an item, with its runs, crashes, false rejections, callbacks,
\* administrators, retries and refund, does what PurchaseOnce promises: among the
\* suppliers that do not deny it, money is spent at one account at a time; goods are
\* taken once and delivered at most once, not after the refund.
THEOREM Implements == Spec => BuysOnce
<1>1. Init => Promise!Init
  BY DEF Init, Promise!Init, Bought
<1> QED
  BY <1>1, StepImplements, InvInit, InvNext, PTL DEF Spec, BuysOnce, Promise!Spec

=============================================================================
