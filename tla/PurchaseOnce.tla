----------------------------- MODULE PurchaseOnce -----------------------------
(***************************************************************************)
(* What buying one item from a pool of suppliers promises: money is spent  *)
(* at one account at a time, except where a supplier denies that it took   *)
(* any, a supplier that cancels gives it back, the goods come from an      *)
(* account that has filled its order and are taken once, and they are      *)
(* delivered once, and not after a refund.                                 *)
(***************************************************************************)
CONSTANT Accounts

VARIABLES
  spent,     \* accounts at which the item is bought
  denied,    \* those of them whose supplier denies it
  filled,    \* those whose supplier has made the goods ready
  goods,     \* the account whose goods the shop has taken
  delivery,  \* "awaiting_supply", "pending", "delivered" or "failed"
  refunded   \* the customer has the money back

promise == <<spent, denied, filled, goods, delivery, refunded>>

Init ==
  /\ spent = {} /\ denied = {} /\ filled = {} /\ goods = {}
  /\ delivery = "awaiting_supply"
  /\ refunded = FALSE

\* A supplier takes the order, and may have the goods at once; it may deny it.
Buy(a) ==
  /\ spent \subseteq denied /\ a \notin spent
  /\ spent' = spent \cup {a}
  /\ denied' \in {denied, denied \cup {a}}
  /\ filled' \in {filled, filled \cup {a}}
  /\ UNCHANGED <<goods, delivery, refunded>>

\* A supplier that is asked again admits what it has denied.
Admit(a) ==
  /\ spent \subseteq denied
  /\ denied' = denied \ {a}
  /\ UNCHANGED <<spent, filled, goods, delivery, refunded>>

Fill(a) ==
  /\ a \in spent
  /\ filled' = filled \cup {a}
  /\ UNCHANGED <<spent, denied, goods, delivery, refunded>>

Cancel(a) ==
  /\ a \in spent \ filled
  /\ spent' = spent \ {a}
  /\ denied' = denied \ {a}
  /\ UNCHANGED <<filled, goods, delivery, refunded>>

\* Goods that come when the delivery has failed are kept, not delivered.
Stock(a) ==
  /\ a \in filled
  /\ goods = {}
  /\ goods' = {a}
  /\ delivery' = IF delivery = "awaiting_supply" THEN "pending" ELSE delivery
  /\ UNCHANGED <<spent, denied, filled, refunded>>

Deliver ==
  /\ delivery = "pending" /\ goods # {} /\ ~ refunded
  /\ delivery' = "delivered"
  /\ UNCHANGED <<spent, denied, filled, goods, refunded>>

\* A delivery that was stopped may be asked for again; after the refund it
\* only fails again.
Retry ==
  /\ delivery = "failed"
  /\ delivery' = "pending"
  /\ UNCHANGED <<spent, denied, filled, goods, refunded>>

Close ==
  /\ delivery = "pending" /\ refunded
  /\ delivery' = "failed"
  /\ UNCHANGED <<spent, denied, filled, goods, refunded>>

Refund ==
  /\ ~ refunded
  /\ refunded' = TRUE
  /\ delivery' = IF delivery = "delivered" THEN delivery ELSE "failed"
  /\ UNCHANGED <<spent, denied, filled, goods>>

Next ==
  \/ \E a \in Accounts : Buy(a) \/ Admit(a) \/ Fill(a) \/ Cancel(a) \/ Stock(a)
  \/ Deliver \/ Retry \/ Close \/ Refund

Spec == Init /\ [][Next]_promise
=============================================================================
