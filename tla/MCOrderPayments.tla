--------------------------- MODULE MCOrderPayments ---------------------------
\* Instances of OrderPayments for TLC.
EXTENDS OrderPayments, TLC

CONSTANTS o1, o2, a1, a2

MCOrders == {o1, o2}
MCAttempts == {a1, a2}
\* Two attempts for one order; the other order competes for the balance, the
\* coupon and the stock.
MCOrderOf == a1 :> o1 @@ a2 :> o1
MCOneAttempt == {a1}
MCOneOrderOf == a1 :> o1
MCSymmetry == Permutations(MCAttempts)

\* The rival order has no attempt: that it closes by hand to "cancelled" stands
\* for every end that releases its hold.
Bounded == order'[o2] \notin {"expired", "failed"}

StormSpec == Init /\ [][Next /\ Bounded]_vars
=============================================================================
