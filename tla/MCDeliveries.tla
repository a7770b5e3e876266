---------------------------- MODULE MCDeliveries ----------------------------
(* Small orders: one item that is converted and one that is filled by hand,  *)
(* or two items with codes of their own.                                     *)
EXTENDS Deliveries

CONSTANTS i1, i2, w1, w2

MCItems == {i1, i2}
MCWorkers == {w1, w2}
MCAdmins == {w2}
MCNone == {}
MCRedeem == {i1}
MCManual == {i2}
=============================================================================
