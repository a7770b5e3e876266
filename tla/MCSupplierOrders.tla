-------------------------- MODULE MCSupplierOrders --------------------------
(* Two accounts that differ in nothing and a message of two deliveries.      *)
EXTENDS SupplierOrders, TLC

CONSTANTS a1, a2

MCAccounts == {a1, a2}
MCSymmetry == Permutations(MCAccounts)
=============================================================================
