--------------------------------- MODULE Sums ---------------------------------
(***************************************************************************)
(* Sums of amounts of money, counted unit by unit instead of by recursion, *)
(* so that what a sum is can be reasoned about with the cardinalities of   *)
(* finite sets.  MCRefunds compares it with the sum of the community       *)
(* modules.                                                                *)
(***************************************************************************)
EXTENDS Naturals, FiniteSets

\* The units of f[x], for all x of S.
Shares(f, S) == UNION {{x} \X (1 .. f[x]) : x \in S}

SumOver(f, S) == Cardinality(Shares(f, S))
=============================================================================
