------------------------------ MODULE MCRefunds ------------------------------
\* Instances of Refunds for TLC.
EXTENDS Refunds, FiniteSetsExt, TLC

CONSTANTS r1, r2, w1, w2

MCRefunds == {r1, r2}
MCWorkers == {w1, w2}
\* Two halves that make up the payment.
MCHalves == {r1 :> 1 @@ r2 :> 1}
\* A refund of a part and one of the whole payment.
MCPartAndWhole == {r1 :> 1 @@ r2 :> 2}
MCAmounts == MCHalves \cup MCPartAndWhole
\* The workers run the same code.
MCSymmetry == Permutations(MCWorkers)

\* Money counted unit by unit is the sum of the amounts.
ASSUME SumsAgree ==
  \A f \in [1 .. 3 -> 0 .. 3], S \in SUBSET (1 .. 3) :
    SumOver(f, S) = MapThenSumSet(LAMBDA x : f[x], S)

=============================================================================
