------------------------------ MODULE SumsProofs ------------------------------
(***************************************************************************)
(* What proofs need to know of a sum: it is a number, and how it changes   *)
(* with the set and with one amount.                                       *)
(***************************************************************************)
EXTENDS Sums, FiniteSetTheorems, TLAPS

\* The units of one amount are as many as the amount says.
LEMMA SharesOfOne ==
  ASSUME NEW x, NEW n \in Nat
  PROVE  IsFiniteSet({x} \X (1 .. n)) /\ Cardinality({x} \X (1 .. n)) = n
<1>1. IsFiniteSet(1 .. n) /\ Cardinality(1 .. n) = n
  BY FS_Interval
<1>2. IsFiniteSet({x}) /\ Cardinality({x}) = 1
  BY FS_Singleton
<1> QED
  BY <1>1, <1>2, FS_Product

\* Finitely many amounts have finitely many units.
LEMMA SharesFinite ==
  ASSUME NEW S, IsFiniteSet(S), NEW f, \A x \in S : f[x] \in Nat
  PROVE  IsFiniteSet(Shares(f, S))
<1> DEFINE Parts == {{x} \X (1 .. f[x]) : x \in S}
           part == [x \in S |-> {x} \X (1 .. f[x])]
<1>1. part \in Surjection(S, Parts)
  BY DEF Surjection
<1>2. IsFiniteSet(Parts)
  <2> HIDE DEF Parts, part
  <2> QED
    BY <1>1, FS_Surjection
<1>3. \A P \in Parts : IsFiniteSet(P)
  <2>1. ASSUME NEW x \in S PROVE IsFiniteSet({x} \X (1 .. f[x]))
    BY SharesOfOne
  <2> QED
    BY <2>1
<1> QED
  <2> HIDE DEF Parts
  <2>1. IsFiniteSet(UNION Parts)
    BY <1>2, <1>3, FS_UNION
  <2> QED
    BY <2>1 DEF Shares, Parts

\* A sum of natural numbers is a natural number.
LEMMA SumType ==
  ASSUME NEW S, IsFiniteSet(S), NEW f, \A x \in S : f[x] \in Nat
  PROVE  SumOver(f, S) \in Nat
  BY SharesFinite, FS_CardinalityType DEF SumOver

\* The sum over nothing.
LEMMA SumEmpty == \A f : SumOver(f, {}) = 0
<1>1. \A f : Shares(f, {}) = {}
  BY DEF Shares
<1> QED
  BY <1>1, FS_EmptySet DEF SumOver

\* One more element adds its amount.
LEMMA SumAdd ==
  ASSUME NEW S, IsFiniteSet(S), NEW f, \A x \in S : f[x] \in Nat,
         NEW e, e \notin S, f[e] \in Nat
  PROVE  SumOver(f, S \cup {e}) = SumOver(f, S) + f[e]
<1> DEFINE E == {e} \X (1 .. f[e])
<1>1. Shares(f, S \cup {e}) = Shares(f, S) \cup E
  BY DEF Shares
<1>2. Shares(f, S) \cap E = {}
  BY DEF Shares
<1>3. IsFiniteSet(E) /\ Cardinality(E) = f[e]
  BY SharesOfOne
<1>4. IsFiniteSet(Shares(f, S)) /\ Cardinality(Shares(f, S)) \in Nat
  BY SharesFinite, FS_CardinalityType
<1> HIDE DEF E
<1>5. Cardinality(Shares(f, S) \cup E)
        = Cardinality(Shares(f, S)) + Cardinality(E) - Cardinality({})
  BY <1>2, <1>3, <1>4, FS_Union
<1>6. Cardinality({}) = 0
  BY FS_EmptySet
<1>7. Cardinality(Shares(f, S) \cup E) = Cardinality(Shares(f, S)) + f[e]
  BY <1>3, <1>4, <1>5, <1>6
<1> QED
  BY <1>1, <1>7 DEF SumOver

\* The same, for an element that is taken out.
LEMMA SumSplit ==
  ASSUME NEW S, IsFiniteSet(S), NEW f, \A x \in S : f[x] \in Nat, NEW e \in S
  PROVE  SumOver(f, S) = SumOver(f, S \ {e}) + f[e]
<1>1. S = (S \ {e}) \cup {e}
  OBVIOUS
<1>2. IsFiniteSet(S \ {e})
  BY FS_Subset
<1> QED
  BY <1>1, <1>2, SumAdd

\* A part of a set sums to no more.
LEMMA SumMonotone ==
  ASSUME NEW T, IsFiniteSet(T), NEW S \in SUBSET T, NEW f,
         \A x \in T : f[x] \in Nat
  PROVE  SumOver(f, S) <= SumOver(f, T)
<1>1. Shares(f, S) \subseteq Shares(f, T)
  BY DEF Shares
<1> QED
  BY <1>1, SharesFinite, FS_Subset DEF SumOver

\* Only the amounts of the elements count.
LEMMA SumSame ==
  ASSUME NEW S, NEW f, NEW g, \A x \in S : f[x] = g[x]
  PROVE  SumOver(f, S) = SumOver(g, S)
<1>1. Shares(f, S) = Shares(g, S)
  BY DEF Shares
<1> QED
  BY <1>1 DEF SumOver

\* Writing one amount changes the sum by the difference.
LEMMA SumWrite ==
  ASSUME NEW S, IsFiniteSet(S), NEW f \in [S -> Nat], NEW g \in [S -> Nat],
         NEW e \in S, \A x \in S \ {e} : g[x] = f[x]
  PROVE  SumOver(g, S) + f[e] = SumOver(f, S) + g[e]
<1>1. SumOver(f, S) = SumOver(f, S \ {e}) + f[e]
  BY SumSplit
<1>2. SumOver(g, S) = SumOver(g, S \ {e}) + g[e]
  BY SumSplit
<1>3. SumOver(g, S \ {e}) = SumOver(f, S \ {e})
  BY SumSame
<1>4. IsFiniteSet(S \ {e})
  BY FS_Subset
<1>5. SumOver(f, S \ {e}) \in Nat /\ f[e] \in Nat /\ g[e] \in Nat
  BY <1>4, SumType
<1> QED
  BY <1>1, <1>2, <1>3, <1>5
=============================================================================
