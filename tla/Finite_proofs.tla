--------------------------- MODULE Finite_proofs ---------------------------
(***************************************************************************)
(* Facts about finite sets that the proofs about several components need.  *)
(***************************************************************************)
EXTENDS FiniteSetTheorems, TLAPS

\* One of finitely many things has the least number: the sets of things with a
\* number below one's own are ordered by inclusion, which is well-founded.
LEMMA Least ==
  ASSUME NEW S, IsFiniteSet(S), S # {}, NEW f \in [S -> Int]
  PROVE  \E m \in S : \A n \in S : f[m] <= f[n]
  <1>. DEFINE Lower(m) == {n \in S : f[n] < f[m]}
              T == {Lower(m) : m \in S}
  <1>1. IsWellFoundedOn(StrictSubsetOrdering(S), SUBSET S)
    BY FS_StrictSubsetOrderingWellFounded, FS_FiniteSubsetsOfFinite
  <1>2. T \subseteq SUBSET S /\ T # {}
    <2>1. PICK m \in S : TRUE
      OBVIOUS
    <2>2. Lower(m) \in T
      BY <2>1
    <2>. QED
      BY <2>2
  <1>3. PICK x \in T : \A y \in T : <<y, x>> \notin StrictSubsetOrdering(S)
    <2>. HIDE DEF T
    <2>. QED
      BY <1>1, <1>2, WFMin
  <1>4. PICK m \in S : x = Lower(m)
    BY <1>3
  <1>5. ASSUME NEW n \in S, f[n] < f[m] PROVE FALSE
    <2>1. Lower(n) \subseteq Lower(m)
      BY <1>5
    <2>2. n \in Lower(m) /\ n \notin Lower(n)
      BY <1>5
    <2>3. <<Lower(n), x>> \in StrictSubsetOrdering(S)
      BY <1>4, <2>1, <2>2 DEF StrictSubsetOrdering
    <2>. QED
      BY <1>3, <2>3
  <1>. QED
    BY <1>5

\* One of them has the greatest.
LEMMA Greatest ==
  ASSUME NEW S, IsFiniteSet(S), S # {}, NEW f \in [S -> Int]
  PROVE  \E m \in S : \A n \in S : f[n] <= f[m]
  <1>. DEFINE g == [m \in S |-> - f[m]]
  <1>1. g \in [S -> Int]
    OBVIOUS
  <1>2. PICK m \in S : \A n \in S : g[m] <= g[n]
    <2>. HIDE DEF g
    <2>. QED
      BY <1>1, Least
  <1>. QED
    BY <1>2

\* Fewer things are at most as many.
LEMMA Fewer ==
  ASSUME NEW S, IsFiniteSet(S), NEW T, T \subseteq S
  PROVE  /\ IsFiniteSet(T)
         /\ Cardinality(T) \in Nat /\ Cardinality(S) \in Nat
         /\ Cardinality(T) <= Cardinality(S)
         /\ Cardinality(T) = Cardinality(S) => T = S
  BY FS_Subset, FS_CardinalityType
=============================================================================
