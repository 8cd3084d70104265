---------------------------- MODULE Plots_proofs ----------------------------
(***************************************************************************)
(* What the operators of Plots give, for every finite list of numbers:     *)
(* sums, sorted values, quantiles and windows.                             *)
(***************************************************************************)
EXTENDS Plots, Finite_proofs

\* A list of numbers, of any finite length.
IsList(s) == IsFiniteSet(DOMAIN s) /\ s \in [DOMAIN s -> Nat]

\* The elements below v, and those up to v.
Less(s, v) == {i \in DOMAIN s : s[i] < v}
AtMost(s, v) == {i \in DOMAIN s : s[i] <= v}

----------------------------------------------------------------------------
(* Sorted values.                                                          *)

\* They are finitely many.
LEMMA Counts ==
  ASSUME NEW s, IsList(s), NEW v
  PROVE  /\ IsFiniteSet(DOMAIN s) /\ Count(s) \in Nat
         /\ IsFiniteSet(Less(s, v)) /\ Cardinality(Less(s, v)) \in Nat
         /\ IsFiniteSet(AtMost(s, v)) /\ Cardinality(AtMost(s, v)) \in Nat
         /\ Cardinality(AtMost(s, v)) <= Count(s)
         /\ Cardinality(AtMost(s, v)) = Count(s) => AtMost(s, v) = DOMAIN s
  <1>1. Less(s, v) \subseteq DOMAIN s /\ AtMost(s, v) \subseteq DOMAIN s
    BY DEF Less, AtMost
  <1>. QED
    BY <1>1, Fewer DEF IsList, Count

\* If v is below w, the elements up to v are below w.
LEMMA AtMostLess ==
  ASSUME NEW s, IsList(s), NEW v \in Nat, NEW w \in Nat, v < w
  PROVE  Cardinality(AtMost(s, v)) <= Cardinality(Less(s, w))
  <1>1. AtMost(s, v) \subseteq Less(s, w)
    BY DEF AtMost, Less, IsList
  <1>. QED
    BY <1>1, Counts, Fewer

\* There is a k-th value, for k up to one less than the length: of the values with
\* more than k elements up to them, the least.
LEMMA RankedIs ==
  ASSUME NEW s, IsList(s), NEW k \in Nat, k < Count(s)
  PROVE  /\ Ranked(s, k) \in Range(s) /\ Ranked(s, k) \in Nat
         /\ Cardinality(Less(s, Ranked(s, k))) <= k
         /\ Cardinality(AtMost(s, Ranked(s, k))) > k
  <1>. DEFINE D == {i \in DOMAIN s : Cardinality(AtMost(s, s[i])) > k}
              f == [i \in D |-> s[i]]
  <1>1. IsFiniteSet(DOMAIN s) /\ DOMAIN s # {} /\ s \in [DOMAIN s -> Int]
    <2>1. IsFiniteSet(DOMAIN s) /\ s \in [DOMAIN s -> Int]
      BY DEF IsList
    <2>2. DOMAIN s # {}
      BY FS_EmptySet DEF Count
    <2>. QED
      BY <2>1, <2>2
  <1>2. D # {}
    <2>1. PICK m \in DOMAIN s : \A n \in DOMAIN s : s[n] <= s[m]
      BY <1>1, Greatest
    <2>2. AtMost(s, s[m]) = DOMAIN s
      BY <2>1 DEF AtMost
    <2>. QED
      BY <2>1, <2>2 DEF Count
  <1>3. IsFiniteSet(D) /\ f \in [D -> Int]
    BY <1>1, Fewer
  <1>4. PICK m \in D : \A n \in D : s[m] <= s[n]
    <2>1. PICK m \in D : \A n \in D : f[m] <= f[n]
      <3>. HIDE DEF D, f
      <3>. QED
        BY <1>2, <1>3, Least
    <2>. QED
      BY <2>1
  <1>5. Cardinality(Less(s, s[m])) <= k
    <2>1. CASE Less(s, s[m]) = {}
      BY <2>1, FS_EmptySet
    <2>2. CASE Less(s, s[m]) # {}
      <3>. DEFINE L == Less(s, s[m])
                  g == [i \in L |-> s[i]]
      <3>1. IsFiniteSet(L) /\ g \in [L -> Int] /\ L \subseteq DOMAIN s
        BY Counts DEF IsList, Less
      <3>2. PICK l \in L : \A n \in L : s[n] <= s[l]
        <4>1. PICK l \in L : \A n \in L : g[n] <= g[l]
          <5>. HIDE DEF L, g
          <5>. QED
            BY <2>2, <3>1, Greatest DEF L
        <4>. QED
          BY <4>1
      <3>3. l \in DOMAIN s /\ s[l] < s[m] /\ l \notin D
        BY <1>4, <3>2 DEF Less, IsList
      <3>4. L \subseteq AtMost(s, s[l])
        BY <3>2, <3>1 DEF AtMost
      <3>5. Cardinality(L) <= Cardinality(AtMost(s, s[l]))
        BY <3>4, Counts, Fewer
      <3>. QED
        BY <3>3, <3>5, Counts
    <2>. QED
      BY <2>1, <2>2
  <1>6. s[m] \in Range(s) /\ Range(s) \subseteq Nat
    BY <1>4 DEF Range, IsList
  <1>7. Ranked(s, k) = CHOOSE v \in Range(s) :
            Cardinality(Less(s, v)) <= k /\ Cardinality(AtMost(s, v)) > k
    BY DEF Ranked, Less, AtMost
  <1>. QED
    BY <1>4, <1>5, <1>6, <1>7

\* A value with more than k elements up to it is no lower than the k-th.
LEMMA RankedLowest ==
  ASSUME NEW s, IsList(s), NEW k \in Nat, k < Count(s),
         NEW v \in Nat, Cardinality(AtMost(s, v)) > k
  PROVE  Ranked(s, k) <= v
  <1>1. ASSUME v < Ranked(s, k) PROVE FALSE
    <2>1. Cardinality(AtMost(s, v)) <= Cardinality(Less(s, Ranked(s, k)))
      BY <1>1, RankedIs, AtMostLess
    <2>. QED
      BY <2>1, RankedIs, Counts
  <1>. QED
    BY <1>1, RankedIs

\* Sorted values ascend.
LEMMA RankedAscends ==
  ASSUME NEW s, IsList(s), NEW j \in Nat, NEW k \in Nat, j <= k, k < Count(s)
  PROVE  Ranked(s, j) <= Ranked(s, k)
  <1>1. Count(s) \in Nat /\ j < Count(s)
    BY Counts
  <1>2. Ranked(s, k) \in Nat /\ Cardinality(AtMost(s, Ranked(s, k))) > j
    BY RankedIs, Counts
  <1>. QED
    BY <1>1, <1>2, RankedLowest

\* The first of them is the least ...
LEMMA RankedFirst ==
  ASSUME NEW s, IsList(s), DOMAIN s # {}
  PROVE  /\ Ranked(s, 0) \in Nat
         /\ \E i \in DOMAIN s : s[i] = Ranked(s, 0)
         /\ \A i \in DOMAIN s : Ranked(s, 0) <= s[i]
  <1>1. Count(s) \in Nat /\ 0 < Count(s)
    BY FS_EmptySet, Counts DEF Count, IsList
  <1>2. Ranked(s, 0) \in Nat /\ Ranked(s, 0) \in Range(s) /\ Cardinality(Less(s, Ranked(s, 0))) <= 0
    BY <1>1, RankedIs
  <1>3. Less(s, Ranked(s, 0)) = {}
    BY <1>2, Counts, FS_EmptySet
  <1>. QED
    BY <1>2, <1>3 DEF Less, IsList, Range

\* ... and the last the greatest.
LEMMA RankedLast ==
  ASSUME NEW s, IsList(s), DOMAIN s # {}
  PROVE  /\ Ranked(s, Count(s) - 1) \in Nat
         /\ \E i \in DOMAIN s : s[i] = Ranked(s, Count(s) - 1)
         /\ \A i \in DOMAIN s : s[i] <= Ranked(s, Count(s) - 1)
  <1>. DEFINE k == Count(s) - 1
  <1>1. Count(s) \in Nat /\ k \in Nat /\ k < Count(s)
    BY FS_EmptySet, Counts DEF Count, IsList
  <1>2. Ranked(s, k) \in Nat /\ Ranked(s, k) \in Range(s) /\ Cardinality(AtMost(s, Ranked(s, k))) > k
    <2>. HIDE DEF k
    <2>. QED
      BY <1>1, RankedIs
  <1>3. AtMost(s, Ranked(s, k)) = DOMAIN s
    BY <1>1, <1>2, Counts
  <1>. QED
    BY <1>2, <1>3 DEF AtMost, Range

----------------------------------------------------------------------------
(* Quantiles.                                                              *)

\* The marker of p percent has at least p percent of the list up to it, and at most
\* that much below it.
LEMMA MarkerIs ==
  ASSUME NEW s, IsList(s), DOMAIN s # {}, NEW p \in 0 .. 99
  PROVE  /\ Marker(s, p) \in Nat
         /\ 100 * Cardinality(AtMost(s, Marker(s, p))) >= p * Count(s)
         /\ 100 * Cardinality(Less(s, Marker(s, p))) <= p * Count(s)
  <1>1. PICK n \in Nat : n = Count(s) /\ n > 0
    BY FS_EmptySet, Counts DEF Count, IsList
  <1>2. PICK q \in Nat : q = p * n
    OBVIOUS
  <1>3. q <= 99 * n
    <2>1. (99 - p) * n \in Nat
      BY <1>1
    <2>2. (99 - p) * n = 99 * n - p * n
      BY <1>1
    <2>. QED
      BY <1>1, <1>2, <2>1, <2>2
  <1>4. PICK k \in Nat : k = q \div 100
    BY <1>2
  <1>5. 100 * k <= q /\ q < 100 * (k + 1) /\ k < n
    BY <1>1, <1>3, <1>4
  <1>6. Marker(s, p) = Ranked(s, k)
    BY <1>1, <1>2, <1>4 DEF Marker
  <1>7. /\ Ranked(s, k) \in Nat
        /\ Cardinality(Less(s, Ranked(s, k))) <= k
        /\ Cardinality(AtMost(s, Ranked(s, k))) > k
    BY <1>1, <1>5, RankedIs
  <1>8. Cardinality(Less(s, Ranked(s, k))) \in Nat /\ Cardinality(AtMost(s, Ranked(s, k))) \in Nat
    BY Counts
  <1>. QED
    BY <1>1, <1>2, <1>5, <1>6, <1>7, <1>8

\* A percentile lies between two values in order: low, of place q, and high, of the
\* next place unless it is low itself; r hundredths of the way up.
Between(s, p, q, r, low, high) ==
    /\ 100 * q + r = p * (Count(s) - 1)
    /\ q < Count(s) /\ (r > 0 => q + 1 < Count(s))
    /\ low = Ranked(s, q) /\ high = (IF r = 0 THEN low ELSE Ranked(s, q + 1))
    /\ low <= high
    /\ Percentile(s, p) = 100 * low + r * (high - low)

\* There are such values.
LEMMA PercentileIs ==
  ASSUME NEW s, IsList(s), DOMAIN s # {}, NEW p \in 0 .. 100
  PROVE  \E q \in Nat, r \in 0 .. 99, low \in Nat, high \in Nat : Between(s, p, q, r, low, high)
  <1>1. PICK n \in Nat : n = Count(s) - 1 /\ n + 1 = Count(s)
    BY FS_EmptySet, Counts DEF Count, IsList
  <1>2. PICK place \in Nat : place = p * n
    OBVIOUS
  <1>3. place <= 100 * n
    <2>1. (100 - p) * n \in Nat
      BY <1>1
    <2>2. (100 - p) * n = 100 * n - p * n
      BY <1>1
    <2>. QED
      BY <1>1, <1>2, <2>1, <2>2
  <1>4. PICK q \in Nat, r \in 0 .. 99 : q = place \div 100 /\ r = place % 100
    BY <1>2
  <1>5. 100 * q + r = place
    BY <1>2, <1>4
  <1>6. q <= n /\ (r > 0 => q + 1 <= n)
    BY <1>1, <1>3, <1>5
  <1>7. Ranked(s, q) \in Nat
    BY <1>1, <1>6, RankedIs
  <1>8. CASE r = 0
    <2>1. Percentile(s, p) = 100 * Ranked(s, q)
      BY <1>1, <1>2, <1>4, <1>8 DEF Percentile
    <2>2. Percentile(s, p) = 100 * Ranked(s, q) + r * (Ranked(s, q) - Ranked(s, q))
      BY <1>7, <1>8, <2>1
    <2>3. 100 * q + r = p * (Count(s) - 1) /\ q < Count(s)
      BY <1>1, <1>2, <1>5, <1>6
    <2>4. Between(s, p, q, r, Ranked(s, q), Ranked(s, q))
      BY <1>7, <1>8, <2>2, <2>3 DEF Between
    <2>. QED
      BY <1>7, <2>4
  <1>9. CASE r # 0
    <2>1. Percentile(s, p) = 100 * Ranked(s, q) + r * (Ranked(s, q + 1) - Ranked(s, q))
      BY <1>1, <1>2, <1>4, <1>9 DEF Percentile
    <2>2. Ranked(s, q + 1) \in Nat /\ Ranked(s, q) <= Ranked(s, q + 1)
      BY <1>1, <1>6, <1>9, RankedIs, RankedAscends
    <2>3. Between(s, p, q, r, Ranked(s, q), Ranked(s, q + 1))
      BY <1>1, <1>2, <1>5, <1>6, <1>7, <1>9, <2>1, <2>2 DEF Between
    <2>. QED
      BY <1>7, <2>2, <2>3
  <1>. QED
    BY <1>8, <1>9

\* A value on the way from low to high lies between them.
LEMMA OnTheWay ==
  ASSUME NEW low \in Nat, NEW high \in Nat, low <= high, NEW r \in 0 .. 99
  PROVE  /\ 100 * low + r * (high - low) \in Nat
         /\ 100 * low <= 100 * low + r * (high - low)
         /\ 100 * low + r * (high - low) <= 100 * high
  <1>1. PICK d \in Nat : d = high - low
    OBVIOUS
  <1>2. r * d \in Nat /\ (100 - r) * d \in Nat
    OBVIOUS
  <1>3. (100 - r) * d = 100 * d - r * d
    OBVIOUS
  <1>4. r * d <= 100 * d
    BY <1>2, <1>3
  <1>. QED
    BY <1>1, <1>2, <1>4

\* More than p percent of n - 1 elements are no higher than the percentile of p; no
\* more than that and one are lower.
LEMMA PercentileBounds ==
  ASSUME NEW s, IsList(s), DOMAIN s # {}, NEW p \in 0 .. 100
  PROVE  /\ 100 * Cardinality({i \in DOMAIN s : 100 * s[i] <= Percentile(s, p)})
                > p * (Count(s) - 1)
         /\ 100 * Cardinality({i \in DOMAIN s : 100 * s[i] < Percentile(s, p)})
                <= p * (Count(s) - 1) + 100
  <1>0. PICK q \in Nat, r \in 0 .. 99, low \in Nat, high \in Nat : Between(s, p, q, r, low, high)
    BY PercentileIs
  <1>1. /\ 100 * q + r = p * (Count(s) - 1)
        /\ q < Count(s) /\ (r > 0 => q + 1 < Count(s))
        /\ low = Ranked(s, q) /\ high = (IF r = 0 THEN low ELSE Ranked(s, q + 1))
        /\ low <= high
    BY <1>0 DEF Between
  <1>2. PICK c \in Nat : c = Percentile(s, p) /\ 100 * low <= c /\ c <= 100 * high
    <2>1. Percentile(s, p) = 100 * low + r * (high - low)
      BY <1>0 DEF Between
    <2>2. low <= high
      BY <1>1
    <2>3. /\ 100 * low + r * (high - low) \in Nat
          /\ 100 * low <= 100 * low + r * (high - low)
          /\ 100 * low + r * (high - low) <= 100 * high
      BY <2>2, OnTheWay
    <2>. QED
      BY <2>1, <2>3
  <1>3. \A i \in DOMAIN s : s[i] \in Nat
    BY DEF IsList
  <1>. DEFINE Up == {i \in DOMAIN s : 100 * s[i] <= c}
              Down == {i \in DOMAIN s : 100 * s[i] < c}
  <1>4. IsFiniteSet(Up) /\ IsFiniteSet(Down) /\ Cardinality(Up) \in Nat /\ Cardinality(Down) \in Nat
    <2>1. Up \subseteq DOMAIN s /\ Down \subseteq DOMAIN s
      OBVIOUS
    <2>. QED
      BY <2>1, Fewer DEF IsList
  <1>5. Cardinality(Up) > q
    <2>1. AtMost(s, low) \subseteq Up
      BY <1>2, <1>3 DEF AtMost
    <2>2. Cardinality(AtMost(s, low)) > q
      BY <1>1, RankedIs
    <2>. QED
      BY <1>4, <2>1, <2>2, Counts, Fewer
  <1>6. 100 * Cardinality(Down) <= 100 * q + r + 100
    <2>1. Down \subseteq Less(s, high)
      BY <1>2, <1>3 DEF Less
    <2>2. Cardinality(Down) <= Cardinality(Less(s, high))
      BY <2>1, Counts, Fewer
    <2>3. Cardinality(Less(s, high)) \in Nat
      BY Counts
    <2>4. CASE r = 0
      <3>1. Cardinality(Less(s, high)) <= q
        BY <1>1, <2>4, RankedIs
      <3>. QED
        BY <1>4, <2>2, <2>3, <3>1
    <2>5. CASE r # 0
      <3>1. Cardinality(Less(s, high)) <= q + 1
        BY <1>1, <2>5, RankedIs
      <3>. QED
        BY <1>4, <2>2, <2>3, <3>1
    <2>. QED
      BY <2>4, <2>5
  <1>. HIDE DEF Up, Down
  <1>7. 100 * Cardinality(Up) > 100 * q + r
    BY <1>4, <1>5
  <1>. QED
    BY <1>1, <1>2, <1>6, <1>7 DEF Up, Down

----------------------------------------------------------------------------
(* Windows.                                                                *)

\* Times since the first are numbers, and one of them is 0.
LEMMA ElapsedIs ==
  ASSUME NEW s, IsList(s), DOMAIN s # {}
  PROVE  /\ IsList(Elapsed(s)) /\ DOMAIN Elapsed(s) = DOMAIN s
         /\ Ranked(s, 0) \in Nat
         /\ \A i \in DOMAIN s : /\ s[i] \in Nat /\ s[i] = Elapsed(s)[i] + Ranked(s, 0)
                                /\ Elapsed(s)[i] \in Nat
         /\ \E i \in DOMAIN s : Elapsed(s)[i] = 0
  <1>1. PICK first \in Nat : /\ first = Ranked(s, 0) /\ \A i \in DOMAIN s : first <= s[i]
                             /\ \E i \in DOMAIN s : s[i] = first
    BY RankedFirst
  <1>2. \A i \in DOMAIN s : s[i] \in Nat
    BY DEF IsList
  <1>3. Elapsed(s) = [i \in DOMAIN s |-> s[i] - first]
    BY <1>1 DEF Elapsed
  <1>4. DOMAIN Elapsed(s) = DOMAIN s
    BY <1>3
  <1>5. \A i \in DOMAIN s : Elapsed(s)[i] \in Nat /\ s[i] = Elapsed(s)[i] + first
    BY <1>1, <1>2, <1>3
  <1>6. IsList(Elapsed(s))
    BY <1>3, <1>4, <1>5 DEF IsList
  <1>7. \E i \in DOMAIN s : Elapsed(s)[i] = 0
    BY <1>1, <1>3
  <1>. QED
    BY <1>1, <1>2, <1>4, <1>5, <1>6, <1>7

\* The windows a time is in: one, or none if it is the last and a window ends with it.
LEMMA WindowOf ==
  ASSUME NEW s, IsList(s), NEW i \in DOMAIN s
  PROVE  {w \in Windows(s) : InWindow(w, s[i])} =
             IF s[i] % Window = 0 /\ \A j \in DOMAIN s : s[j] <= s[i]
             THEN {} ELSE {s[i] \div Window + 1}
  <1>1. DOMAIN s # {} /\ \A j \in DOMAIN s : s[j] \in Nat
    BY DEF IsList
  <1>2. PICK m \in Nat : /\ m = Ranked(s, Count(s) - 1)
                         /\ \E j \in DOMAIN s : s[j] = m
                         /\ \A j \in DOMAIN s : s[j] <= m
    BY <1>1, RankedLast
  <1>3. Windows(s) = 1 .. ((m + 4999999) \div 5000000)
    BY <1>2 DEF Windows, Window
  <1>4. PICK t \in Nat : t = s[i] /\ t <= m
    BY <1>1, <1>2
  <1>5. \A w \in Int : InWindow(w, t) <=> w = t \div 5000000 + 1
    BY DEF InWindow, Window
  <1>6. t \div 5000000 + 1 \in 1 .. ((m + 4999999) \div 5000000) <=> ~ (t % 5000000 = 0 /\ t = m)
    BY <1>4
  <1>7. (\A j \in DOMAIN s : s[j] <= s[i]) <=> t = m
    BY <1>1, <1>2, <1>4
  <1>8. (m + 4999999) \div 5000000 \in Int
    OBVIOUS
  <1>. QED
    BY <1>3, <1>4, <1>5, <1>6, <1>7, <1>8 DEF Window

----------------------------------------------------------------------------
(* Sums.                                                                   *)

\* What is counted for a sum.
Pairs(s, D) == UNION {{i} \X (1 .. s[i]) : i \in D}

\* An element and a number up to its value.
LEMMA InPairs ==
  ASSUME NEW s, NEW D, NEW x
  PROVE  x \in Pairs(s, D) <=> \E i \in D : x \in {i} \X (1 .. s[i])
  BY DEF Pairs

\* They are finitely many.
LEMMA PairsFinite ==
  ASSUME NEW s, IsList(s), NEW D, D \subseteq DOMAIN s
  PROVE  IsFiniteSet(Pairs(s, D)) /\ Cardinality(Pairs(s, D)) \in Nat
  <1>. DEFINE F == {{i} \X (1 .. s[i]) : i \in D}
              f == [i \in D |-> {i} \X (1 .. s[i])]
  <1>1. IsFiniteSet(D)
    BY Fewer DEF IsList
  <1>2. f \in Surjection(D, F)
    BY DEF Surjection
  <1>3. IsFiniteSet(F)
    <2>. HIDE DEF f, F
    <2>. QED
      BY <1>1, <1>2, FS_Surjection
  <1>4. ASSUME NEW i \in D PROVE IsFiniteSet({i} \X (1 .. s[i]))
    <2>1. IsFiniteSet(1 .. s[i])
      <3>1. s[i] \in Nat
        BY DEF IsList
      <3>. QED
        BY <3>1, FS_Interval
    <2>. QED
      BY <2>1, FS_Singleton, FS_Product
  <1>5. \A T \in F : IsFiniteSet(T)
    BY <1>4
  <1>6. IsFiniteSet(UNION F)
    <2>. HIDE DEF F
    <2>. QED
      BY <1>3, <1>5, FS_UNION
  <1>. QED
    BY <1>6, FS_CardinalityType DEF Pairs

\* An element has as many pairs as its value says.
LEMMA PairsOfOne ==
  ASSUME NEW i, NEW n \in Nat
  PROVE  IsFiniteSet({i} \X (1 .. n)) /\ Cardinality({i} \X (1 .. n)) = n
  <1>1. IsFiniteSet(1 .. n) /\ Cardinality(1 .. n) = n
    BY FS_Interval
  <1>2. IsFiniteSet({i}) /\ Cardinality({i}) = 1
    BY FS_Singleton
  <1>3. Cardinality({i} \X (1 .. n)) = Cardinality({i}) * Cardinality(1 .. n)
    BY <1>1, <1>2, FS_Product
  <1>. QED
    BY <1>1, <1>2, <1>3, FS_Product

\* The sum is a number.
LEMMA TotalType ==
  ASSUME NEW s, IsList(s)
  PROVE  Total(s) = Cardinality(Pairs(s, DOMAIN s)) /\ Total(s) \in Nat
  BY PairsFinite DEF Total, Pairs

\* One value and the rest make up the sum.
LEMMA TotalSplit ==
  ASSUME NEW s, IsList(s), NEW i \in DOMAIN s
  PROVE  Total(s) = Cardinality(Pairs(s, DOMAIN s \ {i})) + s[i]
  <1>. DEFINE A == Pairs(s, DOMAIN s \ {i})
              B == {i} \X (1 .. s[i])
  <1>1. IsFiniteSet(A) /\ Cardinality(A) \in Nat
    BY PairsFinite
  <1>2. IsFiniteSet(B) /\ Cardinality(B) = s[i] /\ s[i] \in Nat
    BY PairsOfOne DEF IsList
  <1>3. A \cap B = {}
    BY InPairs
  <1>4. Pairs(s, DOMAIN s) = A \cup B
    BY DEF Pairs
  <1>5. Cardinality(A \cup B) = Cardinality(A) + Cardinality(B)
    <2>1. Cardinality(A \cap B) = 0
      BY <1>3, FS_EmptySet
    <2>. HIDE DEF A, B
    <2>2. IsFiniteSet(A) /\ IsFiniteSet(B) /\ Cardinality(A) \in Nat /\ Cardinality(B) \in Nat
      BY <1>1, <1>2
    <2>3. Cardinality(A \cup B) = Cardinality(A) + Cardinality(B) - Cardinality(A \cap B)
      BY <2>2, FS_Union
    <2>. QED
      BY <2>1, <2>2, <2>3
  <1>. QED
    BY <1>2, <1>4, <1>5, TotalType

\* The pairs do not depend on what lies outside D.
LEMMA PairsSame ==
  ASSUME NEW s, NEW t, NEW D, \A i \in D : s[i] = t[i]
  PROVE  Pairs(s, D) = Pairs(t, D)
  BY DEF Pairs

\* A list with one more element has a sum higher by its value.
LEMMA TotalAdd ==
  ASSUME NEW s, IsList(s), NEW t, IsList(t), NEW x,
         x \notin DOMAIN s, DOMAIN t = DOMAIN s \cup {x},
         \A i \in DOMAIN s : t[i] = s[i]
  PROVE  Total(t) = Total(s) + t[x]
  <1>1. DOMAIN t \ {x} = DOMAIN s /\ x \in DOMAIN t
    OBVIOUS
  <1>2. Total(t) = Cardinality(Pairs(t, DOMAIN s)) + t[x]
    BY <1>1, TotalSplit
  <1>3. Pairs(t, DOMAIN s) = Pairs(s, DOMAIN s)
    BY PairsSame
  <1>. QED
    BY <1>2, <1>3, TotalType

\* A list that differs in one value has a sum that differs by as much.
LEMMA TotalChange ==
  ASSUME NEW s, IsList(s), NEW t, IsList(t), NEW x \in DOMAIN s, DOMAIN t = DOMAIN s,
         \A i \in DOMAIN s \ {x} : t[i] = s[i]
  PROVE  Total(t) - t[x] = Total(s) - s[x]
  <1>1. Total(t) = Cardinality(Pairs(t, DOMAIN s \ {x})) + t[x]
    BY TotalSplit
  <1>2. Total(s) = Cardinality(Pairs(s, DOMAIN s \ {x})) + s[x]
    BY TotalSplit
  <1>3. Pairs(t, DOMAIN s \ {x}) = Pairs(s, DOMAIN s \ {x})
    BY PairsSame
  <1>4. Cardinality(Pairs(s, DOMAIN s \ {x})) \in Nat /\ t[x] \in Nat /\ s[x] \in Nat
    BY PairsFinite DEF IsList
  <1>. QED
    BY <1>1, <1>2, <1>3, <1>4

\* The sum of no values is 0, that of ones their number.
LEMMA TotalOnes ==
  ASSUME NEW s, IsFiniteSet(DOMAIN s), \A i \in DOMAIN s : s[i] = 1
  PROVE  Total(s) = Cardinality(DOMAIN s)
  <1>. DEFINE f == [i \in DOMAIN s |-> <<i, 1>>]
              P == UNION {{i} \X (1 .. s[i]) : i \in DOMAIN s}
  <1>1. ASSUME NEW x \in P PROVE \E i \in DOMAIN s : x = <<i, 1>>
    <2>1. PICK i \in DOMAIN s : x \in {i} \X (1 .. s[i])
      OBVIOUS
    <2>2. x \in {i} \X (1 .. 1)
      BY <2>1
    <2>. QED
      BY <2>2
  <1>2. ASSUME NEW i \in DOMAIN s PROVE <<i, 1>> \in P
    <2>1. <<i, 1>> \in {i} \X (1 .. s[i])
      OBVIOUS
    <2>. QED
      BY <2>1
  <1>3. f \in Bijection(DOMAIN s, P)
    <2>1. f \in [DOMAIN s -> P]
      BY <1>2
    <2>2. \A t \in P : \E i \in DOMAIN s : f[i] = t
      BY <1>1
    <2>3. \A a, b \in DOMAIN s : f[a] = f[b] => a = b
      OBVIOUS
    <2>. QED
      BY <2>1, <2>2, <2>3 DEF Bijection, Injection, IsInjective, Surjection
  <1>4. Cardinality(P) = Cardinality(DOMAIN s)
    <2>. HIDE DEF f, P
    <2>. QED
      BY <1>3, FS_Bijection DEF ExistsBijection
  <1>. QED
    BY <1>4 DEF Total
=============================================================================
