---------------------------- MODULE SharedLemmas ----------------------------
(***************************************************************************)
(* What the proofs of several modules use: the least and the greatest      *)
(* number of a set, sums, and sequences without duplicates.                *)
(***************************************************************************)
EXTENDS TokenSums, PythonLists, SequencesExt, SequenceTheorems, FiniteSetTheorems, TLAPS

(* Every set of naturals has a least element.                              *)
LEMMA LeastNatural ==
  ASSUME NEW T \in SUBSET Nat, T # {}
  PROVE  \E m \in T : \A k \in T : m <= k
<1>1. PICK m \in T : \A k \in T : ~ (<<k, m>> \in OpToRel(<, Nat))
  BY NatLessThanWellFounded, WFMin, Zenon
<1>2. ASSUME NEW k \in T PROVE m <= k
  <2>1. ~(<<k, m>> \in {ss \in Nat \X Nat : ss[1] < ss[2]})
    BY <1>1 DEF OpToRel
  <2> QED
    BY <2>1
<1> QED
  BY <1>2

(* Every nonempty set of naturals with a bound has a greatest element.     *)
LEMMA GreatestNatural ==
  ASSUME NEW T \in SUBSET Nat, T # {}, NEW b \in Nat, \A k \in T : k <= b
  PROVE  \E m \in T : \A k \in T : k <= m
<1> DEFINE D == {d \in Nat : \E k \in T : d = b - k}
<1>1. PICK k0 \in T : TRUE
  OBVIOUS
<1>2. b - k0 \in D
  OBVIOUS
<1>3. PICK d \in D : \A e \in D : d <= e
  BY <1>2, LeastNatural
<1>4. PICK m \in T : d = b - m
  OBVIOUS
<1>5. ASSUME NEW k \in T PROVE k <= m
  <2>1. b - k \in D
    OBVIOUS
  <2>2. d <= b - k
    BY <2>1, <1>3
  <2> QED
    BY <2>2, <1>4
<1> QED
  BY <1>5

(* A nonempty family of subsets of a finite set has a minimal member.      *)
LEMMA MinimalSubset ==
  ASSUME NEW S, IsFiniteSet(S), NEW F \in SUBSET (SUBSET S), F # {}
  PROVE  \E T \in F : \A U \in F : U \subseteq T => U = T
<1>1. IsWellFoundedOn(StrictSubsetOrdering(S), FiniteSubsetsOf(S))
  BY FS_StrictSubsetOrderingWellFounded
<1>2. F \subseteq FiniteSubsetsOf(S)
  BY FS_FiniteSubsetsOfFinite, Zenon
<1>3. PICK T \in F : \A U \in F : ~ (<<U, T>> \in StrictSubsetOrdering(S))
  BY <1>1, <1>2, WFMin
<1>4. ASSUME NEW U \in F, U \subseteq T, U # T PROVE FALSE
  <2>1. <<U, T>> \in (SUBSET S) \X (SUBSET S)
    OBVIOUS
  <2>2. <<U, T>> \in StrictSubsetOrdering(S)
    BY <2>1, <1>4 DEF StrictSubsetOrdering
  <2> QED
    BY <2>2, <1>3
<1> QED
  BY <1>4
-----------------------------------------------------------------------------
(* The pairs a sum counts.                                                 *)
LEMMA PairsMember ==
  ASSUME NEW f, NEW S, NEW p
  PROVE  p \in Pairs(f, S) <=> \E x \in S : \E k \in 1..f[x] : p = <<x, k>>
BY DEF Pairs

(* A sum over nothing counts no pair.                                      *)
LEMMA PairsEmpty ==
  ASSUME NEW f
  PROVE  Pairs(f, {}) = {}
BY DEF Pairs

(* The pairs of a union are the pairs of its parts.                        *)
LEMMA PairsUnion ==
  ASSUME NEW f, NEW S, NEW T
  PROVE  Pairs(f, S \cup T) = Pairs(f, S) \cup Pairs(f, T)
BY DEF Pairs

(* The pairs of one element.                                               *)
LEMMA PairsSingleton ==
  ASSUME NEW f, NEW x
  PROVE  Pairs(f, {x}) = {x} \X (1..f[x])
BY DEF Pairs

(* An empty sum is 0.                                                      *)
LEMMA SumEmpty ==
  ASSUME NEW f
  PROVE  SumOver(f, {}) = 0
BY PairsEmpty, FS_EmptySet DEF SumOver

(* One more element: its pairs are finitely many and add its value.        *)
LEMMA PairsAdd ==
  ASSUME NEW f, NEW S, IsFiniteSet(Pairs(f, S)), NEW x, x \notin S, f[x] \in Nat
  PROVE  /\ IsFiniteSet(Pairs(f, S \cup {x}))
         /\ SumOver(f, S \cup {x}) = SumOver(f, S) + f[x]
<1> DEFINE P == {x} \X (1..f[x])
<1>1. IsFiniteSet({x}) /\ Cardinality({x}) = 1
  BY FS_Singleton
<1>2. IsFiniteSet(1..f[x]) /\ Cardinality(1..f[x]) = f[x]
  <2>1. ASSUME NEW k \in Nat PROVE IsFiniteSet(1..k) /\ Cardinality(1..k) = k
    <3>1. 1 \in Int /\ k \in Int
      OBVIOUS
    <3>2. IsFiniteSet(1..k) /\ Cardinality(1..k) = IF 1 > k THEN 0 ELSE k - 1 + 1
      BY <3>1, FS_Interval, Zenon
    <3> QED
      BY <3>2
  <2> QED
    BY <2>1, Zenon
<1>3. IsFiniteSet(P) /\ Cardinality(P) = f[x]
  <2> DEFINE I == 1..f[x]
             s == {x}
             k == f[x]
  <2>1. IsFiniteSet(s) /\ Cardinality(s) = 1 /\ IsFiniteSet(I) /\ Cardinality(I) = k /\ k \in Nat
    BY <1>1, <1>2
  <2>2. P = s \X I
    OBVIOUS
  <2> HIDE DEF I, s, k, P
  <2>3. IsFiniteSet(s \X I) /\ Cardinality(s \X I) = Cardinality(s) * Cardinality(I)
    BY <2>1, FS_Product, Zenon
  <2>4. Cardinality(s) * Cardinality(I) = 1 * k
    BY <2>1, Zenon
  <2>5. 1 * k = k
    BY <2>1
  <2>6. IsFiniteSet(P) /\ Cardinality(P) = k
    BY <2>2, <2>3, <2>4, <2>5, Zenon
  <2> QED
    BY <2>6 DEF P, k
<1>4. Pairs(f, S \cup {x}) = Pairs(f, S) \cup P
  <2>1. \A T : Pairs(f, S \cup T) = Pairs(f, S) \cup Pairs(f, T)
    BY PairsUnion, Zenon
  <2>3. Pairs(f, S \cup {x}) = Pairs(f, S) \cup Pairs(f, {x})
    BY <2>1, Zenon
  <2>2. Pairs(f, {x}) = P
    BY PairsSingleton, Zenon
  <2> QED
    BY <2>2, <2>3, Zenon
<1>5. Pairs(f, S) \cap P = {}
  <2>1. ASSUME NEW p \in Pairs(f, S), p \in P PROVE FALSE
    BY <2>1, PairsMember
  <2> QED
    BY <2>1
<1>6. Cardinality(Pairs(f, S)) \in Nat
  BY FS_CardinalityType
<1>7. Cardinality(Pairs(f, S) \cap P) = 0
  BY <1>5, FS_EmptySet
<1> HIDE DEF P
<1>8. /\ IsFiniteSet(Pairs(f, S) \cup P)
      /\ Cardinality(Pairs(f, S) \cup P) = Cardinality(Pairs(f, S)) + Cardinality(P) - Cardinality(Pairs(f, S) \cap P)
  BY <1>3, FS_Union
<1>9. Cardinality(Pairs(f, S) \cup P) = Cardinality(Pairs(f, S)) + f[x]
  BY <1>3, <1>6, <1>7, <1>8
<1> QED
  BY <1>4, <1>8, <1>9, Zenon DEF SumOver

(* A finite sum of naturals counts finitely many pairs.                    *)
LEMMA PairsFinite ==
  ASSUME NEW S, IsFiniteSet(S), NEW f, \A x \in S : f[x] \in Nat
  PROVE  IsFiniteSet(Pairs(f, S))
<1> SUFFICES ASSUME ~IsFiniteSet(Pairs(f, S)) PROVE FALSE
  OBVIOUS
<1> DEFINE G == {T \in SUBSET S : ~IsFiniteSet(Pairs(f, T))}
<1>1. PICK T \in G : \A U \in G : U \subseteq T => U = T
  <2>1. S \in G
    OBVIOUS
  <2>2. G \in SUBSET (SUBSET S) /\ G # {}
    BY <2>1
  <2> HIDE DEF G
  <2> QED
    BY <2>2, MinimalSubset
<1>2. T # {}
  BY PairsEmpty, FS_EmptySet
<1>3. PICK x \in T : TRUE
  BY <1>2
<1>4. IsFiniteSet(Pairs(f, T \ {x}))
  BY <1>1, <1>3
<1>5. IsFiniteSet(Pairs(f, (T \ {x}) \cup {x}))
  BY <1>4, PairsAdd
<1>6. (T \ {x}) \cup {x} = T
  OBVIOUS
<1> QED
  BY <1>5, <1>6

(* A finite sum of naturals is a natural.                                  *)
LEMMA SumType ==
  ASSUME NEW S, IsFiniteSet(S), NEW f, \A x \in S : f[x] \in Nat
  PROVE  SumOver(f, S) \in Nat
BY PairsFinite, FS_CardinalityType DEF SumOver

(* One more element adds its value.                                        *)
LEMMA SumAdd ==
  ASSUME NEW S, IsFiniteSet(S), NEW f, \A y \in S : f[y] \in Nat,
         NEW x, x \notin S, f[x] \in Nat
  PROVE  SumOver(f, S \cup {x}) = SumOver(f, S) + f[x]
BY PairsFinite, PairsAdd

(* The sum over one element.                                               *)
LEMMA SumSingleton ==
  ASSUME NEW f, NEW x, f[x] \in Nat
  PROVE  SumOver(f, {x}) = f[x]
<1> DEFINE E == {}
<1>1. IsFiniteSet(E) /\ SumOver(f, E) = 0 /\ x \notin E /\ \A y \in E : f[y] \in Nat
  BY SumEmpty, FS_EmptySet
<1>2. {x} = E \cup {x}
  OBVIOUS
<1> HIDE DEF E
<1>3. SumOver(f, E \cup {x}) = SumOver(f, E) + f[x]
  BY <1>1, SumAdd
<1>4. SumOver(f, {x}) = SumOver(f, E) + f[x]
  BY <1>2, <1>3, Zenon
<1> QED
  BY <1>1, <1>4

(* A sum is the value of one element and the sum over the others.          *)
LEMMA SumRemove ==
  ASSUME NEW S, IsFiniteSet(S), NEW f, \A y \in S : f[y] \in Nat, NEW x \in S
  PROVE  SumOver(f, S) = SumOver(f, S \ {x}) + f[x]
<1>1. IsFiniteSet(S \ {x})
  BY FS_RemoveElement
<1>2. SumOver(f, (S \ {x}) \cup {x}) = SumOver(f, S \ {x}) + f[x]
  BY <1>1, SumAdd
<1>3. (S \ {x}) \cup {x} = S
  OBVIOUS
<1> QED
  BY <1>2, <1>3, Zenon

(* Only the values on S count.                                             *)
LEMMA SumCong ==
  ASSUME NEW S, NEW f, NEW g, \A x \in S : f[x] = g[x]
  PROVE  SumOver(f, S) = SumOver(g, S)
<1>1. Pairs(f, S) = Pairs(g, S)
  <2>1. ASSUME NEW p PROVE p \in Pairs(f, S) <=> p \in Pairs(g, S)
    BY PairsMember
  <2> QED
    BY <2>1
<1> QED
  BY <1>1, Zenon DEF SumOver

(* Smaller values have a smaller sum.                                      *)
LEMMA SumMonotone ==
  ASSUME NEW S, IsFiniteSet(S), NEW f, NEW g,
         \A x \in S : f[x] \in Nat /\ g[x] \in Nat /\ f[x] <= g[x]
  PROVE  SumOver(f, S) <= SumOver(g, S)
<1>1. IsFiniteSet(Pairs(g, S))
  BY PairsFinite
<1>2. Pairs(f, S) \subseteq Pairs(g, S)
  <2>1. ASSUME NEW p \in Pairs(f, S) PROVE p \in Pairs(g, S)
    BY PairsMember
  <2> QED
    BY <2>1
<1> QED
  BY <1>1, <1>2, FS_Subset DEF SumOver

(* A part has a smaller sum than the whole.                                *)
LEMMA SumSubset ==
  ASSUME NEW S, IsFiniteSet(S), NEW T \in SUBSET S, NEW f, \A x \in S : f[x] \in Nat
  PROVE  SumOver(f, T) <= SumOver(f, S)
<1>1. IsFiniteSet(Pairs(f, S))
  BY PairsFinite
<1>2. Pairs(f, T) \subseteq Pairs(f, S)
  <2>1. ASSUME NEW p \in Pairs(f, T) PROVE p \in Pairs(f, S)
    BY PairsMember
  <2> QED
    BY <2>1
<1> QED
  BY <1>1, <1>2, FS_Subset DEF SumOver

(* The sum over two disjoint sets.                                         *)
LEMMA SumSplit ==
  ASSUME NEW S, IsFiniteSet(S), NEW T, IsFiniteSet(T), S \cap T = {},
         NEW f, \A x \in S \cup T : f[x] \in Nat
  PROVE  SumOver(f, S \cup T) = SumOver(f, S) + SumOver(f, T)
<1>1. IsFiniteSet(Pairs(f, S)) /\ IsFiniteSet(Pairs(f, T))
  BY PairsFinite
<1>2. Pairs(f, S) \cap Pairs(f, T) = {}
  <2>1. ASSUME NEW p \in Pairs(f, S), p \in Pairs(f, T) PROVE FALSE
    BY <2>1, PairsMember
  <2> QED
    BY <2>1
<1>3. Cardinality(Pairs(f, S) \cap Pairs(f, T)) = 0
  BY <1>2, FS_EmptySet
<1>4. Cardinality(Pairs(f, S)) \in Nat /\ Cardinality(Pairs(f, T)) \in Nat
  BY <1>1, FS_CardinalityType
<1>5. Cardinality(Pairs(f, S) \cup Pairs(f, T))
        = Cardinality(Pairs(f, S)) + Cardinality(Pairs(f, T))
  <2>1. Cardinality(Pairs(f, S) \cup Pairs(f, T))
          = Cardinality(Pairs(f, S)) + Cardinality(Pairs(f, T)) - Cardinality(Pairs(f, S) \cap Pairs(f, T))
    BY <1>1, FS_Union, Zenon
  <2> QED
    BY <2>1, <1>3, <1>4
<1>6. Pairs(f, S \cup T) = Pairs(f, S) \cup Pairs(f, T)
  <2>1. \A A, B : Pairs(f, A \cup B) = Pairs(f, A) \cup Pairs(f, B)
    BY PairsUnion, Zenon
  <2> QED
    BY <2>1, Zenon
<1> QED
  BY <1>5, <1>6, Zenon DEF SumOver

(* The sum of the values of two functions.                                 *)
LEMMA SumPlus ==
  ASSUME NEW S, IsFiniteSet(S), NEW f, NEW g, NEW h,
         \A x \in S : f[x] \in Nat /\ g[x] \in Nat /\ h[x] = f[x] + g[x]
  PROVE  SumOver(h, S) = SumOver(f, S) + SumOver(g, S)
<1> DEFINE G == {T \in SUBSET S : SumOver(h, T) # SumOver(f, T) + SumOver(g, T)}
<1> SUFFICES ASSUME S \in G PROVE FALSE
  OBVIOUS
<1>1. PICK T \in G : \A U \in G : U \subseteq T => U = T
  <2>1. G \in SUBSET (SUBSET S) /\ G # {}
    OBVIOUS
  <2> HIDE DEF G
  <2> QED
    BY <2>1, MinimalSubset
<1>2. T # {}
  <2>1. SumOver(h, {}) = 0 /\ SumOver(f, {}) = 0 /\ SumOver(g, {}) = 0
    BY SumEmpty
  <2>2. {} \notin G
    BY <2>1
  <2> QED
    BY <2>2, Zenon
<1>3. PICK x \in T : TRUE
  BY <1>2
<1>4. SumOver(h, T \ {x}) = SumOver(f, T \ {x}) + SumOver(g, T \ {x})
  BY <1>1, <1>3
<1>5. IsFiniteSet(T) /\ IsFiniteSet(T \ {x})
  BY FS_Subset
<1>6. /\ SumOver(h, T) = SumOver(h, T \ {x}) + h[x]
      /\ SumOver(f, T) = SumOver(f, T \ {x}) + f[x]
      /\ SumOver(g, T) = SumOver(g, T \ {x}) + g[x]
  BY <1>5, SumRemove
<1>7. SumOver(f, T \ {x}) \in Nat /\ SumOver(g, T \ {x}) \in Nat
  BY <1>5, SumType
<1> QED
  BY <1>4, <1>6, <1>7

(* Zeros sum to 0.                                                         *)
LEMMA SumZero ==
  ASSUME NEW S, NEW f, \A x \in S : f[x] = 0
  PROVE  SumOver(f, S) = 0
<1>1. Pairs(f, S) = {}
  <2>1. ASSUME NEW p \in Pairs(f, S) PROVE FALSE
    BY PairsMember
  <2> QED
    BY <2>1
<1> QED
  BY <1>1, FS_EmptySet, Zenon DEF SumOver

(* Ones count the elements.                                                *)
LEMMA SumOnes ==
  ASSUME NEW S, IsFiniteSet(S), NEW f, \A x \in S : f[x] = 1
  PROVE  SumOver(f, S) = Cardinality(S)
<1> DEFINE G == {T \in SUBSET S : SumOver(f, T) # Cardinality(T)}
<1> SUFFICES ASSUME S \in G PROVE FALSE
  OBVIOUS
<1>1. PICK T \in G : \A U \in G : U \subseteq T => U = T
  <2>1. G \in SUBSET (SUBSET S) /\ G # {}
    OBVIOUS
  <2> HIDE DEF G
  <2> QED
    BY <2>1, MinimalSubset
<1>2. T # {}
  BY SumEmpty, FS_EmptySet
<1>3. PICK x \in T : TRUE
  BY <1>2
<1>4. SumOver(f, T \ {x}) = Cardinality(T \ {x})
  BY <1>1, <1>3
<1>5. IsFiniteSet(T) /\ IsFiniteSet(T \ {x})
  BY FS_Subset
<1>6. SumOver(f, T) = SumOver(f, T \ {x}) + 1
  BY <1>5, SumRemove
<1>7. Cardinality(T \ {x}) = Cardinality(T) - 1 /\ Cardinality(T) \in Nat
  BY <1>5, FS_RemoveElement, FS_CardinalityType
<1> QED
  BY <1>4, <1>6, <1>7

(* w lists the elements of R, each at one index of S.                      *)
Enumerates(w, S, R) ==
  /\ \A i, j \in S : w[i] = w[j] => i = j
  /\ \A y : y \in R <=> \E i \in S : y = w[i]

(* The values along an enumeration.                                        *)
LEMMA SumReindex ==
  ASSUME NEW S, IsFiniteSet(S), NEW w, NEW R, Enumerates(w, S, R),
         NEW f, NEW g, \A i \in S : g[i] = f[w[i]] /\ g[i] \in Nat
  PROVE  /\ IsFiniteSet(R)
         /\ Cardinality(R) = Cardinality(S)
         /\ SumOver(f, R) = SumOver(g, S)
<1> USE DEF Enumerates
<1> SUFFICES /\ IsFiniteSet({w[i] : i \in S})
             /\ Cardinality({w[i] : i \in S}) = Cardinality(S)
             /\ SumOver(f, {w[i] : i \in S}) = SumOver(g, S)
  <2>1. R = {w[i] : i \in S}
    OBVIOUS
  <2> QED
    BY <2>1, Zenon
<1> DEFINE Img(T) == {w[i] : i \in T}
           Good(T) == /\ IsFiniteSet(Img(T))
                      /\ Cardinality(Img(T)) = Cardinality(T)
                      /\ SumOver(f, Img(T)) = SumOver(g, T)
           G == {T \in SUBSET S : ~Good(T)}
<1> SUFFICES ASSUME S \in G PROVE FALSE
  BY Zenon
<1>1. PICK T \in G : \A U \in G : U \subseteq T => U = T
  <2>1. G \in SUBSET (SUBSET S) /\ G # {}
    BY Zenon
  <2> HIDE DEF G
  <2> QED
    BY <2>1, MinimalSubset
<1>2. T # {}
  <2>1. SUFFICES ASSUME T = {} PROVE Good(T)
    BY Zenon
  <2>2. Img(T) = {}
    BY <2>1
  <2> QED
    BY <2>1, <2>2, SumEmpty, FS_EmptySet, Zenon
<1>3. PICK x \in T : TRUE
  BY <1>2
<1> DEFINE U == T \ {x}
<1>4. Good(U)
  <2>1. U \in SUBSET S /\ U # T /\ U \subseteq T
    BY <1>3
  <2> QED
    BY <2>1, <1>1, Zenon
<1>5. IsFiniteSet(T) /\ IsFiniteSet(U)
  BY FS_Subset
<1>6. Img(T) = Img(U) \cup {w[x]} /\ w[x] \notin Img(U)
  OBVIOUS
<1>7. \A y \in Img(U) : f[y] \in Nat
  OBVIOUS
<1>8. SumOver(f, Img(T)) = SumOver(f, Img(U)) + f[w[x]]
  <2>1. f[w[x]] \in Nat
    OBVIOUS
  <2> HIDE DEF Img, U
  <2>2. SumOver(f, Img(U) \cup {w[x]}) = SumOver(f, Img(U)) + f[w[x]]
    BY <2>1, <1>4, <1>6, <1>7, SumAdd
  <2> QED
    BY <2>2, <1>6, Zenon
<1>9. SumOver(g, T) = SumOver(g, U) + g[x]
  <2>1. \A y \in T : g[y] \in Nat
    OBVIOUS
  <2> QED
    BY <2>1, <1>5, SumRemove
<1>10. IsFiniteSet(Img(T)) /\ Cardinality(Img(T)) = Cardinality(Img(U)) + 1
  <2> HIDE DEF Img, U
  <2>1. IsFiniteSet(Img(U) \cup {w[x]}) /\ Cardinality(Img(U) \cup {w[x]}) = Cardinality(Img(U)) + 1
    BY <1>4, <1>6, FS_AddElement
  <2> QED
    BY <2>1, <1>6, Zenon
<1>11. Cardinality(U) = Cardinality(T) - 1 /\ Cardinality(T) \in Nat
  BY <1>5, FS_RemoveElement, FS_CardinalityType
<1>12. g[x] = f[w[x]]
  OBVIOUS
<1>13. ~Good(T)
  BY Zenon
<1> HIDE DEF Img, U, G
<1> QED
  BY <1>4, <1>8, <1>9, <1>10, <1>11, <1>12, <1>13

(* A sum over the first i indices is one over the first i - 1 and the i-th.*)
LEMMA SumUpTo ==
  ASSUME NEW i \in Nat \ {0}, NEW f, \A j \in 1..i : f[j] \in Nat
  PROVE  SumOver(f, 1..i) = SumOver(f, 1..i-1) + f[i]
<1>1. IsFiniteSet(1..i)
  BY FS_Interval
<1>2. SumOver(f, 1..i) = SumOver(f, (1..i) \ {i}) + f[i]
  BY <1>1, SumRemove
<1>3. (1..i) \ {i} = 1..i-1
  OBVIOUS
<1> QED
  BY <1>2, <1>3, Zenon
-----------------------------------------------------------------------------
(* A set enumerated without repetition has as many elements as indices.    *)
LEMMA EnumeratedCount ==
  ASSUME NEW S, IsFiniteSet(S), NEW w, NEW R, Enumerates(w, S, R)
  PROVE  IsFiniteSet(R) /\ Cardinality(R) = Cardinality(S)
<1> DEFINE g == [i \in S |-> 0]
           f == [x \in R |-> 0]
<1>1. \A i \in S : g[i] = f[w[i]] /\ g[i] \in Nat
  BY DEF Enumerates
<1> HIDE DEF f, g
<1> QED
  BY <1>1, SumReindex

(* A sequence without duplicates has as many elements as positions.        *)
LEMMA DistinctCount ==
  ASSUME NEW S, NEW s \in Seq(S), NEW R, Enumerates(s, 1..Len(s), R)
  PROVE  IsFiniteSet(R) /\ Cardinality(R) = Len(s)
<1> DEFINE n == Len(s)
<1>1. n \in Nat /\ Enumerates(s, 1..n, R)
  OBVIOUS
<1> HIDE DEF n
<1>2. IsFiniteSet(1..n) /\ Cardinality(1..n) = n
  BY <1>1, FS_Interval
<1>3. IsFiniteSet(R) /\ Cardinality(R) = Cardinality(1..n)
  BY <1>1, <1>2, EnumeratedCount
<1> QED
  BY <1>2, <1>3 DEF n
-----------------------------------------------------------------------------
(* Without its i-th element, which occurs once, a sequence holds the others.*)
LEMMA RemoveAtProperties ==
  ASSUME NEW S, NEW s \in Seq(S), \A j, k \in DOMAIN s : s[j] = s[k] => j = k,
         NEW i \in DOMAIN s
  PROVE  /\ RemoveAt(s, i) \in Seq(S)
         /\ \A j, k \in DOMAIN RemoveAt(s, i) : RemoveAt(s, i)[j] = RemoveAt(s, i)[k] => j = k
         /\ \A q : q \in ToSet(RemoveAt(s, i)) <=> q \in ToSet(s) /\ q # s[i]
<1> DEFINE n == Len(s)
           a == SubSeq(s, 1, i-1)
           b == SubSeq(s, i+1, n)
           t == a \o b
<1>1. n \in Nat /\ DOMAIN s = 1..n /\ i \in 1..n
  OBVIOUS
<1> HIDE DEF n
<1>2. a \in Seq(S) /\ Len(a) = i - 1 /\ \A j \in 1..i-1 : a[j] = s[j]
  <2>1. \A j \in 1..i-1 : s[j] \in S
    BY <1>1
  <2> QED
    BY <1>1, <2>1, SubSeqProperties
<1>3. b \in Seq(S) /\ Len(b) = n - i /\ \A j \in 1..n-i : b[j] = s[i + j]
  <2>1. \A j \in i+1..n : s[j] \in S
    BY <1>1
  <2>2. /\ b \in Seq(S) /\ Len(b) = IF i + 1 <= n THEN n - (i + 1) + 1 ELSE 0
        /\ \A j \in 1..n-(i+1)+1 : b[j] = s[(i + 1) + j - 1]
    <3>1. i + 1 \in Int /\ n \in Int
      BY <1>1
    <3> QED
      BY <2>1, <3>1, SubSeqProperties
  <2> HIDE DEF b
  <2>3. Len(b) = n - i
    BY <1>1, <2>2
  <2>4. ASSUME NEW j \in 1..n-i PROVE b[j] = s[i + j]
    <3>1. j \in 1..n-(i+1)+1 /\ (i + 1) + j - 1 = i + j
      BY <1>1
    <3> QED
      BY <3>1, <2>2
  <2> QED
    BY <2>2, <2>3, <2>4
<1> HIDE DEF a, b
<1>4. /\ t \in Seq(S) /\ Len(t) = n - 1 /\ DOMAIN t = 1..n-1
      /\ \A j \in 1..n-1 : t[j] = IF j < i THEN s[j] ELSE s[j + 1]
  <2>1. /\ t \in Seq(S) /\ Len(t) = Len(a) + Len(b)
        /\ \A j \in 1..Len(a) + Len(b) : t[j] = IF j <= Len(a) THEN a[j] ELSE b[j - Len(a)]
    <3>1. a \in Seq(S) /\ b \in Seq(S)
      BY <1>2, <1>3
    <3> QED
      BY <3>1, ConcatProperties
  <2> HIDE DEF t
  <2>2. Len(t) = n - 1 /\ DOMAIN t = 1..n-1
    BY <1>1, <1>2, <1>3, <2>1
  <2>3. \A j \in 1..n-1 : t[j] = IF j <= i - 1 THEN a[j] ELSE b[j - (i - 1)]
    BY <1>1, <1>2, <1>3, <2>1
  <2>4. ASSUME NEW j \in 1..n-1 PROVE t[j] = IF j < i THEN s[j] ELSE s[j + 1]
    <3>1. CASE j < i
      BY <3>1, <2>3, <1>1, <1>2
    <3>2. CASE j >= i
      <4>1. PICK k \in 1..n-i : k = j - (i - 1)
        BY <3>2, <1>1
      <4>2. t[j] = b[k] /\ i + k = j + 1
        BY <3>2, <4>1, <2>3, <1>1
      <4>3. b[k] = s[i + k]
        BY <1>3
      <4> QED
        BY <3>2, <4>2, <4>3, <1>1
    <3> QED
      BY <3>1, <3>2, <1>1
  <2> QED
    BY <2>1, <2>2, <2>4
<1>5. RemoveAt(s, i) = t
  BY DEF RemoveAt, a, b, n
<1> HIDE DEF t
<1>6. ASSUME NEW j \in DOMAIN t, NEW k \in DOMAIN t, t[j] = t[k] PROVE j = k
  <2> DEFINE at(x) == IF x < i THEN x ELSE x + 1
  <2>1. j \in 1..n-1 /\ k \in 1..n-1 /\ at(j) \in 1..n /\ at(k) \in 1..n
    BY <1>1, <1>4
  <2>2. t[j] = s[at(j)] /\ t[k] = s[at(k)]
    BY <2>1, <1>4
  <2>3. at(j) = at(k)
    BY <1>6, <2>1, <2>2, <1>1
  <2> QED
    BY <2>1, <2>3, <1>1
<1>7. ASSUME NEW q PROVE q \in ToSet(t) <=> q \in ToSet(s) /\ q # s[i]
  <2>1. ASSUME NEW j \in 1..n-1 PROVE t[j] \in ToSet(s) /\ t[j] # s[i]
    <3>1. PICK k \in 1..n : k # i /\ t[j] = s[k]
      <4>1. CASE j < i
        BY <4>1, <1>1, <1>4
      <4>2. CASE ~(j < i)
        <5>1. j + 1 \in 1..n /\ j + 1 # i /\ t[j] = s[j + 1]
          BY <4>2, <1>1, <1>4
        <5> QED
          BY <5>1
      <4> QED
        BY <4>1, <4>2
    <3> QED
      BY <3>1, <1>1 DEF ToSet
  <2>2. ASSUME NEW j \in 1..n, s[j] # s[i] PROVE s[j] \in ToSet(t)
    <3>1. CASE j < i
      BY <3>1, <1>1, <1>4 DEF ToSet
    <3>2. CASE j > i
      <4>1. j - 1 \in 1..n-1 /\ t[j - 1] = s[j]
        BY <3>2, <1>1, <1>4
      <4> QED
        BY <4>1, <1>4 DEF ToSet
    <3> QED
      BY <3>1, <3>2, <2>2, <1>1
  <2> QED
    BY <2>1, <2>2, <1>1, <1>4 DEF ToSet
<1> QED
  BY <1>4, <1>5, <1>6, <1>7

(* A queue and another behind it, without common requests.                 *)
LEMMA ConcatDistinct ==
  ASSUME NEW S, NEW s \in Seq(S), NEW t \in Seq(S),
         \A i, j \in DOMAIN s : s[i] = s[j] => i = j,
         \A i, j \in DOMAIN t : t[i] = t[j] => i = j,
         ToSet(s) \cap ToSet(t) = {}
  PROVE  /\ s \o t \in Seq(S)
         /\ \A i, j \in DOMAIN (s \o t) : (s \o t)[i] = (s \o t)[j] => i = j
         /\ \A r : r \in ToSet(s \o t) <=> r \in ToSet(s) \/ r \in ToSet(t)
<1> DEFINE m == Len(s)
           n == Len(t)
           u == s \o t
<1>1. m \in Nat /\ n \in Nat /\ DOMAIN s = 1..m /\ DOMAIN t = 1..n
  OBVIOUS
<1>2. /\ u \in Seq(S) /\ Len(u) = m + n
      /\ \A i \in 1..m + n : u[i] = IF i <= m THEN s[i] ELSE t[i - m]
  BY ConcatProperties
<1> HIDE DEF m, n, u
<1>3. DOMAIN u = 1..m + n
  BY <1>1, <1>2
<1>4. \A i \in 1..m : u[i] = s[i] /\ i \in 1..m + n
  BY <1>1, <1>2
<1>5. \A i \in 1..n : u[m + i] = t[i] /\ m + i \in 1..m + n
  <2>1. ASSUME NEW i \in 1..n PROVE u[m + i] = t[i] /\ m + i \in 1..m + n
    <3>1. m + i \in 1..m + n /\ ~(m + i <= m) /\ (m + i) - m = i
      BY <1>1
    <3>2. u[m + i] = t[(m + i) - m]
      BY <3>1, <1>2
    <3> QED
      BY <3>1, <3>2
  <2> QED
    BY <2>1
<1>6. \A i \in 1..m + n : i \in 1..m \/ \E k \in 1..n : i = m + k
  <2>1. ASSUME NEW i \in 1..m + n, i \notin 1..m PROVE i - m \in 1..n /\ i = m + (i - m)
    BY <1>1, <2>1
  <2> QED
    BY <2>1
<1>7. ASSUME NEW r PROVE r \in ToSet(u) <=> r \in ToSet(s) \/ r \in ToSet(t)
  <2>1. ASSUME NEW i \in 1..m + n, r = u[i] PROVE r \in ToSet(s) \/ r \in ToSet(t)
    <3>1. CASE i \in 1..m
      BY <2>1, <3>1, <1>1, <1>4 DEF ToSet
    <3>2. ASSUME NEW k \in 1..n, i = m + k PROVE r \in ToSet(t)
      <4>1. r = t[k]
        BY <2>1, <3>2, <1>5
      <4> QED
        BY <4>1, <1>1 DEF ToSet
    <3> QED
      BY <3>1, <3>2, <1>6
  <2>2. r \in ToSet(s) => \E i \in 1..m + n : r = u[i]
    BY <1>1, <1>4 DEF ToSet
  <2>3. ASSUME r \in ToSet(t) PROVE \E i \in 1..m + n : r = u[i]
    <3>1. PICK k \in 1..n : r = t[k]
      BY <2>3, <1>1 DEF ToSet
    <3> QED
      BY <3>1, <1>5
  <2>4. r \in ToSet(u) <=> \E i \in 1..m + n : r = u[i]
    BY <1>3 DEF ToSet
  <2> QED
    BY <2>1, <2>2, <2>3, <2>4
<1>8. \A i \in 1..m, k \in 1..n : s[i] # t[k]
  BY <1>1 DEF ToSet
<1>9. ASSUME NEW i \in 1..m + n, NEW j \in 1..m + n, u[i] = u[j] PROVE i = j
  <2>1. CASE i \in 1..m /\ j \in 1..m
    BY <2>1, <1>9, <1>1, <1>4
  <2>2. ASSUME NEW k \in 1..n, j = m + k, i \in 1..m PROVE FALSE
    BY <2>2, <1>9, <1>4, <1>5, <1>8
  <2>3. ASSUME NEW k \in 1..n, i = m + k, j \in 1..m PROVE FALSE
    BY <2>3, <1>9, <1>4, <1>5, <1>8
  <2>4. ASSUME NEW k \in 1..n, i = m + k, NEW l \in 1..n, j = m + l PROVE i = j
    BY <2>4, <1>9, <1>1, <1>5
  <2> QED
    BY <2>1, <2>2, <2>3, <2>4, <1>6
<1> QED
  BY <1>2, <1>3, <1>7, <1>9 DEF u

(* u is s and t behind it.                                                 *)
Joins(u, s, t) == u = s \o t

(* A function on the first n numbers is a sequence.                        *)
LEMMA IsSequence ==
  ASSUME NEW n \in Nat, NEW S, NEW f, DOMAIN f = 1..n, f = [i \in DOMAIN f |-> f[i]],
         \A i \in 1..n : f[i] \in S
  PROVE  f \in Seq(S) /\ Len(f) = n
<1>1. f \in [1..n -> S]
  OBVIOUS
<1> QED
  BY <1>1

(* A concatenation, with names for the lengths and for the result.         *)
LEMMA Concatenated ==
  ASSUME NEW S, NEW s \in Seq(S), NEW t \in Seq(S), NEW u, Joins(u, s, t),
         NEW x \in Nat, Len(s) = x, NEW y \in Nat, Len(t) = y
  PROVE  /\ u \in Seq(S) /\ Len(u) = x + y
         /\ \A k \in 1..x+y : u[k] = IF k <= x THEN s[k] ELSE t[k - x]
BY ConcatProperties DEF Joins

\* u has the x elements of s, then the y elements of t.
JoinOf(u, s, t, x, y, S) ==
  /\ u \in Seq(S) /\ Len(u) = x + y
  /\ \A k \in 1..x+y : u[k] = IF k <= x THEN s[k] ELSE t[k - x]

(* The same, as one fact.                                                  *)
LEMMA Concatenation ==
  ASSUME NEW S, NEW s \in Seq(S), NEW t \in Seq(S), NEW u, Joins(u, s, t),
         NEW x \in Nat, Len(s) = x, NEW y \in Nat, Len(t) = y
  PROVE  JoinOf(u, s, t, x, y, S)
BY Concatenated DEF JoinOf

\* u is what follows the first x elements of s, l of them.
Sliced(u, s, x, l) == u = SubSeq(s, x + 1, x + l)
Follows(u, s, x, l, S) == u \in Seq(S) /\ Len(u) = l /\ \A i \in 1..l : u[i] = s[x + i]

(* A slice, with names for what comes before it and for its length.        *)
LEMMA SliceMeans ==
  ASSUME NEW S, NEW s \in Seq(S), NEW x \in Nat, NEW l \in Nat, NEW u, Sliced(u, s, x, l),
         l # 0, x + l <= Len(s)
  PROVE  Follows(u, s, x, l, S)
<1>1. PICK a, b : a = x + 1 /\ b = x + l
  BY Zenon
<1>2. Len(s) \in Nat
  BY LenProperties
<1>3. a \in 1..Len(s)+1 /\ b \in 0..Len(s) /\ a <= b /\ b - a + 1 = l
  BY <1>1, <1>2
<1>4. /\ SubSeq(s, a, b) \in Seq(S) /\ Len(SubSeq(s, a, b)) = IF a <= b THEN b - a + 1 ELSE 0
  BY <1>3, SubSeqProperties
<1>5. \A i \in 1..(b - a + 1) : SubSeq(s, a, b)[i] = s[a + i - 1]
  BY <1>3, SubSeqProperties
<1>6. u = SubSeq(s, a, b)
  BY <1>1, Zenon DEF Sliced
<1>7. u \in Seq(S)
  BY <1>4, <1>6, Zenon
<1>8. Len(u) = l
  <2>1. Len(u) = IF a <= b THEN b - a + 1 ELSE 0
    BY <1>4, <1>6, Zenon
  <2> QED
    BY <1>3, <2>1
<1>9. \A i \in 1..l : u[i] = s[a + i - 1]
  BY <1>3, <1>5, <1>6, Zenon
<1>10. \A i \in 1..l : a + i - 1 = x + i
  BY <1>1
<1> QED
  BY <1>7, <1>8, <1>9, <1>10 DEF Follows

(* a and b are the first n elements of s and the rest.                     *)
CutAt(s, n, a, b) == a = SubSeq(s, 1, n) /\ b = SubSeq(s, n + 1, Len(s))

(* A sequence without duplicates, cut after its first n elements.          *)
LEMMA SplitDistinct ==
  ASSUME NEW S, NEW s \in Seq(S), \A i, j \in DOMAIN s : s[i] = s[j] => i = j,
         NEW n \in 0..Len(s), NEW a, NEW b, CutAt(s, n, a, b)
  PROVE  /\ a \in Seq(S) /\ Len(a) = n /\ \A i \in 1..n : a[i] = s[i]
         /\ b \in Seq(S)
         /\ \A i, j \in DOMAIN a : a[i] = a[j] => i = j
         /\ \A i, j \in DOMAIN b : b[i] = b[j] => i = j
         /\ \A r : r \in ToSet(a) <=> \E i \in 1..n : r = s[i]
         /\ \A r : r \in ToSet(b) <=> r \in ToSet(s) /\ r \notin ToSet(a)
         /\ \A r \in ToSet(a) : r \in ToSet(s)
<1> DEFINE m == Len(s)
<1>1. /\ m \in Nat /\ DOMAIN s = 1..m /\ n \in 0..m
      /\ \A i \in 1..m : s[i] \in S
      /\ \A i, j \in 1..m : s[i] = s[j] => i = j
  OBVIOUS
<1>2. a = SubSeq(s, 1, n) /\ b = SubSeq(s, n + 1, m)
  BY DEF CutAt
<1> HIDE DEF m
<1>3. /\ a \in Seq(S) /\ Len(a) = n /\ \A i \in 1..n : a[i] = s[i]
  <2>1. n \in Int /\ 1 \in Int /\ \A i \in 1..n : s[i] \in S
    BY <1>1
  <2>2. /\ a \in Seq(S) /\ Len(a) = IF 1 <= n THEN n - 1 + 1 ELSE 0
        /\ \A i \in 1..n-1+1 : a[i] = s[1 + i - 1]
    <3>1. /\ SubSeq(s, 1, n) \in Seq(S) /\ Len(SubSeq(s, 1, n)) = IF 1 <= n THEN n - 1 + 1 ELSE 0
          /\ \A i \in 1..n-1+1 : SubSeq(s, 1, n)[i] = s[1 + i - 1]
      BY <2>1, SubSeqProperties
    <3> QED
      BY <1>2, <3>1
  <2>3. \A i \in 1..n : i \in 1..n-1+1 /\ 1 + i - 1 = i
    BY <1>1
  <2> QED
    BY <1>1, <2>2, <2>3
<1>4. b \in Seq(S) /\ Len(b) = m - n /\ \A i \in 1..m-n : b[i] = s[n + i]
  <2>1. n + 1 \in Int /\ m \in Int /\ \A i \in n+1..m : s[i] \in S
    BY <1>1
  <2>2. /\ b \in Seq(S) /\ Len(b) = IF n + 1 <= m THEN m - (n + 1) + 1 ELSE 0
        /\ \A i \in 1..m-(n+1)+1 : b[i] = s[(n + 1) + i - 1]
    <3> DEFINE k == n + 1
    <3>1. k \in Int /\ \A i \in k..m : s[i] \in S
      BY <2>1
    <3> HIDE DEF k
    <3>2. /\ SubSeq(s, k, m) \in Seq(S) /\ Len(SubSeq(s, k, m)) = IF k <= m THEN m - k + 1 ELSE 0
          /\ \A i \in 1..m-k+1 : SubSeq(s, k, m)[i] = s[k + i - 1]
      BY <2>1, <3>1, SubSeqProperties
    <3> QED
      BY <1>2, <3>2 DEF k
  <2>3. \A i \in 1..m-n : i \in 1..m-(n+1)+1 /\ (n + 1) + i - 1 = n + i
    BY <1>1
  <2> QED
    BY <1>1, <2>2, <2>3
<1>5. DOMAIN a = 1..n /\ DOMAIN b = 1..m-n
  BY <1>1, <1>3, <1>4
<1>6. /\ \A i \in 1..n : i \in 1..m
      /\ \A i \in 1..m-n : n + i \in 1..m /\ n + i \notin 1..n
      /\ \A i \in 1..m : i \in 1..n \/ (i - n \in 1..m-n /\ n + (i - n) = i)
  BY <1>1
<1>7. \A i, j \in DOMAIN a : a[i] = a[j] => i = j
  BY <1>1, <1>3, <1>5, <1>6
<1>8. ASSUME NEW i \in DOMAIN b, NEW j \in DOMAIN b, b[i] = b[j] PROVE i = j
  <2>1. n + i = n + j
    BY <1>1, <1>4, <1>5, <1>6, <1>8
  <2> QED
    BY <1>1, <1>5, <2>1
<1>9. \A r : r \in ToSet(a) <=> \E i \in 1..n : r = s[i]
  BY <1>3, <1>5 DEF ToSet
<1>10. ASSUME NEW r PROVE r \in ToSet(b) <=> r \in ToSet(s) /\ r \notin ToSet(a)
  <2>1. r \in ToSet(s) <=> \E i \in 1..m : r = s[i]
    BY <1>1 DEF ToSet
  <2>2. r \in ToSet(b) <=> \E i \in 1..m-n : r = b[i]
    BY <1>5 DEF ToSet
  <2>3. ASSUME NEW i \in 1..m-n, r = b[i] PROVE (\E k \in 1..m : r = s[k]) /\ ~ \E k \in 1..n : r = s[k]
    <3>1. r = s[n + i] /\ n + i \in 1..m /\ n + i \notin 1..n
      BY <1>4, <1>6, <2>3
    <3> QED
      BY <1>1, <1>6, <3>1
  <2>4. ASSUME NEW i \in 1..m, r = s[i], ~ \E k \in 1..n : r = s[k] PROVE \E k \in 1..m-n : r = b[k]
    <3>1. i - n \in 1..m-n /\ n + (i - n) = i
      BY <1>6, <2>4
    <3>2. b[i - n] = s[n + (i - n)]
      BY <1>4, <3>1
    <3> QED
      BY <2>4, <3>1, <3>2
  <2> QED
    BY <1>9, <2>1, <2>2, <2>3, <2>4
<1>11. \A r \in ToSet(a) : r \in ToSet(s)
  BY <1>1, <1>6, <1>9 DEF ToSet
<1> QED
  BY <1>3, <1>4, <1>7, <1>8, <1>9, <1>10, <1>11
-----------------------------------------------------------------------------
(* Every set of indices can be listed in increasing order.                 *)
Increasing(w, n) == \A k, l \in 1..n : k < l => w[k] < w[l]
UpTo(S, c) == \A k \in S : k \in 0..c

(* A finite set of indices can be listed in ascending order.               *)
LEMMA AscendingExists ==
  ASSUME NEW c \in Nat, NEW S, IsFiniteSet(S), UpTo(S, c)
  PROVE  \E w \in [1..Cardinality(S) -> S] : Increasing(w, Cardinality(S))
<1> DEFINE G == {T \in SUBSET S : ~ \E w \in [1..Cardinality(T) -> T] : Increasing(w, Cardinality(T))}
<1> SUFFICES ASSUME S \in G PROVE FALSE
  OBVIOUS
<1>1. \A k \in S : k \in 0..c
  BY DEF UpTo
<1>2. PICK T \in G : \A U \in G : U \subseteq T => U = T
  <2>1. G \in SUBSET (SUBSET S) /\ G # {}
    OBVIOUS
  <2> HIDE DEF G
  <2> QED
    BY <2>1, MinimalSubset
<1>3. /\ T \in SUBSET S /\ ~ \E w \in [1..Cardinality(T) -> T] : Increasing(w, Cardinality(T))
      /\ IsFiniteSet(T) /\ Cardinality(T) \in Nat
  <2>1. T \in SUBSET S /\ ~ \E w \in [1..Cardinality(T) -> T] : Increasing(w, Cardinality(T))
    BY DEF G
  <2> QED
    BY <2>1, FS_Subset, FS_CardinalityType
<1>4. T # {}
  <2> SUFFICES ASSUME T = {} PROVE FALSE
    OBVIOUS
  <2> DEFINE w == [k \in 1..0 |-> 0]
  <2>1. Cardinality(T) = 0
    BY FS_EmptySet
  <2>2. w \in [1..0 -> T] /\ Increasing(w, 0)
    BY DEF Increasing
  <2> QED
    BY <1>3, <2>1, <2>2, Zenon
<1>5. PICK m \in T : \A k \in T : k <= m
  <2>1. T \in SUBSET Nat /\ \A k \in T : k <= c
    BY <1>1, <1>3
  <2> QED
    BY <1>4, <2>1, GreatestNatural
<1> DEFINE U == T \ {m}
           n == Cardinality(U)
<1>6. IsFiniteSet(U) /\ n \in Nat /\ Cardinality(T) = n + 1
  <2>1. IsFiniteSet(U) /\ Cardinality(U) = Cardinality(T) - 1
    BY <1>3, <1>5, FS_RemoveElement
  <2>2. n \in Nat
    BY <2>1, FS_CardinalityType
  <2> QED
    BY <1>3, <2>1, <2>2
<1>7. PICK w \in [1..n -> U] : Increasing(w, n)
  <2>1. U \subseteq T /\ U # T /\ U \in SUBSET S
    BY <1>3, <1>5
  <2>2. U \notin G
    <3> HIDE DEF G, U
    <3> QED
      BY <1>2, <2>1
  <2> HIDE DEF U
  <2> QED
    BY <2>1, <2>2 DEF G
<1> HIDE DEF n
<1> DEFINE v == [k \in 1..n+1 |-> IF k = n + 1 THEN m ELSE w[k]]
<1>8. \A k \in 1..n+1 : k # n + 1 => k \in 1..n
  BY <1>6
<1>9. ASSUME NEW k \in 1..n PROVE w[k] \in T /\ w[k] < m
  <2>1. w[k] \in T /\ w[k] # m
    BY <1>7
  <2>2. w[k] <= m /\ w[k] \in 0..c /\ m \in 0..c
    BY <2>1, <1>1, <1>3, <1>5
  <2> QED
    BY <2>1, <2>2
<1>10. v \in [1..n+1 -> T]
  BY <1>5, <1>8, <1>9
<1>11. Increasing(v, n + 1)
  <2> SUFFICES ASSUME NEW k \in 1..n+1, NEW l \in 1..n+1, k < l PROVE v[k] < v[l]
    BY DEF Increasing
  <2>1. k \in 1..n /\ v[k] = w[k]
    BY <1>6
  <2>2. CASE l = n + 1
    BY <2>1, <2>2, <1>9
  <2>3. CASE l # n + 1
    BY <2>1, <2>3, <1>7, <1>8 DEF Increasing
  <2> QED
    BY <2>2, <2>3
<1> HIDE DEF v
<1> QED
  BY <1>3, <1>6, <1>10, <1>11, Zenon

\* w lists the numbers of R, from the least to the greatest.
Ranked(w, c, R) ==
  /\ \A r \in 1..c : w[r] \in Int
  /\ \A r, q \in 1..c : r < q => w[r] < w[q]
  /\ \A y : y \in R <=> \E r \in 1..c : y = w[r]

(* How many there are.                                                     *)
LEMMA RankedCount ==
  ASSUME NEW c \in Nat, NEW w, NEW R, Ranked(w, c, R)
  PROVE  IsFiniteSet(R) /\ Cardinality(R) = c
<1>1. IsFiniteSet(1..c) /\ Cardinality(1..c) = c
  BY FS_Interval
<1>2. Enumerates(w, 1..c, R)
  <2>1. ASSUME NEW i \in 1..c, NEW j \in 1..c, w[i] = w[j] PROVE i = j
    <3>1. w[i] \in Int /\ w[j] \in Int /\ (i < j => w[i] < w[j]) /\ (j < i => w[j] < w[i])
      BY DEF Ranked
    <3> QED
      BY <2>1, <3>1
  <2> QED
    BY <2>1 DEF Ranked, Enumerates
<1> QED
  BY <1>1, <1>2, EnumeratedCount

(* How many there are up to the r-th.                                      *)
LEMMA RankIs ==
  ASSUME NEW c \in Nat, NEW w, NEW R, Ranked(w, c, R), NEW r \in 1..c
  PROVE  Cardinality({j \in R : j <= w[r]}) = r
<1> DEFINE U == {j \in R : j <= w[r]}
<1>1. \A i \in 1..c : (w[i] <= w[r] <=> i <= r) /\ w[i] \in Int
  <2>1. ASSUME NEW i \in 1..c PROVE (w[i] <= w[r] <=> i <= r) /\ w[i] \in Int
    <3>1. w[i] \in Int /\ w[r] \in Int /\ (i < r => w[i] < w[r]) /\ (r < i => w[r] < w[i])
      BY DEF Ranked
    <3> QED
      BY <3>1
  <2> QED
    BY <2>1
<1>2. \A i \in 1..r : i \in 1..c
  OBVIOUS
<1>3. \A y : y \in U <=> \E i \in 1..r : y = w[i]
  <2>1. \A y : y \in R <=> \E i \in 1..c : y = w[i]
    BY DEF Ranked
  <2>2. \A i \in 1..c : i <= r => i \in 1..r
    OBVIOUS
  <2>3. \A i \in 1..r : i <= r
    OBVIOUS
  <2> QED
    BY <1>1, <1>2, <2>1, <2>2, <2>3
<1>4. Ranked(w, r, U)
  BY <1>1, <1>2, <1>3 DEF Ranked
<1> HIDE DEF U
<1>5. r \in Nat
  OBVIOUS
<1>6. Cardinality(U) = r
  BY <1>4, <1>5, RankedCount
<1> QED
  BY <1>6 DEF U

(* nonzero lists them in this order.                                       *)
LEMMA AscendingIs ==
  ASSUME NEW c \in Nat, NEW w, NEW R, Ranked(w, c, R)
  PROVE  DOMAIN Ascending(R) = 1..c /\ \A r \in 1..c : Ascending(R)[r] = w[r]
<1> DEFINE upTo(i) == Cardinality({j \in R : j <= i})
<1>1. Cardinality(R) = c
  BY RankedCount
<1>2. \A r \in 1..c : upTo(w[r]) = r
  BY RankIs
<1>3. Ascending(R) = [r \in 1..c |-> CHOOSE i \in R : upTo(i) = r]
  BY <1>1 DEF Ascending
<1> HIDE DEF upTo
<1>4. ASSUME NEW r \in 1..c PROVE (CHOOSE i \in R : upTo(i) = r) = w[r]
  <2>1. w[r] \in R /\ upTo(w[r]) = r
    BY <1>2 DEF Ranked
  <2>2. ASSUME NEW i \in R, upTo(i) = r PROVE i = w[r]
    BY <1>2, <2>2 DEF Ranked
  <2> QED
    BY <2>1, <2>2
<1> QED
  BY <1>3, <1>4

(* A set of numbers with a bound is listed from the least to the greatest. *)
LEMMA AscendingRanked ==
  ASSUME NEW c \in Nat, NEW S \in SUBSET (0..c)
  PROVE  /\ Cardinality(S) \in Nat /\ IsFiniteSet(S)
         /\ DOMAIN Ascending(S) = 1..Cardinality(S)
         /\ Ranked(Ascending(S), Cardinality(S), S)
<1> DEFINE n == Cardinality(S)
           a == Ascending(S)
<1>1. n \in Nat /\ IsFiniteSet(S)
  <2>1. IsFiniteSet(0..c)
    BY FS_Interval
  <2> QED
    BY <2>1, FS_Subset, FS_CardinalityType
<1>2. PICK w \in [1..n -> S] : Increasing(w, n)
  <2>1. UpTo(S, c)
    BY DEF UpTo
  <2> QED
    BY <1>1, <2>1, AscendingExists
<1> HIDE DEF n, a
<1>3. \A k \in 1..n : w[k] \in 0..c
  BY <1>2
<1>4. ASSUME NEW k \in 1..n, NEW l \in 1..n, w[k] = w[l] PROVE k = l
  <2>1. (k < l => w[k] < w[l]) /\ (l < k => w[l] < w[k]) /\ w[k] \in 0..c
    BY <1>2, <1>3 DEF Increasing
  <2> QED
    BY <1>1, <1>4, <2>1
<1>5. w \in Injection(1..n, S)
  BY <1>2, <1>4 DEF Injection, IsInjective
<1>6. IsFiniteSet(1..n) /\ Cardinality(1..n) = Cardinality(S)
  BY <1>1, FS_Interval DEF n
<1>7. w \in Surjection(1..n, S)
  BY <1>1, <1>5, <1>6, FS_Injection
<1>8. \A y \in S : \E r \in 1..n : y = w[r]
  BY <1>7 DEF Surjection
<1>9. Ranked(w, n, S)
  <2>1. \A r \in 1..n : w[r] \in Int /\ w[r] \in S
    BY <1>2, <1>3
  <2>2. \A r, q \in 1..n : r < q => w[r] < w[q]
    BY <1>2 DEF Increasing
  <2> QED
    BY <1>8, <2>1, <2>2 DEF Ranked
<1>10. DOMAIN a = 1..n /\ \A r \in 1..n : a[r] = w[r]
  BY <1>1, <1>9, AscendingIs DEF a
<1>11. Ranked(a, n, S)
  BY <1>9, <1>10 DEF Ranked
<1> QED
  BY <1>1, <1>10, <1>11 DEF n, a
-----------------------------------------------------------------------------
(* Stable sort, for keys that differ.                                      *)

\* p lists the indices 1..n by increasing keys.
Sorts(p, n, key) ==
  /\ \A r \in 1..n : p[r] \in 1..n /\ key[p[r]] \in Int
  /\ \A r, q \in 1..n : r < q => key[p[r]] < key[p[q]]
  /\ \A i \in 1..n : \E r \in 1..n : p[r] = i

(* The element of each rank is at the index listed.                        *)
LEMMA SortedByIs ==
  ASSUME NEW n \in Nat, NEW s, DOMAIN s = 1..n, NEW key, NEW p, Sorts(p, n, key)
  PROVE  /\ DOMAIN SortedBy(s, key) = 1..n
         /\ \A r \in 1..n : SortedBy(s, key)[r] = s[p[r]]
<1> DEFINE upTo(i) == {j \in 1..n : key[j] < key[i] \/ (key[j] = key[i] /\ j <= i)}
<1>1. SortedBy(s, key) = [r \in 1..n |-> s[CHOOSE i \in 1..n : Cardinality(upTo(i)) = r]]
  BY DEF SortedBy
<1>2. \A r \in 1..n : p[r] \in 1..n
  BY DEF Sorts
<1>3. ASSUME NEW r \in 1..n, NEW q \in 1..n
      PROVE  p[q] \in upTo(p[r]) <=> q <= r
  <2>1. /\ key[p[q]] \in Int /\ key[p[r]] \in Int
        /\ (q < r => key[p[q]] < key[p[r]]) /\ (r < q => key[p[r]] < key[p[q]])
    BY DEF Sorts
  <2>2. p[q] \in 1..n /\ p[r] \in 1..n
    BY <1>2
  <2>3. CASE q < r
    BY <2>1, <2>2, <2>3
  <2>4. CASE q = r
    BY <2>1, <2>2, <2>4
  <2>5. CASE r < q
    BY <2>1, <2>2, <2>5
  <2> QED
    BY <2>3, <2>4, <2>5
<1>4. ASSUME NEW r \in 1..n PROVE Cardinality(upTo(p[r])) = r
  <2> DEFINE U == upTo(p[r])
  <2>1. \A q \in 1..r : q \in 1..n /\ q <= r
    OBVIOUS
  <2>2. Enumerates(p, 1..r, U)
    <3>1. ASSUME NEW i \in 1..r, NEW j \in 1..r, p[i] = p[j] PROVE i = j
      <4>1. i \in 1..n /\ j \in 1..n
        BY <2>1
      <4>2. (i < j => key[p[i]] < key[p[j]]) /\ (j < i => key[p[j]] < key[p[i]]) /\ key[p[i]] \in Int
        BY <4>1 DEF Sorts
      <4> QED
        BY <3>1, <4>1, <4>2
    <3>2. ASSUME NEW y \in U PROVE \E i \in 1..r : y = p[i]
      <4>1. PICK q \in 1..n : p[q] = y
        BY DEF Sorts
      <4>2. q <= r
        <5> HIDE DEF upTo
        <5> QED
          BY <1>3, <4>1
      <4>3. q \in 1..r
        BY <4>2
      <4> QED
        BY <4>1, <4>3
    <3>3. ASSUME NEW i \in 1..r PROVE p[i] \in U
      <4> HIDE DEF upTo
      <4> QED
        BY <1>3, <2>1
    <3> HIDE DEF U
    <3> QED
      BY <3>1, <3>2, <3>3 DEF Enumerates
  <2>3. IsFiniteSet(1..r) /\ Cardinality(1..r) = r
    BY FS_Interval
  <2> HIDE DEF U
  <2>4. Cardinality(U) = r
    BY <2>2, <2>3, EnumeratedCount
  <2> QED
    BY <2>4 DEF U
<1> HIDE DEF upTo
<1>5. ASSUME NEW r \in 1..n PROVE (CHOOSE i \in 1..n : Cardinality(upTo(i)) = r) = p[r]
  <2>1. p[r] \in 1..n /\ Cardinality(upTo(p[r])) = r
    BY <1>2, <1>4
  <2>2. ASSUME NEW i \in 1..n, Cardinality(upTo(i)) = r PROVE i = p[r]
    <3>1. PICK q \in 1..n : p[q] = i
      BY DEF Sorts
    <3>2. q = r
      BY <1>4, <2>2, <3>1
    <3> QED
      BY <3>1, <3>2
  <2> QED
    BY <2>1, <2>2
<1> QED
  BY <1>1, <1>5

\* p[1] .. p[n] are different indices up to n.
Permutes(p, n) ==
  /\ \A i \in 1..n : p[i] \in 1..n
  /\ \A i, j \in 1..n : p[i] = p[j] => i = j

Covers(p, n) == \A k \in 1..n : \E i \in 1..n : p[i] = k

(* As many different indices as there are, are all of them.                *)
LEMMA Pigeonhole ==
  ASSUME NEW n \in Nat, NEW p, Permutes(p, n)
  PROVE  Covers(p, n)
<1> DEFINE R == {p[i] : i \in 1..n}
<1>1. IsFiniteSet(1..n) /\ Cardinality(1..n) = n
  BY FS_Interval
<1>2. Enumerates(p, 1..n, R)
  BY DEF Enumerates, Permutes
<1>3. R \subseteq 1..n
  BY DEF Permutes
<1> HIDE DEF R
<1>4. Cardinality(R) = n
  BY <1>1, <1>2, EnumeratedCount
<1>5. R = 1..n
  BY <1>1, <1>3, <1>4, FS_Subset
<1> QED
  BY <1>5 DEF R, Covers
-----------------------------------------------------------------------------
\* What FlattenSeq builds: one more sequence at a time.
Flattens(g, seqs, n) ==
  g = [i \in 1..n |-> IF i = 1 THEN seqs[i] ELSE g[i-1] \o seqs[i]]

(* It can be built for every length.                                       *)
LEMMA FlatExists ==
  ASSUME NEW seqs, NEW n \in Nat
  PROVE  \E g : Flattens(g, seqs, n)
<1> DEFINE T == {m \in Nat : ~ \E g : Flattens(g, seqs, m)}
<1> SUFFICES ASSUME T # {} PROVE FALSE
  OBVIOUS
<1>1. PICK m \in T : \A k \in T : m <= k
  BY LeastNatural
<1>2. m # 0
  <2> DEFINE e == [i \in 1..0 |-> <<>>]
  <2>1. Flattens(e, seqs, 0)
    BY DEF Flattens
  <2> QED
    BY <2>1
<1>3. m - 1 \in Nat /\ m - 1 \notin T
  BY <1>1, <1>2
<1>4. PICK g : Flattens(g, seqs, m - 1)
  BY <1>3
<1> DEFINE h == [i \in 1..m |-> IF i = m THEN (IF m = 1 THEN seqs[m] ELSE g[m-1] \o seqs[m]) ELSE g[i]]
<1>5. ASSUME NEW i \in 1..m
      PROVE  h[i] = IF i = 1 THEN seqs[i] ELSE h[i-1] \o seqs[i]
  <2>1. CASE i = 1 /\ m = 1
    BY <2>1
  <2>2. CASE i = 1 /\ m # 1
    <3>1. 1 \in 1..m-1 /\ h[1] = g[1]
      BY <1>2, <2>2
    <3>2. g[1] = seqs[1]
      BY <3>1, <1>4 DEF Flattens
    <3> QED
      BY <2>2, <3>1, <3>2
  <2>3. CASE i # 1 /\ i = m
    <3>1. i - 1 \in 1..m /\ i - 1 # m
      BY <2>3
    <3> QED
      BY <2>3, <3>1
  <2>4. CASE i # 1 /\ i # m
    <3>1. i \in 1..m-1 /\ i - 1 \in 1..m /\ i - 1 # m
      BY <2>4
    <3>2. h[i] = g[i] /\ h[i-1] = g[i-1]
      BY <3>1, <2>4
    <3>3. g[i] = g[i-1] \o seqs[i]
      BY <3>1, <2>4, <1>4 DEF Flattens
    <3> QED
      BY <2>4, <3>2, <3>3
  <2> QED
    BY <2>1, <2>2, <2>3, <2>4
<1>6. Flattens(h, seqs, m)
  <2>1. DOMAIN h = 1..m /\ h = [i \in 1..m |-> h[i]]
    OBVIOUS
  <2> HIDE DEF h
  <2> QED
    BY <1>5, <2>1 DEF Flattens
<1> QED
  BY <1>1, <1>6

(* What the recursive function in FlattenSeq is.                           *)
LEMMA FlatIs ==
  ASSUME NEW seqs, Len(seqs) \in Nat \ {0}
  PROVE  \E g : Flattens(g, seqs, Len(seqs)) /\ FlattenSeq(seqs) = g[Len(seqs)]
<1>1. PICK g : Flattens(g, seqs, Len(seqs))
  BY FlatExists
<1> DEFINE flatten == CHOOSE f : f = [i \in 1..Len(seqs) |-> IF i = 1 THEN seqs[i] ELSE f[i-1] \o seqs[i]]
<1>2. Flattens(flatten, seqs, Len(seqs))
  BY <1>1 DEF Flattens
<1>3. FlattenSeq(seqs) = flatten[Len(seqs)]
  BY Zenon DEF FlattenSeq
<1> QED
  BY <1>2, <1>3

\* o[i] elements come before the sequence after the i-th.
Offsets(o, seqs) ==
  /\ o[0] = 0
  /\ \A i \in 1..Len(seqs) : o[i] \in Nat /\ o[i] = o[i-1] + Len(seqs[i])

\* s has each of the sequences at its offset.
Concatenates(s, o, seqs) ==
  /\ Len(s) = o[Len(seqs)]
  /\ \A i \in 1..Len(seqs) : \A j \in 1..Len(seqs[i]) : s[o[i-1] + j] = seqs[i][j]

(* FlattenSeq puts the sequences one after the other.                      *)
LEMMA FlattenMeans ==
  ASSUME NEW S, NEW seqs \in Seq(Seq(S)), Len(seqs) # 0
  PROVE  /\ FlattenSeq(seqs) \in Seq(S)
         /\ \E o : Offsets(o, seqs) /\ Concatenates(FlattenSeq(seqs), o, seqs)
<1> DEFINE n == Len(seqs)
<1>1. n \in Nat \ {0} /\ \A i \in 1..n : seqs[i] \in Seq(S)
  OBVIOUS
<1> HIDE DEF n
<1>2. PICK g : Flattens(g, seqs, n) /\ FlattenSeq(seqs) = g[n]
  BY <1>1, FlatIs DEF n
<1>3. /\ g[1] = seqs[1]
      /\ \A i \in 1..n : i # 1 => g[i] = g[i-1] \o seqs[i]
  <2>1. g = [i \in 1..n |-> IF i = 1 THEN seqs[i] ELSE g[i-1] \o seqs[i]]
    BY <1>2, Zenon DEF Flattens
  <2>2. \A i \in 1..n : g[i] = IF i = 1 THEN seqs[i] ELSE g[i-1] \o seqs[i]
    BY <2>1, Zenon
  <2> QED
    <3>1. 1 \in 1..n
      BY <1>1
    <3> QED
      BY <2>2, <3>1, Zenon
<1> DEFINE o == [i \in 0..n |-> IF i = 0 THEN 0 ELSE Len(g[i])]
           Before(k) == \A i \in 1..k : \A j \in 1..Len(seqs[i]) :
                          /\ g[k][o[i-1] + j] = seqs[i][j]
                          /\ o[i-1] + j \in 1..Len(g[k])
           Good(k) == /\ g[k] \in Seq(S)
                      /\ o[k] \in Nat /\ o[k-1] \in Nat /\ o[k] = o[k-1] + Len(seqs[k])
                      /\ Before(k)
           Bad == {k \in 1..n : ~Good(k)}
<1>4. o[0] = 0 /\ \A i \in 1..n : o[i] = Len(g[i])
  BY <1>1
<1>5. Bad = {}
  <2> SUFFICES ASSUME Bad # {} PROVE FALSE
    OBVIOUS
  <2>1. PICK k \in Bad : \A l \in Bad : k <= l
    <3>1. Bad \in SUBSET Nat
      BY <1>1
    <3> HIDE DEF Bad
    <3> QED
      BY <3>1, LeastNatural
  <2>2. k \in 1..n /\ ~Good(k)
    BY <2>1
  <2> HIDE DEF o
  <2>3. CASE k = 1
    <3>1. g[1] = seqs[1] /\ seqs[1] \in Seq(S) /\ 1 \in 1..n
      BY <1>1, <1>3
    <3>2. o[1] = Len(seqs[1]) /\ o[0] = 0 /\ Len(seqs[1]) \in Nat
      BY <1>4, <3>1
    <3>3. Before(1)
      BY <3>1, <3>2
    <3>4. Good(1)
      BY <3>1, <3>2, <3>3
    <3> QED
      BY <2>2, <2>3, <3>4
  <2>4. CASE k # 1
    <3>1. k - 1 \in 1..n /\ k \in 1..n
      BY <2>2, <2>4, <1>1
    <3>2. Good(k - 1)
      BY <2>1, <3>1
    <3>3. g[k] = g[k-1] \o seqs[k] /\ g[k-1] \in Seq(S) /\ seqs[k] \in Seq(S)
      BY <3>1, <3>2, <2>4, <1>1, <1>3
    <3>4. /\ g[k] \in Seq(S)
          /\ Len(g[k]) = Len(g[k-1]) + Len(seqs[k])
          /\ Len(g[k-1]) \in Nat /\ Len(seqs[k]) \in Nat
          /\ \A q \in 1..Len(g[k-1]) : g[k][q] = g[k-1][q]
          /\ \A q \in 1..Len(seqs[k]) : g[k][Len(g[k-1]) + q] = seqs[k][q]
      <4> HIDE DEF Good
      <4>1. PICK u, s, t : u = g[k] /\ s = g[k-1] /\ t = seqs[k]
        BY Zenon
      <4>2. u = s \o t /\ s \in Seq(S) /\ t \in Seq(S)
        BY <3>3, <4>1, Zenon
      <4>3. PICK x, y : x = Len(s) /\ y = Len(t)
        BY Zenon
      <4>4. Joins(u, s, t) /\ x \in Nat /\ y \in Nat
        BY <4>2, <4>3, LenProperties DEF Joins
      <4>5. /\ u \in Seq(S) /\ Len(u) = x + y
            /\ \A q \in 1..x+y : u[q] = IF q <= x THEN s[q] ELSE t[q - x]
        BY <4>2, <4>3, <4>4, Concatenated
      <4>6. \A q \in 1..x : u[q] = s[q]
        BY <4>4, <4>5
      <4>7. \A q \in 1..y : u[x + q] = t[q]
        <5>1. ASSUME NEW q \in 1..y PROVE x + q \in 1..x+y /\ ~(x + q <= x) /\ (x + q) - x = q
          BY <4>4
        <5> QED
          BY <4>5, <5>1
      <4> QED
        BY <4>1, <4>3, <4>4, <4>5, <4>6, <4>7, Zenon
    <3>5. o[k] = Len(g[k]) /\ o[k-1] = Len(g[k-1])
      BY <1>4, <3>1
    <3>6. Len(g[k]) \in Nat /\ Len(g[k-1]) \in Nat /\ Len(seqs[k]) \in Nat
      <4>1. PICK a, b, c : a = Len(g[k]) /\ b = Len(g[k-1]) /\ c = Len(seqs[k])
        BY Zenon
      <4>2. a = b + c /\ b \in Nat /\ c \in Nat
        BY <3>4, <4>1, Zenon
      <4>3. a \in Nat
        BY <4>2
      <4> QED
        BY <4>1, <4>2, <4>3, Zenon
    <3>7. ASSUME NEW i \in 1..k, NEW j \in 1..Len(seqs[i])
          PROVE  g[k][o[i-1] + j] = seqs[i][j] /\ o[i-1] + j \in 1..Len(g[k])
      <4>1. CASE i = k
        <5>1. j \in 1..Len(seqs[k])
          BY <4>1
        <5>2. g[k][Len(g[k-1]) + j] = seqs[k][j] /\ o[i-1] = Len(g[k-1])
          BY <3>4, <3>5, <4>1, <5>1
        <5>3. Len(g[k-1]) + j \in 1..Len(g[k])
          <6>1. PICK a, b, c : a = Len(g[k]) /\ b = Len(g[k-1]) /\ c = Len(seqs[k])
            BY Zenon
          <6>2. a = b + c /\ b \in Nat /\ c \in Nat /\ j \in 1..c
            BY <3>4, <5>1, <6>1, Zenon
          <6>3. b + j \in 1..a
            BY <6>2
          <6> QED
            BY <6>1, <6>3, Zenon
        <5> QED
          BY <4>1, <5>2, <5>3
      <4>2. CASE i # k
        <5>1. i \in 1..k-1
          BY <4>2, <3>1
        <5>2. g[k-1][o[i-1] + j] = seqs[i][j] /\ o[i-1] + j \in 1..Len(g[k-1])
          BY <5>1, <3>2
        <5>3. g[k][o[i-1] + j] = g[k-1][o[i-1] + j]
          BY <5>2, <3>4
        <5>4. o[i-1] + j \in 1..Len(g[k])
          <6>1. PICK a, b, c, d : a = Len(g[k]) /\ b = Len(g[k-1]) /\ c = Len(seqs[k]) /\ d = o[i-1] + j
            BY Zenon
          <6>2. a = b + c /\ b \in Nat /\ c \in Nat /\ d \in 1..b
            BY <3>4, <5>2, <6>1, Zenon
          <6>3. d \in 1..a
            BY <6>2
          <6> QED
            BY <6>1, <6>3, Zenon
        <5> QED
          BY <5>2, <5>3, <5>4
      <4> QED
        BY <4>1, <4>2
    <3>8. Before(k)
      BY <3>7
    <3>9. Good(k)
      <4> HIDE DEF Before
      <4> QED
        BY <3>4, <3>5, <3>6, <3>8
    <3> HIDE DEF Good
    <3> QED
      BY <2>2, <3>9
  <2> QED
    BY <2>3, <2>4
<1>6. \A k \in 1..n : Good(k)
  BY <1>5
<1>7. Good(n)
  <2>1. n \in 1..n
    BY <1>1
  <2> HIDE DEF Good
  <2> QED
    BY <1>6, <2>1
<1> HIDE DEF o
<1>8. Offsets(o, seqs)
  BY <1>4, <1>6 DEF Offsets, n
<1>9. Concatenates(g[n], o, seqs)
  BY <1>1, <1>4, <1>7 DEF Concatenates, n
<1>10. g[n] \in Seq(S)
  BY <1>7
<1> QED
  BY <1>2, <1>8, <1>9, <1>10, Zenon

(* Offsets are determined by the lengths.                                  *)
LEMMA OffsetsSame ==
  ASSUME NEW seqs, Len(seqs) \in Nat, NEW o, NEW p, Offsets(o, seqs), Offsets(p, seqs)
  PROVE  \A i \in 0..Len(seqs) : o[i] = p[i]
<1> DEFINE n == Len(seqs)
           Bad == {i \in 0..n : o[i] # p[i]}
<1> SUFFICES ASSUME Bad # {} PROVE FALSE
  OBVIOUS
<1>1. PICK k \in Bad : \A l \in Bad : k <= l
  <2>1. Bad \in SUBSET Nat
    OBVIOUS
  <2> HIDE DEF Bad
  <2> QED
    BY <2>1, LeastNatural
<1>2. k # 0
  BY DEF Offsets
<1>3. k - 1 \in 0..n /\ k \in 1..n /\ o[k-1] = p[k-1]
  BY <1>1, <1>2
<1> QED
  BY <1>1, <1>3 DEF Offsets

Located(q, o, seqs) == \E i \in 1..Len(seqs) : \E j \in 1..Len(seqs[i]) : q = o[i-1] + j

(* An index of the concatenation is in one of the sequences.               *)
LEMMA OffsetOf ==
  ASSUME NEW seqs, Len(seqs) \in Nat, \A i \in 1..Len(seqs) : Len(seqs[i]) \in Nat,
         NEW o, Offsets(o, seqs), NEW q \in 1..o[Len(seqs)]
  PROVE  Located(q, o, seqs)
<1> DEFINE n == Len(seqs)
           Reached == {i \in 0..n : q <= o[i]}
<1>1. \A i \in 0..n : o[i] \in Nat
  BY DEF Offsets
<1>2. n \in Reached
  BY <1>1
<1>3. PICK i \in Reached : \A l \in Reached : i <= l
  <2>1. Reached \in SUBSET Nat /\ Reached # {}
    BY <1>2
  <2> HIDE DEF Reached
  <2> QED
    BY <2>1, LeastNatural
<1>4. i # 0
  BY <1>3, <1>1 DEF Offsets
<1>5. i \in 1..n /\ i - 1 \in 0..n /\ i - 1 \notin Reached
  BY <1>3, <1>4
<1>6. o[i-1] < q /\ q <= o[i] /\ o[i] = o[i-1] + Len(seqs[i]) /\ o[i-1] \in Nat
  BY <1>1, <1>3, <1>5 DEF Offsets
<1>7. q - o[i-1] \in 1..Len(seqs[i]) /\ q = o[i-1] + (q - o[i-1])
  BY <1>5, <1>6
<1> QED
  BY <1>5, <1>7 DEF Located

(* What a concatenation is, when its offsets are known.                    *)
LEMMA FlattenIs ==
  ASSUME NEW S, NEW seqs \in Seq(Seq(S)), Len(seqs) # 0, NEW T \in Seq(S),
         NEW o, Offsets(o, seqs), Concatenates(T, o, seqs)
  PROVE  FlattenSeq(seqs) = T
<1> DEFINE F == FlattenSeq(seqs)
           n == Len(seqs)
<1>1. F \in Seq(S) /\ \E p : Offsets(p, seqs) /\ Concatenates(F, p, seqs)
  BY FlattenMeans, Zenon
<1> HIDE DEF F
<1>2. PICK p : Offsets(p, seqs) /\ Concatenates(F, p, seqs)
  BY <1>1
<1>3. n \in Nat /\ \A i \in 1..n : Len(seqs[i]) \in Nat
  OBVIOUS
<1>4. \A i \in 0..n : p[i] = o[i]
  BY <1>2, <1>3, OffsetsSame
<1>5. o[n] \in Nat
  BY <1>3 DEF Offsets
<1>6. DOMAIN F = 1..o[n] /\ F = [q \in 1..o[n] |-> F[q]]
  <2>1. n \in 0..n
    BY <1>3
  <2>2. p[n] = o[n]
    BY <1>4, <2>1
  <2>3. Len(F) = o[n]
    BY <1>2, <2>2 DEF Concatenates
  <2> QED
    BY <1>1, <2>3
<1>7. ASSUME NEW q \in 1..o[n] PROVE F[q] = T[q]
  <2>1. PICK i \in 1..n : \E j \in 1..Len(seqs[i]) : q = o[i-1] + j
    <3>1. Len(seqs) \in Nat /\ \A i \in 1..Len(seqs) : Len(seqs[i]) \in Nat
      BY <1>3
    <3>2. q \in 1..o[Len(seqs)]
      OBVIOUS
    <3>3. Located(q, o, seqs)
      BY <3>1, <3>2, OffsetOf
    <3> QED
      BY <3>3, Zenon DEF Located
  <2>2. PICK j \in 1..Len(seqs[i]) : q = o[i-1] + j
    BY <2>1
  <2>3. p[i-1] = o[i-1]
    <3>1. i - 1 \in 0..n
      BY <1>3
    <3> QED
      BY <1>4, <3>1
  <2>4. F[p[i-1] + j] = seqs[i][j]
    BY <1>2, <2>1, <2>2 DEF Concatenates
  <2>5. T[o[i-1] + j] = seqs[i][j]
    BY <2>1, <2>2 DEF Concatenates
  <2> QED
    BY <2>2, <2>3, <2>4, <2>5
<1>8. DOMAIN T = 1..o[n] /\ T = [q \in 1..o[n] |-> T[q]]
  BY DEF Concatenates
<1>9. F = T
  BY <1>6, <1>7, <1>8
<1> QED
  BY <1>9 DEF F

(* Division with remainder.                                                *)
LEMMA DivMod ==
  ASSUME NEW n \in Nat, NEW k \in Nat \ {0}
  PROVE  /\ n \div k \in Nat /\ n % k \in 0..k-1
         /\ n = k * (n \div k) + (n % k)
OBVIOUS

(* A product grows by the other factor at least.                           *)
LEMMA TimesGrows ==
  ASSUME NEW k \in Nat, NEW a \in Int, NEW b \in Int, a < b
  PROVE  k * a + k <= k * b
OBVIOUS

(* The least number of a set.                                              *)
LEMMA MinIs ==
  ASSUME NEW S \in SUBSET Int, NEW m \in S, \A x \in S : m <= x
  PROVE  Min(S) = m
<1>1. Min(S) \in S /\ \A x \in S : Min(S) <= x
  BY DEF Min
<1>2. Min(S) <= m /\ m <= Min(S) /\ Min(S) \in Int
  BY <1>1
<1> QED
  BY <1>2

(* The least of two numbers.                                               *)
LEMMA MinOfTwo ==
  ASSUME NEW a \in Int, NEW b \in Int
  PROVE  Min({a, b}) = IF a <= b THEN a ELSE b
<1>1. PICK m \in {a, b} : \A y \in {a, b} : m <= y
  <2>1. CASE a <= b
    BY <2>1
  <2>2. CASE ~(a <= b)
    BY <2>2
  <2> QED
    BY <2>1, <2>2
<1>2. /\ Min({a, b}) \in {a, b}
      /\ \A y \in {a, b} : Min({a, b}) <= y
  BY <1>1 DEF Min
<1> QED
  BY <1>2

(* A quotient rounded up.                                                  *)
LEMMA CeilDiv ==
  ASSUME NEW n \in Nat, NEW k \in Nat \ {0}, NEW c, c = (n + k - 1) \div k
  PROVE  /\ c \in Nat /\ n <= k * c
         /\ (n # 0 => c # 0 /\ k * (c - 1) < n)
         /\ \A i \in 1..c : i # c => k * i < n
         /\ \A i \in 1..c : k * (i - 1) < n
<1> DEFINE m == n + k - 1
<1>1. m \in Nat
  OBVIOUS
<1> HIDE DEF m
<1>2. /\ m \div k \in Nat /\ m % k \in 0..k-1
      /\ m = k * (m \div k) + (m % k)
  BY <1>1, DivMod
<1>3. PICK r \in 0..k-1 : m = k * c + r /\ c \in Nat
  BY <1>2 DEF m
<1>4. PICK p : p = k * c /\ p \in Int
  BY <1>3
<1>5. n <= p /\ p < n + k
  BY <1>3, <1>4 DEF m
<1>6. n # 0 => c # 0
  BY <1>3, <1>4, <1>5
<1>7. k * (c - 1) = p - k
  BY <1>3, <1>4
<1>8. p - k < n
  BY <1>4, <1>5
<1>9. ASSUME NEW i \in 1..c, i # c PROVE k * i < n
  <2>1. i < c /\ i \in Int
    BY <1>3, <1>9
  <2>2. k * i + k <= k * c /\ k * i \in Int
    BY <1>3, <2>1, TimesGrows
  <2> QED
    BY <1>4, <1>5, <2>2
<1>10. ASSUME NEW i \in 1..c PROVE k * (i - 1) < n
  <2>1. CASE i = c
    BY <2>1, <1>7, <1>8
  <2>2. CASE i # c
    <3>1. k * i < n /\ k * (i - 1) = k * i - k /\ k * i \in Int
      BY <1>3, <1>9, <2>2
    <3> QED
      BY <3>1
  <2> QED
    BY <2>1, <2>2
<1> QED
  BY <1>3, <1>4, <1>5, <1>6, <1>7, <1>8, <1>9, <1>10

\* seqs are the slices of s of k elements each, the last one of what is left.
Slices(seqs, s, n, k) ==
  /\ Len(seqs) = (n + k - 1) \div k
  /\ \A i \in 1..Len(seqs) :
       /\ Len(seqs[i]) = IF k <= n - k * (i - 1) THEN k ELSE n - k * (i - 1)
       /\ \A j \in 1..Len(seqs[i]) : seqs[i][j] = s[k * (i - 1) + j]

(* Slices one after the other are what was cut into them.                  *)
LEMMA SlicesFlatten ==
  ASSUME NEW S, NEW seqs \in Seq(Seq(S)), NEW n \in Nat \ {0}, NEW k \in Nat \ {0},
         NEW s \in Seq(S), Len(s) = n, Slices(seqs, s, n, k)
  PROVE  FlattenSeq(seqs) = s
<1> DEFINE c == Len(seqs)
           o == [i \in 0..c |-> IF i # c THEN k * i ELSE n]
<1>1. /\ c \in Nat \ {0} /\ n <= k * c
      /\ \A i \in 1..c : i # c => k * i < n
      /\ \A i \in 1..c : k * (i - 1) < n
  BY CeilDiv DEF Slices
<1>2. ASSUME NEW i \in 1..c
      PROVE  /\ o[i-1] = k * (i - 1) /\ o[i-1] \in Nat
             /\ o[i] \in Nat /\ o[i] = o[i-1] + Len(seqs[i])
  <2>1. i \in 0..c /\ i - 1 \in 0..c /\ i - 1 # c /\ i \in Nat /\ i - 1 \in Nat
    BY <1>1
  <2>2. PICK p : p = k * (i - 1) /\ p \in Nat
    <3>1. PICK h : h = i - 1 /\ h \in Nat
      BY <2>1
    <3>2. k * h \in Nat
      BY <3>1
    <3> QED
      BY <3>1, <3>2, Zenon
  <2>3. o[i-1] = p
    BY <2>1, <2>2
  <2>4. k * i = p + k
    BY <2>1, <2>2
  <2>5. p < n /\ Len(seqs[i]) = IF k <= n - p THEN k ELSE n - p
    BY <1>1, <2>2 DEF Slices
  <2>6. CASE i = c
    <3>1. o[i] = n /\ n <= p + k
      BY <1>1, <2>1, <2>4, <2>6
    <3>2. Len(seqs[i]) = n - p
      BY <2>2, <2>5, <3>1
    <3> HIDE DEF o
    <3> QED
      BY <2>2, <2>3, <2>5, <3>1, <3>2
  <2>7. CASE i # c
    <3>1. o[i] = p + k /\ p + k < n
      BY <1>1, <2>1, <2>4, <2>7
    <3>2. Len(seqs[i]) = k
      BY <2>2, <2>5, <3>1
    <3> HIDE DEF o
    <3> QED
      BY <2>2, <2>3, <3>1, <3>2
  <2> QED
    BY <2>6, <2>7
<1>3. o[c] = n /\ o[0] = 0
  BY <1>1
<1> HIDE DEF o
<1>4. Offsets(o, seqs)
  BY <1>2, <1>3 DEF Offsets
<1>5. Concatenates(s, o, seqs)
  BY <1>2, <1>3 DEF Slices, Concatenates
<1>6. Len(seqs) # 0
  BY <1>1
<1> QED
  BY <1>4, <1>5, <1>6, FlattenIs
=============================================================================
