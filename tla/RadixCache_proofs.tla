------------------------- MODULE RadixCache_proofs -------------------------
(***************************************************************************)
(* Proofs about RadixCache.                                                *)
(***************************************************************************)
EXTENDS RadixCache, SharedLemmas

-----------------------------------------------------------------------------
(* Names of nodes under the prefix order.                                  *)

Names == Seq(Tokens)

(* The prefix of a sequence of a given length.                             *)
LEMMA Truncated ==
  ASSUME NEW S, NEW s \in Seq(S), NEW n \in 0..Len(s)
  PROVE  /\ SubSeq(s, 1, n) \in Seq(S)
         /\ Len(SubSeq(s, 1, n)) = n
         /\ \A i \in 1..n : SubSeq(s, 1, n)[i] = s[i]
<1>1. n \in Int /\ 1 \in Int /\ \A i \in 1..n : s[i] \in S
  BY ElementOfSeq, LenProperties
<1>2. /\ SubSeq(s, 1, n) \in Seq(S)
      /\ Len(SubSeq(s, 1, n)) = IF 1 <= n THEN n - 1 + 1 ELSE 0
      /\ \A i \in 1..n-1+1 : SubSeq(s, 1, n)[i] = s[1 + i - 1]
  BY <1>1, SubSeqProperties
<1>3. n \in Nat
  BY LenProperties
<1> QED
  BY <1>2, <1>3

(* Prefixes agree position by position.                                    *)
LEMMA PrefixMeans ==
  ASSUME NEW S, NEW s \in Seq(S), NEW t \in Seq(S)
  PROVE  IsPrefix(s, t) <=> Len(s) <= Len(t) /\ \A i \in 1..Len(s) : s[i] = t[i]
<1>1. SubSeq(s, 1, Len(s)) = s /\ Len(s) \in Nat /\ Len(t) \in Nat
  BY SubSeqFull, LenProperties
<1> SUFFICES ASSUME Len(s) <= Len(t)
             PROVE  s = SubSeq(t, 1, Len(s)) <=> \A i \in 1..Len(s) : s[i] = t[i]
  BY <1>1 DEF IsPrefix
<1>2. /\ SubSeq(t, 1, Len(s)) \in Seq(S)
      /\ Len(SubSeq(t, 1, Len(s))) = Len(s)
      /\ \A i \in 1..Len(s) : SubSeq(t, 1, Len(s))[i] = t[i]
  <2>1. Len(s) \in 0..Len(t)
    BY <1>1
  <2> QED
    BY <2>1, Truncated
<1>3. ASSUME \A i \in 1..Len(s) : s[i] = t[i] PROVE s = SubSeq(t, 1, Len(s))
  <2> DEFINE u == SubSeq(t, 1, Len(s))
  <2>1. u \in Seq(S) /\ Len(s) = Len(u) /\ \A i \in 1..Len(s) : s[i] = u[i]
    BY <1>2, <1>3
  <2> HIDE DEF u
  <2>2. s = u
    BY <2>1, SeqEqual
  <2> QED
    BY <2>2 DEF u
<1> QED
  BY <1>2, <1>3

(* The prefix order.                                                       *)
LEMMA PrefixOrder ==
  /\ \A p \in Names : IsPrefix(p, p) /\ IsPrefix(<<>>, p) /\ Len(p) \in Nat
  /\ \A p, q \in Names : IsPrefix(p, q) => Len(p) <= Len(q)
  /\ \A p, q \in Names : IsPrefix(p, q) /\ Len(q) <= Len(p) => p = q
  /\ \A p, q, x \in Names : IsPrefix(p, q) /\ IsPrefix(q, x) => IsPrefix(p, x)
  /\ \A p, q, x \in Names : IsPrefix(p, x) /\ IsPrefix(q, x) /\ Len(p) <= Len(q) => IsPrefix(p, q)
  /\ <<>> \in Names /\ \A p \in Names : Len(p) = 0 <=> p = <<>>
<1> USE DEF Names
<1>0. <<>> \in Names /\ Len(<<>>) = 0 /\ \A p \in Names : Len(p) \in Nat /\ (Len(p) = 0 <=> p = <<>>)
  BY EmptySeq, LenProperties
<1>m. \A p, q \in Names : IsPrefix(p, q) <=> Len(p) <= Len(q) /\ \A i \in 1..Len(p) : p[i] = q[i]
  BY PrefixMeans
<1>1. \A p \in Names : IsPrefix(p, p) /\ IsPrefix(<<>>, p)
  <2>1. ASSUME NEW p \in Names PROVE IsPrefix(p, p)
    <3>1. Len(p) <= Len(p) /\ \A i \in 1..Len(p) : p[i] = p[i]
      BY <1>0
    <3> QED
      BY <3>1, <1>m
  <2>2. ASSUME NEW p \in Names PROVE IsPrefix(<<>>, p)
    <3> DEFINE e == <<>>
    <3>1. e \in Names /\ Len(e) <= Len(p) /\ \A i \in 1..Len(e) : e[i] = p[i]
      BY <1>0
    <3> HIDE DEF e
    <3>2. IsPrefix(e, p)
      BY <3>1, <1>m
    <3> QED
      BY <3>2 DEF e
  <2> QED
    BY <2>1, <2>2
<1>2. \A p, q \in Names : IsPrefix(p, q) => Len(p) <= Len(q)
  BY <1>m
<1>3. ASSUME NEW p \in Names, NEW q \in Names, IsPrefix(p, q), Len(q) <= Len(p) PROVE p = q
  <2>1. Len(p) = Len(q) /\ \A i \in 1..Len(p) : p[i] = q[i]
    BY <1>0, <1>3, <1>m
  <2> QED
    BY <2>1, SeqEqual
<1>4. ASSUME NEW p \in Names, NEW q \in Names, NEW x \in Names, IsPrefix(p, q), IsPrefix(q, x)
      PROVE  IsPrefix(p, x)
  <2>1. Len(p) <= Len(x) /\ \A i \in 1..Len(p) : p[i] = x[i]
    BY <1>0, <1>4, <1>m
  <2> QED
    BY <2>1, <1>m
<1>5. ASSUME NEW p \in Names, NEW q \in Names, NEW x \in Names,
             IsPrefix(p, x), IsPrefix(q, x), Len(p) <= Len(q)
      PROVE  IsPrefix(p, q)
  <2>1. \A i \in 1..Len(p) : p[i] = q[i]
    BY <1>0, <1>5, <1>m
  <2> QED
    BY <1>5, <2>1, <1>m
<1> QED
  BY <1>0, <1>1, <1>2, <1>3, <1>4, <1>5

(* The prefix of a name of a given length, in terms of the order.          *)
LEMMA Cuts ==
  ASSUME NEW p \in Names, NEW n \in 0..Len(p)
  PROVE  /\ SubSeq(p, 1, n) \in Names /\ Len(SubSeq(p, 1, n)) = n
         /\ IsPrefix(SubSeq(p, 1, n), p)
         /\ \A q \in Names : IsPrefix(q, p) /\ Len(q) = n => q = SubSeq(p, 1, n)
<1> DEFINE c == SubSeq(p, 1, n)
<1>1. c \in Names /\ Len(c) = n /\ \A i \in 1..n : c[i] = p[i]
  BY Truncated DEF Names
<1> HIDE DEF c
<1>2. IsPrefix(c, p)
  <2>1. Len(p) \in Nat
    BY PrefixOrder
  <2> QED
    BY <2>1, <1>1, PrefixMeans DEF Names
<1>3. ASSUME NEW q \in Names, IsPrefix(q, p), Len(q) = n PROVE q = c
  <2>1. IsPrefix(q, c)
    BY <1>1, <1>2, <1>3, PrefixOrder
  <2> QED
    BY <2>1, <1>1, <1>3, PrefixOrder
<1> QED
  BY <1>1, <1>2, <1>3 DEF c
-----------------------------------------------------------------------------
(* The nodes of a tree.                                                    *)

(* c is the longest common prefix of p and q.                              *)
IsMeet(c, p, q) ==
  /\ IsPrefix(c, p) /\ IsPrefix(c, q)
  /\ \A d \in Names : IsPrefix(d, p) /\ IsPrefix(d, q) => IsPrefix(d, c)

(* Where two nodes part there is a node.                                   *)
NodesBranch(D) ==
  /\ IsFiniteSet(D)
  /\ D \subseteq Names \ {<<>>}
  /\ \A p, q \in D : \A c \in Names \ {<<>>} : IsMeet(c, p, q) => c \in D

(* Two names have a longest common prefix.                                 *)
LEMMA MeetExists ==
  ASSUME NEW p \in Names, NEW q \in Names
  PROVE  \E c \in Names : IsMeet(c, p, q)
<1> DEFINE F == {n \in 0..Len(p) : IsPrefix(SubSeq(p, 1, n), q)}
           at(n) == SubSeq(p, 1, n)
<1>0. Len(p) \in Nat /\ F \in SUBSET Nat /\ \A n \in F : n <= Len(p)
  BY PrefixOrder
<1>1. \A n \in 0..Len(p) : /\ at(n) \in Names /\ Len(at(n)) = n /\ IsPrefix(at(n), p)
                           /\ \A d \in Names : IsPrefix(d, p) /\ Len(d) = n => d = at(n)
  BY Cuts
<1>2. 0 \in F
  <2>1. 0 \in 0..Len(p)
    BY <1>0
  <2>2. at(0) = <<>>
    BY <1>1, <2>1, PrefixOrder
  <2> QED
    BY <2>1, <2>2, PrefixOrder
<1>3. PICK m \in F : \A n \in F : n <= m
  <2> HIDE DEF F
  <2> QED
    BY <1>0, <1>2, GreatestNatural
<1>4. m \in 0..Len(p) /\ IsPrefix(at(m), q)
  OBVIOUS
<1>5. ASSUME NEW d \in Names, IsPrefix(d, p), IsPrefix(d, q) PROVE IsPrefix(d, at(m))
  <2>1. Len(d) \in 0..Len(p)
    BY <1>5, PrefixOrder
  <2>2. d = at(Len(d))
    BY <1>1, <1>5, <2>1
  <2>3. Len(d) \in F
    BY <1>5, <2>1, <2>2
  <2>4. Len(d) <= m
    BY <1>3, <2>3
  <2> HIDE DEF at
  <2> QED
    BY <1>1, <1>4, <1>5, <2>4, PrefixOrder
<1> QED
  BY <1>1, <1>4, <1>5 DEF IsMeet

(* n is the length of the longest node above p, 0 if there is none.        *)
LengthAbove(D, p, n) ==
  /\ n \in Nat
  /\ \A a \in D : IsPrefix(a, p) /\ a # p => Len(a) <= n
  /\ n = 0 \/ \E a \in D : IsPrefix(a, p) /\ a # p /\ Len(a) = n

(* ParentLen in terms of the order.                                        *)
LEMMA ParentLenMeans ==
  ASSUME NEW t, DOMAIN t \subseteq Names, NEW p \in Names
  PROVE  /\ LengthAbove(DOMAIN t, p, ParentLen(t, p))
         /\ \A n : LengthAbove(DOMAIN t, p, n) => n = ParentLen(t, p)
<1> DEFINE A == {a \in DOMAIN t : IsPrefix(a, p) /\ a # p}
           L == {0} \cup {Len(a) : a \in A}
<1>1. ParentLen(t, p) = Max(L)
  <2>1. Ancestors(t, p) \ {p} = A
    BY DEF Ancestors
  <2> QED
    BY <2>1, Zenon DEF ParentLen
<1>2. L \in SUBSET Nat /\ \A x \in L : x <= Len(p)
  <2>1. \A a \in A : Len(a) \in Nat /\ Len(a) <= Len(p)
    BY PrefixOrder
  <2>2. Len(p) \in Nat
    BY PrefixOrder
  <2> HIDE DEF A
  <2> QED
    BY <2>1, <2>2
<1>3. PICK m \in L : \A x \in L : x <= m
  <2>1. L # {} /\ Len(p) \in Nat
    BY PrefixOrder
  <2> HIDE DEF L
  <2> QED
    BY <1>2, <2>1, GreatestNatural
<1>4. Max(L) \in L /\ \A x \in L : Max(L) >= x
  <2>1. m \in L /\ \A x \in L : m >= x
    BY <1>2, <1>3
  <2> HIDE DEF L
  <2> QED
    BY <2>1 DEF Max
<1> DEFINE k == Max(L)
<1>5. k \in L /\ (\A x \in L : x <= k) /\ k \in Nat
  BY <1>2, <1>4
<1> HIDE DEF k
<1>6. LengthAbove(DOMAIN t, p, k)
  BY <1>5 DEF LengthAbove
<1>7. ASSUME NEW n, LengthAbove(DOMAIN t, p, n) PROVE n = k
  <2>1. n \in Nat /\ n \in L /\ \A x \in L : x <= n
    BY <1>7 DEF LengthAbove
  <2> HIDE DEF L
  <2> QED
    BY <1>5, <2>1
<1> QED
  BY <1>1, <1>6, <1>7, Zenon DEF k

(* A node is longer than what is above it.                                 *)
LEMMA ParentShorter ==
  ASSUME NEW t, DOMAIN t \subseteq Names, NEW p \in Names \ {<<>>}
  PROVE  ParentLen(t, p) \in Nat /\ ParentLen(t, p) < Len(p)
<1>1. LengthAbove(DOMAIN t, p, ParentLen(t, p))
  BY ParentLenMeans
<1>2. Len(p) \in Nat /\ Len(p) # 0
  BY PrefixOrder
<1>3. ASSUME NEW a \in DOMAIN t, IsPrefix(a, p), a # p PROVE Len(a) \in Nat /\ Len(a) < Len(p)
  BY <1>3, <1>2, PrefixOrder
<1> QED
  BY <1>1, <1>2, <1>3 DEF LengthAbove

(* A nonempty prefix of a node: a token in the tree.                       *)
IsPosition(t, q) == q \in Names /\ q # <<>> /\ \E p \in DOMAIN t : IsPrefix(q, p)

(* c is the node whose edge q lies on.                                     *)
OnEdge(t, q, c) ==
  /\ c \in DOMAIN t /\ IsPrefix(q, c)
  /\ \A p \in DOMAIN t : IsPrefix(q, p) => IsPrefix(c, p)

(* Every position lies on one edge, that of the first node below it.       *)
LEMMA CutChildMeans ==
  ASSUME NEW t, NodesBranch(DOMAIN t), NEW q, IsPosition(t, q)
  PROVE  /\ OnEdge(t, q, CutChild(t, q))
         /\ \A c : OnEdge(t, q, c) => c = CutChild(t, q)
         /\ ParentLen(t, CutChild(t, q)) < Len(q)
<1> DEFINE D == DOMAIN t
           B == {p \in D : IsPrefix(q, p)}
           c == CutChild(t, q)
<1>0. D \subseteq Names \ {<<>>} /\ q \in Names \ {<<>>} /\ B # {}
  BY DEF NodesBranch, IsPosition
<1>1. PICK b \in B : \A p \in B : Len(b) <= Len(p)
  <2> DEFINE L == {Len(p) : p \in B}
  <2>1. L \in SUBSET Nat /\ L # {}
    <3>1. \A p \in B : Len(p) \in Nat
      BY <1>0, PrefixOrder
    <3> HIDE DEF B
    <3> QED
      BY <1>0, <3>1
  <2> HIDE DEF L
  <2>2. PICK m \in L : \A k \in L : m <= k
    BY <2>1, LeastNatural
  <2> HIDE DEF B
  <2> QED
    BY <2>2 DEF L
<1>2. c \in B /\ \A p \in B : Len(c) <= Len(p)
  <2>1. Below(t, q) = B
    BY DEF Below
  <2> HIDE DEF B
  <2> QED
    BY <1>1, <2>1 DEF CutChild
<1> HIDE DEF c
<1>3. ASSUME NEW p \in D, IsPrefix(q, p) PROVE IsPrefix(c, p)
  <2>1. PICK d \in Names : IsMeet(d, c, p)
    BY <1>0, <1>2, MeetExists
  <2>2. IsPrefix(q, d) /\ IsPrefix(d, c) /\ IsPrefix(d, p)
    BY <1>0, <1>2, <1>3, <2>1 DEF IsMeet
  <2>3. d # <<>>
    BY <1>0, <2>1, <2>2, PrefixOrder
  <2>4. d \in D
    BY <1>2, <2>1, <2>3 DEF NodesBranch
  <2>5. Len(c) <= Len(d)
    BY <1>2, <2>2, <2>4
  <2>6. d = c
    BY <1>0, <1>2, <2>1, <2>2, <2>5, PrefixOrder
  <2> QED
    BY <2>2, <2>6
<1>4. OnEdge(t, q, c)
  BY <1>2, <1>3 DEF OnEdge
<1>5. ASSUME NEW d, OnEdge(t, q, d) PROVE d = c
  <2>1. d \in D /\ IsPrefix(c, d) /\ IsPrefix(d, c)
    BY <1>4, <1>5 DEF OnEdge
  <2>2. d \in Names /\ c \in Names
    BY <1>0, <1>2, <2>1
  <2>3. Len(c) <= Len(d) /\ Len(d) <= Len(c)
    BY <2>1, <2>2, PrefixOrder
  <2> QED
    BY <2>1, <2>2, <2>3, PrefixOrder
<1>6. ParentLen(t, c) < Len(q)
  <2>1. LengthAbove(D, c, ParentLen(t, c))
    BY <1>0, <1>2, ParentLenMeans
  <2>2. Len(q) \in Nat /\ Len(q) # 0
    BY <1>0, PrefixOrder
  <2>3. ASSUME NEW a \in D, IsPrefix(a, c), a # c, Len(q) <= Len(a) PROVE FALSE
    <3>1. IsPrefix(q, a)
      BY <1>0, <1>2, <2>3, PrefixOrder
    <3>2. Len(c) <= Len(a)
      BY <1>2, <2>3, <3>1
    <3> QED
      BY <1>0, <1>2, <2>3, <3>2, PrefixOrder
  <2>4. \A a \in D : Len(a) \in Nat
    BY <1>0, PrefixOrder
  <2> QED
    BY <2>1, <2>2, <2>3, <2>4 DEF LengthAbove
<1> QED
  BY <1>4, <1>5, <1>6 DEF c
-----------------------------------------------------------------------------
(* Trees.                                                                  *)

(* An edge holds one slot for each of its tokens.                          *)
TreeShape(t) ==
  /\ NodesBranch(DOMAIN t)
  /\ \A p \in DOMAIN t : /\ t[p] \in [value : Seq(Slots), lock_ref : Int]
                         /\ Len(t[p].value) = Len(p) - ParentLen(t, p)

(* In a tree the slot of a position is on its edge.                        *)
LEMMA SlotOfMeans ==
  ASSUME NEW t, TreeShape(t), NEW q, IsPosition(t, q), NEW c, OnEdge(t, q, c)
  PROVE  /\ SlotOf(t, q) = t[c].value[Len(q) - ParentLen(t, c)]
         /\ Len(q) - ParentLen(t, c) \in 1..Len(t[c].value)
         /\ SlotOf(t, q) \in Slots
<1>0. NodesBranch(DOMAIN t) /\ DOMAIN t \subseteq Names \ {<<>>} /\ c \in DOMAIN t /\ q \in Names
  BY DEF TreeShape, NodesBranch, OnEdge, IsPosition
<1>1. c = CutChild(t, q) /\ ParentLen(t, c) < Len(q)
  BY <1>0, CutChildMeans
<1>2. Len(q) <= Len(c) /\ ParentLen(t, c) \in Nat /\ Len(q) \in Nat /\ Len(c) \in Nat
  BY <1>0, ParentShorter, PrefixOrder DEF OnEdge
<1>3. Len(t[c].value) = Len(c) - ParentLen(t, c) /\ t[c].value \in Seq(Slots)
  BY <1>0 DEF TreeShape
<1>4. Len(q) - ParentLen(t, c) \in 1..Len(t[c].value)
  BY <1>1, <1>2, <1>3
<1>5. t[c].value[Len(q) - ParentLen(t, c)] \in Slots
  BY <1>3, <1>4, ElementOfSeq
<1> QED
  BY <1>1, <1>4, <1>5, Zenon DEF SlotOf

(* The two halves of the edge that is cut at u, k tokens below its start.  *)
SplitsAt(t, t2, u, c, k, l) ==
  /\ DOMAIN t2 = DOMAIN t \cup {u}
  /\ t2[u] \in [value : Seq(Slots), lock_ref : Int]
  /\ t2[c] \in [value : Seq(Slots), lock_ref : Int]
  /\ t2[u].lock_ref = l /\ t2[c].lock_ref = t[c].lock_ref
  /\ Len(t2[u].value) = k /\ Len(t2[c].value) = Len(t[c].value) - k
  /\ \A i \in 1..k : t2[u].value[i] = t[c].value[i]
  /\ \A i \in 1..Len(t[c].value) - k : t2[c].value[i] = t[c].value[k + i]
  /\ \A p \in DOMAIN t : p # c => t2[p] = t[p]

(* The rest of a sequence after its first n elements.                      *)
LEMMA Dropped ==
  ASSUME NEW S, NEW s \in Seq(S), NEW n \in 0..Len(s)
  PROVE  /\ SubSeq(s, n + 1, Len(s)) \in Seq(S)
         /\ Len(SubSeq(s, n + 1, Len(s))) = Len(s) - n
         /\ \A i \in 1..Len(s) - n : SubSeq(s, n + 1, Len(s))[i] = s[n + i]
<1> DEFINE m == n + 1
           l == Len(s)
<1>1. m \in Int /\ l \in Int /\ n \in 0..l /\ \A i \in m..l : s[i] \in S
  BY ElementOfSeq, LenProperties
<1> HIDE DEF m, l
<1>2. /\ SubSeq(s, m, l) \in Seq(S)
      /\ Len(SubSeq(s, m, l)) = IF m <= l THEN l - m + 1 ELSE 0
      /\ \A i \in 1..l-m+1 : SubSeq(s, m, l)[i] = s[m + i - 1]
  BY <1>1, SubSeqProperties
<1>3. m = n + 1 /\ \A i \in 1..l-n : i \in 1..l-m+1 /\ m + i - 1 = n + i
  BY <1>1 DEF m
<1>4. Len(SubSeq(s, m, l)) = l - n /\ \A i \in 1..l - n : SubSeq(s, m, l)[i] = s[n + i]
  BY <1>1, <1>2, <1>3
<1> QED
  BY <1>2, <1>4 DEF m, l

(* What a split does.                                                      *)
LEMMA SplitMeans ==
  ASSUME NEW t, TreeShape(t), NEW u, IsPosition(t, u), u \notin DOMAIN t, NEW l \in Int,
         NEW c, c = CutChild(t, u), NEW k, k = Len(u) - ParentLen(t, c)
  PROVE  SplitsAt(t, Split(t, u, l), u, c, k, l) /\ k \in 1..Len(t[c].value)
<1> DEFINE v == t[c].value
           t2 == Split(t, u, l)
<1>1. u # <<>> /\ c \in DOMAIN t /\ v \in Seq(Slots) /\ t[c].lock_ref \in Int
  BY CutChildMeans DEF IsPosition, TreeShape, OnEdge
<1>2. k \in 1..Len(v)
  BY SlotOfMeans, CutChildMeans DEF TreeShape
<1>3. t2 = [p \in DOMAIN t \cup {u} |->
              CASE p = u -> Node(SubSeq(v, 1, k), l)
                [] p = c -> Node(SubSeq(v, k + 1, Len(v)), t[c].lock_ref)
                [] OTHER -> t[p]]
  BY <1>1 DEF Split
<1> HIDE DEF t2, v
<1>4. u # c /\ k \in 0..Len(v) /\ k \in Nat /\ Len(v) \in Nat
  BY <1>1, <1>2, LenProperties
<1>5. SubSeq(v, 1, k) \in Seq(Slots) /\ Len(SubSeq(v, 1, k)) = k /\ \A i \in 1..k : SubSeq(v, 1, k)[i] = v[i]
  BY <1>1, <1>4, Truncated
<1>6. /\ SubSeq(v, k + 1, Len(v)) \in Seq(Slots) /\ Len(SubSeq(v, k + 1, Len(v))) = Len(v) - k
      /\ \A i \in 1..Len(v) - k : SubSeq(v, k + 1, Len(v))[i] = v[k + i]
  BY <1>1, <1>4, Dropped
<1>7. DOMAIN t2 = DOMAIN t \cup {u} /\ \A p \in DOMAIN t : p # c => t2[p] = t[p]
  BY <1>1, <1>3
<1> DEFINE a == SubSeq(v, 1, k)
           b == SubSeq(v, k + 1, Len(v))
<1>8. t2[u] = Node(a, l) /\ t2[c] = Node(b, t[c].lock_ref)
  BY <1>1, <1>3, <1>4
<1> HIDE DEF a, b
<1>9. /\ t2[u].value = a /\ t2[u].lock_ref = l /\ t2[c].value = b /\ t2[c].lock_ref = t[c].lock_ref
  BY <1>8 DEF Node
<1>10. /\ t2[u] \in [value : Seq(Slots), lock_ref : Int]
       /\ t2[c] \in [value : Seq(Slots), lock_ref : Int]
  <2>1. a \in Seq(Slots) /\ b \in Seq(Slots)
    BY <1>5, <1>6 DEF a, b
  <2> QED
    BY <1>1, <1>8, <2>1 DEF Node
<1>11. /\ Len(a) = k /\ Len(b) = Len(v) - k
       /\ \A i \in 1..k : a[i] = v[i]
       /\ \A i \in 1..Len(v) - k : b[i] = v[k + i]
  BY <1>5, <1>6 DEF a, b
<1>12. SplitsAt(t, t2, u, c, k, l)
  BY <1>7, <1>9, <1>10, <1>11 DEF SplitsAt, v
<1> QED
  BY <1>2, <1>12 DEF t2, v
(* A position may become a node.                                           *)
LEMMA SplitBranches ==
  ASSUME NEW D, NodesBranch(D), NEW u \in Names, u # <<>>, NEW c \in D, IsPrefix(u, c)
  PROVE  NodesBranch(D \cup {u})
<1>1. IsFiniteSet(D \cup {u}) /\ D \cup {u} \subseteq Names \ {<<>>} /\ D \subseteq Names
  BY FS_AddElement DEF NodesBranch
<1>2. ASSUME NEW q \in D, NEW m \in Names \ {<<>>}, IsMeet(m, u, q) \/ IsMeet(m, q, u)
      PROVE  m \in D \cup {u}
  <2>0. m \in Names /\ q \in Names /\ c \in Names
    BY <1>1
  <2>1. /\ IsPrefix(m, u) /\ IsPrefix(m, q)
        /\ \A d \in Names : IsPrefix(d, u) /\ IsPrefix(d, q) => IsPrefix(d, m)
    BY <1>2 DEF IsMeet
  <2>2. CASE IsPrefix(u, q)
    <3>1. IsPrefix(u, m)
      BY <2>1, <2>2, PrefixOrder
    <3>2. Len(m) <= Len(u)
      BY <2>0, <2>1, PrefixOrder
    <3>3. u = m
      BY <2>0, <3>1, <3>2, PrefixOrder
    <3> QED
      BY <3>3
  <2>3. CASE ~IsPrefix(u, q)
    <3>1. IsPrefix(m, c)
      BY <2>0, <2>1, PrefixOrder
    <3>2. ASSUME NEW d \in Names, IsPrefix(d, c), IsPrefix(d, q) PROVE IsPrefix(d, m)
      <4>1. CASE Len(d) <= Len(u)
        <5>1. IsPrefix(d, u)
          BY <2>0, <3>2, <4>1, PrefixOrder
        <5> QED
          BY <2>1, <3>2, <5>1
      <4>2. CASE ~(Len(d) <= Len(u))
        <5>1. Len(u) <= Len(d)
          BY <4>2, PrefixOrder
        <5>2. IsPrefix(u, d)
          BY <2>0, <3>2, <5>1, PrefixOrder
        <5>3. IsPrefix(u, q)
          BY <2>0, <3>2, <5>2, PrefixOrder
        <5> QED
          BY <5>3, <2>3
      <4> QED
        BY <4>1, <4>2
    <3>3. IsMeet(m, c, q)
      BY <2>1, <3>1, <3>2 DEF IsMeet
    <3>4. m \in D
      BY <3>3 DEF NodesBranch
    <3> QED
      BY <3>4
  <2> QED
    BY <2>2, <2>3
<1>3. ASSUME NEW m \in Names \ {<<>>}, IsMeet(m, u, u) PROVE m = u
  <2>1. IsPrefix(m, u) /\ IsPrefix(u, m)
    BY <1>3, PrefixOrder DEF IsMeet
  <2>2. Len(m) <= Len(u) /\ m \in Names
    BY <2>1, PrefixOrder
  <2> QED
    BY <2>1, <2>2, PrefixOrder
<1>4. ASSUME NEW p \in D, NEW q \in D, NEW m \in Names \ {<<>>}, IsMeet(m, p, q) PROVE m \in D
  BY <1>4 DEF NodesBranch
<1>5. ASSUME NEW p \in D \cup {u}, NEW q \in D \cup {u}, NEW m \in Names \ {<<>>}, IsMeet(m, p, q)
      PROVE  m \in D \cup {u}
  <2>1. CASE p \in D /\ q \in D
    BY <1>4, <1>5, <2>1
  <2>2. CASE p = u /\ q \in D
    BY <1>2, <1>5, <2>2
  <2>3. CASE p \in D /\ q = u
    BY <1>2, <1>5, <2>3
  <2>4. CASE p = u /\ q = u
    BY <1>3, <1>5, <2>4
  <2> QED
    BY <2>1, <2>2, <2>3, <2>4
<1> QED
  BY <1>1, <1>5 DEF NodesBranch

(* What a split does to the lengths above the nodes.                       *)
LEMMA SplitLengths ==
  ASSUME NEW t, NodesBranch(DOMAIN t), NEW u, IsPosition(t, u), u \notin DOMAIN t,
         NEW c, c = CutChild(t, u),
         NEW t2, DOMAIN t2 = DOMAIN t \cup {u}
  PROVE  /\ ParentLen(t2, u) = ParentLen(t, c)
         /\ ParentLen(t2, c) = Len(u)
         /\ \A p \in DOMAIN t : p # c => ParentLen(t2, p) = ParentLen(t, p)
<1> DEFINE D == DOMAIN t
           P(p) == ParentLen(t, p)
<1>0. /\ D \subseteq Names \ {<<>>} /\ u \in Names \ {<<>>}
      /\ c \in D /\ IsPrefix(u, c) /\ P(c) < Len(u) /\ u # c
      /\ \A p \in D : IsPrefix(u, p) => IsPrefix(c, p)
      /\ DOMAIN t2 \subseteq Names
  BY CutChildMeans DEF OnEdge, IsPosition, NodesBranch
<1>1. \A p \in D : LengthAbove(D, p, P(p))
  BY <1>0, ParentLenMeans
<1>2. \A p \in Names : \A n : LengthAbove(D \cup {u}, p, n) => ParentLen(t2, p) = n
  BY <1>0, ParentLenMeans
<1> HIDE DEF P, D
<1>3. /\ Len(u) \in Nat /\ Len(c) \in Nat /\ Len(u) < Len(c) /\ c \in Names /\ u \in Names
      /\ \A p \in D : Len(p) \in Nat /\ p \in Names
  <2>1. c \in Names /\ u \in Names /\ \A p \in D : p \in Names
    BY <1>0
  <2>2. Len(u) \in Nat /\ Len(c) \in Nat /\ \A p \in D : Len(p) \in Nat
    BY <2>1, PrefixOrder
  <2>3. ~(Len(c) <= Len(u))
    BY <2>1, <1>0, PrefixOrder
  <2> QED
    BY <2>1, <2>2, <2>3
<1>4. LengthAbove(D, c, P(c))
  BY <1>0, <1>1
<1>5. LengthAbove(D \cup {u}, u, P(c))
  <2>1. ASSUME NEW a \in D, IsPrefix(a, u), a # u PROVE Len(a) <= P(c)
    <3>1. IsPrefix(a, c) /\ Len(a) <= Len(u)
      BY <2>1, <1>0, <1>3, PrefixOrder
    <3>2. a # c
      BY <3>1, <1>3
    <3> QED
      BY <3>1, <3>2, <1>4 DEF LengthAbove
  <2>2. ASSUME P(c) # 0 PROVE \E a \in D : IsPrefix(a, u) /\ a # u /\ Len(a) = P(c)
    <3>1. PICK a \in D : IsPrefix(a, c) /\ a # c /\ Len(a) = P(c)
      BY <2>2, <1>4 DEF LengthAbove
    <3>2. IsPrefix(a, u)
      BY <3>1, <1>0, <1>3, PrefixOrder
    <3>3. a # u
      BY <3>1, <1>0, <1>3
    <3> QED
      BY <3>1, <3>2, <3>3
  <2>3. P(c) \in Nat
    BY <1>4 DEF LengthAbove
  <2> QED
    BY <2>1, <2>2, <2>3 DEF LengthAbove
<1>6. LengthAbove(D \cup {u}, c, Len(u))
  <2>1. ASSUME NEW a \in D, IsPrefix(a, c), a # c PROVE Len(a) <= Len(u)
    <3>1. Len(a) <= P(c) /\ P(c) \in Nat
      BY <2>1, <1>4 DEF LengthAbove
    <3> QED
      BY <3>1, <1>0, <1>3
  <2> QED
    BY <2>1, <1>0, <1>3 DEF LengthAbove
<1>7. ASSUME NEW p \in D, p # c PROVE LengthAbove(D \cup {u}, p, P(p))
  <2>1. LengthAbove(D, p, P(p))
    BY <1>1
  <2>2. ASSUME IsPrefix(u, p) PROVE Len(u) <= P(p)
    <3>1. IsPrefix(c, p)
      BY <2>2, <1>0
    <3>2. Len(c) <= P(p) /\ P(p) \in Nat
      BY <3>1, <1>0, <1>7, <2>1 DEF LengthAbove
    <3> QED
      BY <3>2, <1>3
  <2> QED
    BY <2>1, <2>2 DEF LengthAbove
<1> QED
  BY <1>0, <1>2, <1>3, <1>5, <1>6, <1>7 DEF P, D

(* The trees hold the same tokens in the same slots.                       *)
SameSlots(t, t2) ==
  /\ \A q : IsPosition(t2, q) <=> IsPosition(t, q)
  /\ \A q : IsPosition(t, q) => SlotOf(t2, q) = SlotOf(t, q)

(* A split leaves a tree, and every token in its slot.                     *)
LEMMA SplitKeeps ==
  ASSUME NEW t, TreeShape(t), NEW u, IsPosition(t, u), u \notin DOMAIN t, NEW l \in Int
  PROVE  TreeShape(Split(t, u, l)) /\ SameSlots(t, Split(t, u, l))
<1> DEFINE D == DOMAIN t
           c == CutChild(t, u)
           k == Len(u) - ParentLen(t, c)
           t2 == Split(t, u, l)
           P(p) == ParentLen(t, p)
           P2(p) == ParentLen(t2, p)
<1>1. SplitsAt(t, t2, u, c, k, l) /\ k \in 1..Len(t[c].value)
  <2>1. c = CutChild(t, u) /\ k = Len(u) - ParentLen(t, c)
    OBVIOUS
  <2> HIDE DEF c, k
  <2> QED
    BY <2>1, SplitMeans
<1>2. /\ NodesBranch(D) /\ D \subseteq Names \ {<<>>} /\ u \in Names \ {<<>>} /\ u \in Names
      /\ OnEdge(t, u, c) /\ c \in D /\ IsPrefix(u, c) /\ c # u
      /\ \A p \in D : IsPrefix(u, p) => IsPrefix(c, p)
  BY CutChildMeans DEF TreeShape, NodesBranch, OnEdge, IsPosition
<1>3. DOMAIN t2 = D \cup {u}
  BY <1>1 DEF SplitsAt
<1>4. NodesBranch(DOMAIN t2)
  BY <1>2, <1>3, SplitBranches
<1>5. P2(u) = P(c) /\ P2(c) = Len(u) /\ \A p \in D : p # c => P2(p) = P(p)
  <2> HIDE DEF t2
  <2> QED
    BY <1>2, <1>3, SplitLengths
<1>6. k = Len(u) - P(c) /\ P(c) \in Nat /\ Len(u) \in Nat
  BY <1>2, PrefixOrder, ParentShorter
<1>7. \A p \in D : t[p] \in [value : Seq(Slots), lock_ref : Int] /\ Len(t[p].value) = Len(p) - P(p)
  BY DEF TreeShape
<1>8. \A p \in D : Len(p) \in Nat /\ Len(t[p].value) \in Nat
  <2>1. \A p \in D : Len(p) \in Nat
    BY <1>2, PrefixOrder
  <2>2. \A p \in D : t[p].value \in Seq(Slots)
    BY <1>7
  <2> QED
    BY <2>1, <2>2, LenProperties
<1> HIDE DEF t2, c, k, P, P2
<1>9. TreeShape(t2)
  <2>1. ASSUME NEW p \in D \cup {u}
        PROVE  t2[p] \in [value : Seq(Slots), lock_ref : Int] /\ Len(t2[p].value) = Len(p) - P2(p)
    <3>1. CASE p = u
      BY <3>1, <1>1, <1>5, <1>6 DEF SplitsAt
    <3>2. CASE p = c
      BY <3>2, <1>1, <1>2, <1>5, <1>6, <1>7, <1>8 DEF SplitsAt
    <3>3. CASE p # u /\ p # c
      BY <3>3, <1>1, <1>5, <1>7 DEF SplitsAt
    <3> QED
      BY <3>1, <3>2, <3>3
  <2> QED
    BY <1>3, <1>4, <2>1 DEF TreeShape, P2
<1>10. ASSUME NEW q PROVE IsPosition(t2, q) <=> IsPosition(t, q)
  <2>1. ASSUME q \in Names, IsPrefix(q, u) PROVE IsPrefix(q, c)
    BY <2>1, <1>2, PrefixOrder
  <2> QED
    BY <1>2, <1>3, <2>1 DEF IsPosition
<1>11. ASSUME NEW q, IsPosition(t, q) PROVE SlotOf(t2, q) = SlotOf(t, q)
  <2> DEFINE e == CutChild(t, q)
  <2>1. OnEdge(t, q, e) /\ q \in Names /\ IsPosition(t2, q)
    BY <1>2, <1>10, <1>11, CutChildMeans DEF IsPosition
  <2> HIDE DEF e
  <2>2. e \in D /\ IsPrefix(q, e) /\ \A p \in D : IsPrefix(q, p) => IsPrefix(e, p)
    BY <2>1 DEF OnEdge
  <2>3. SlotOf(t, q) = t[e].value[Len(q) - P(e)] /\ Len(q) - P(e) \in 1..Len(t[e].value)
    BY <1>11, <2>1, SlotOfMeans DEF P
  <2>4. \A d : OnEdge(t2, q, d) => SlotOf(t2, q) = t2[d].value[Len(q) - P2(d)]
    BY <1>9, <2>1, SlotOfMeans DEF P2
  <2>5. Len(q) \in Nat /\ Len(e) \in Nat /\ e \in Names /\ c \in Names
    BY <1>2, <2>1, <2>2, PrefixOrder
  <2>6. CASE e # c
    <3>1. ASSUME IsPrefix(q, u) PROVE IsPrefix(e, u)
      <4>1. IsPrefix(e, c)
        BY <3>1, <2>1, <2>2, <2>5, <1>2, PrefixOrder
      <4>2. CASE Len(e) <= Len(u)
        BY <4>1, <4>2, <2>5, <1>2, PrefixOrder
      <4>3. CASE ~(Len(e) <= Len(u))
        <5>1. Len(u) <= Len(e)
          BY <4>3, <2>5, <1>6
        <5>2. IsPrefix(u, e)
          BY <5>1, <4>1, <2>5, <1>2, PrefixOrder
        <5>3. IsPrefix(c, e)
          BY <5>2, <2>2, <1>2
        <5>4. Len(c) <= Len(e)
          BY <5>3, <2>5, PrefixOrder
        <5>5. e = c
          BY <4>1, <5>4, <2>5, PrefixOrder
        <5> QED
          BY <5>5, <2>6
      <4> QED
        BY <4>2, <4>3
    <3>2. OnEdge(t2, q, e)
      BY <3>1, <2>2, <1>3 DEF OnEdge
    <3>3. t2[e] = t[e] /\ P2(e) = P(e)
      BY <2>2, <2>6, <1>1, <1>5 DEF SplitsAt
    <3> QED
      BY <3>2, <3>3, <2>3, <2>4
  <2>7. CASE e = c /\ Len(q) <= Len(u)
    <3>1. IsPrefix(q, u)
      BY <2>1, <2>2, <2>5, <2>7, <1>2, PrefixOrder
    <3>2. ASSUME NEW p \in D, IsPrefix(q, p) PROVE IsPrefix(u, p)
      <4>1. IsPrefix(c, p) /\ p \in Names
        BY <3>2, <2>2, <2>7, <1>2
      <4> QED
        BY <4>1, <2>5, <1>2, PrefixOrder
    <3>3. OnEdge(t2, q, u)
      BY <3>1, <3>2, <1>2, <1>3, PrefixOrder DEF OnEdge
    <3>4. SlotOf(t2, q) = t2[u].value[Len(q) - P(c)]
      BY <3>3, <2>4, <1>5
    <3>5. Len(q) - P(c) \in 1..k
      BY <2>3, <2>5, <2>7, <1>6
    <3>6. t2[u].value[Len(q) - P(c)] = t[c].value[Len(q) - P(c)]
      BY <3>5, <1>1 DEF SplitsAt
    <3> QED
      BY <3>4, <3>6, <2>3, <2>7
  <2>8. CASE e = c /\ ~(Len(q) <= Len(u))
    <3>1. ~IsPrefix(q, u)
      BY <2>1, <2>8, <1>2, PrefixOrder
    <3>2. OnEdge(t2, q, c)
      BY <3>1, <2>2, <2>8, <1>3 DEF OnEdge
    <3>3. SlotOf(t2, q) = t2[c].value[Len(q) - Len(u)]
      BY <3>2, <2>4, <1>5
    <3>4. Len(q) - Len(u) \in 1..Len(t[c].value) - k /\ k + (Len(q) - Len(u)) = Len(q) - P(c)
      BY <2>3, <2>5, <2>8, <1>1, <1>6, <1>8, <1>2
    <3>5. t2[c].value[Len(q) - Len(u)] = t[c].value[Len(q) - P(c)]
      BY <3>4, <1>1 DEF SplitsAt
    <3> QED
      BY <3>3, <3>5, <2>3, <2>8
  <2> QED
    BY <2>6, <2>7, <2>8
<1> QED
  BY <1>9, <1>10, <1>11 DEF SameSlots, t2
(* The greatest element of a bounded set of naturals.                      *)
LEMMA MaxOf ==
  ASSUME NEW L \in SUBSET Nat, L # {}, NEW b \in Nat, \A x \in L : x <= b
  PROVE  Max(L) \in L /\ \A x \in L : x <= Max(L)
<1>1. PICK m \in L : \A x \in L : x <= m
  BY GreatestNatural
<1>2. m \in L /\ \A y \in L : m >= y
  BY <1>1
<1>3. Max(L) \in L /\ \A x \in L : Max(L) >= x
  BY <1>2 DEF Max
<1> QED
  BY <1>3

(* key_match_fn finds the longest common prefix.                           *)
LEMMA KeyMatchMeans ==
  ASSUME NEW p \in Names, NEW key \in Names
  PROVE  /\ KeyMatch(p, key) \in 0..Len(key)
         /\ IsPrefix(SubSeq(key, 1, KeyMatch(p, key)), p)
         /\ \A q \in Names : IsPrefix(q, p) /\ IsPrefix(q, key) => Len(q) <= KeyMatch(p, key)
<1> DEFINE L == {n \in 0..Min({Len(p), Len(key)}) : SubSeq(p, 1, n) = SubSeq(key, 1, n)}
           m == KeyMatch(p, key)
<1>0. Len(p) \in Nat /\ Len(key) \in Nat
  BY PrefixOrder
<1>1. \A n \in Nat : n \in 0..Min({Len(p), Len(key)}) <=> n <= Len(p) /\ n <= Len(key)
  BY <1>0, MinOfTwo
<1>2. ASSUME NEW q \in Names, IsPrefix(q, p), IsPrefix(q, key) PROVE Len(q) \in L
  <2>1. Len(q) \in Nat /\ Len(q) <= Len(p) /\ Len(q) <= Len(key)
    BY <1>2, PrefixOrder
  <2>2. q = SubSeq(p, 1, Len(q)) /\ q = SubSeq(key, 1, Len(q))
    BY <2>1, <1>2, Cuts
  <2> QED
    BY <2>1, <2>2, <1>1
<1>3. 0 \in L
  <2>1. <<>> \in Names /\ IsPrefix(<<>>, p) /\ IsPrefix(<<>>, key) /\ Len(<<>>) = 0
    BY PrefixOrder
  <2> HIDE DEF L
  <2> QED
    BY <2>1, <1>2
<1>4. m \in L /\ \A n \in L : n <= m
  <2>1. L \in SUBSET Nat
    BY <1>1, MinOfTwo, <1>0
  <2>2. \A n \in L : n <= Len(key)
    BY <2>1, <1>1
  <2>3. L # {}
    BY <1>3
  <2>4. m = Max(L)
    BY DEF KeyMatch
  <2> HIDE DEF L, m
  <2> QED
    BY <2>1, <2>2, <2>3, <2>4, <1>0, MaxOf
<1>5. m \in Nat /\ m <= Len(p) /\ m <= Len(key) /\ SubSeq(p, 1, m) = SubSeq(key, 1, m)
  <2> HIDE DEF m
  <2>1. m \in 0..Min({Len(p), Len(key)}) /\ SubSeq(p, 1, m) = SubSeq(key, 1, m) /\ m \in Nat
    BY <1>4
  <2> QED
    BY <2>1, <1>1, Zenon
<1> HIDE DEF m, L
<1>6. IsPrefix(SubSeq(p, 1, m), p)
  <2>1. m \in 0..Len(p)
    BY <1>0, <1>5
  <2> QED
    BY <2>1, Cuts
<1>7. IsPrefix(SubSeq(key, 1, m), p)
  BY <1>5, <1>6, Zenon
<1> QED
  BY <1>0, <1>2, <1>4, <1>5, <1>7 DEF m

(* The walk goes down to the last position that the key passes.            *)
LEMMA MatchLenMeans ==
  ASSUME NEW t, DOMAIN t \subseteq Names, NEW key \in Names
  PROVE  /\ MatchLen(t, key) \in 0..Len(key)
         /\ \/ SubSeq(key, 1, MatchLen(t, key)) = <<>>
            \/ IsPosition(t, SubSeq(key, 1, MatchLen(t, key)))
         /\ \A q : IsPosition(t, q) /\ IsPrefix(q, key) => Len(q) <= MatchLen(t, key)
<1> DEFINE K == {KeyMatch(p, key) : p \in DOMAIN t}
           L == {0} \cup K
           n == MatchLen(t, key)
<1>0. Len(key) \in Nat
  BY PrefixOrder
<1>1. n \in L /\ \A x \in L : x <= n
  <2>1. \A p \in DOMAIN t : KeyMatch(p, key) \in 0..Len(key)
    BY KeyMatchMeans
  <2>2. L \in SUBSET Nat /\ L # {} /\ \A x \in L : x <= Len(key)
    BY <1>0, <2>1
  <2>3. n = Max(L)
    BY DEF MatchLen
  <2> HIDE DEF L, n
  <2> QED
    BY <1>0, <2>2, <2>3, MaxOf
<1> DEFINE u == SubSeq(key, 1, n)
<1>2. n \in 0..Len(key) /\ (u = <<>> \/ IsPosition(t, u))
  <2>1. CASE n = 0
    <3>1. n \in 0..Len(key)
      BY <1>0, <2>1
    <3>2. u \in Names /\ Len(u) = 0
      BY <2>1, <3>1, Cuts
    <3> QED
      BY <3>1, <3>2, PrefixOrder
  <2>2. CASE n \in K
    <3>1. PICK p \in DOMAIN t : n = KeyMatch(p, key)
      BY <2>2
    <3> HIDE DEF n
    <3>2. n \in 0..Len(key) /\ IsPrefix(u, p)
      BY <3>1, KeyMatchMeans
    <3>3. u \in Names
      BY <3>2, Cuts
    <3> QED
      BY <3>2, <3>3 DEF IsPosition
  <2> QED
    BY <1>1, <2>1, <2>2
<1>3. ASSUME NEW q, IsPosition(t, q), IsPrefix(q, key) PROVE Len(q) <= n
  <2>1. PICK p \in DOMAIN t : q \in Names /\ IsPrefix(q, p)
    BY <1>3 DEF IsPosition
  <2>2. Len(q) <= KeyMatch(p, key) /\ KeyMatch(p, key) \in 0..Len(key)
    BY <2>1, <1>3, KeyMatchMeans
  <2>3. KeyMatch(p, key) <= n
    BY <1>1
  <2> HIDE DEF n
  <2>4. Len(q) \in Nat
    BY <2>1, PrefixOrder
  <2> QED
    BY <2>2, <2>3, <2>4, <1>2 DEF n
<1> QED
  BY <1>2, <1>3

(* The edge into c is cut at u: u is locked as c, and they share its slots.*)
CutsEdge(t, t2, u, c) ==
  /\ OnEdge(t, u, c) /\ u \notin DOMAIN t
  /\ DOMAIN t2 = DOMAIN t \cup {u}
  /\ t2[u].lock_ref = t[c].lock_ref /\ t2[c].lock_ref = t[c].lock_ref
  /\ Len(t2[u].value) + Len(t2[c].value) = Len(t[c].value)
  /\ \A p \in DOMAIN t : p # c => t2[p] = t[p]

(* What a split leaves: a node at u and every token in its slot.           *)
SplitsNode(t, t2, u) ==
  /\ TreeShape(t2) /\ SameSlots(t, t2)
  /\ DOMAIN t2 = DOMAIN t \cup ({u} \ {<<>>})
  /\ \/ t2 = t
     \/ \E c \in DOMAIN t : CutsEdge(t, t2, u, c)

(* A split, whether the node was there or not.                             *)
LEMMA SplitNodeMeans ==
  ASSUME NEW t, TreeShape(t), NEW u, u = <<>> \/ IsPosition(t, u)
  PROVE  SplitsNode(t, SplitNode(t, u), u)
<1> DEFINE t2 == SplitNode(t, u)
           c == CutChild(t, u)
           l == t[c].lock_ref
<1>0. NodesBranch(DOMAIN t) /\ <<>> \notin DOMAIN t
  BY DEF TreeShape, NodesBranch
<1>1. CASE u = <<>> \/ u \in DOMAIN t
  <2>1. t2 = t
    BY <1>1 DEF SplitNode, Split
  <2>2. DOMAIN t = DOMAIN t \cup ({u} \ {<<>>})
    BY <1>0, <1>1
  <2>3. SplitsNode(t, t, u)
    BY <1>1, <2>2 DEF SplitsNode, SameSlots
  <2> QED
    BY <2>1, <2>3
<1>2. CASE u # <<>> /\ u \notin DOMAIN t
  <2>1. t2 = Split(t, u, l) /\ IsPosition(t, u)
    BY <1>2 DEF SplitNode
  <2>2. c \in DOMAIN t /\ l \in Int /\ OnEdge(t, u, c)
    BY <1>0, <2>1, CutChildMeans DEF OnEdge, TreeShape
  <2> DEFINE k == Len(u) - ParentLen(t, c)
  <2>3. c = CutChild(t, u) /\ k = Len(u) - ParentLen(t, c)
    OBVIOUS
  <2> HIDE DEF l, c, k, t2
  <2>4. TreeShape(t2) /\ SameSlots(t, t2)
    BY <1>2, <2>1, <2>2, SplitKeeps
  <2>5. SplitsAt(t, t2, u, c, k, l) /\ k \in 1..Len(t[c].value)
    BY <1>2, <2>1, <2>2, <2>3, SplitMeans
  <2>6. DOMAIN t2 = DOMAIN t \cup ({u} \ {<<>>})
    BY <1>2, <2>5 DEF SplitsAt
  <2>7. Len(t2[u].value) + Len(t2[c].value) = Len(t[c].value)
    <3>1. Len(t[c].value) \in Nat
      BY <2>2, LenProperties DEF TreeShape
    <3> QED
      BY <3>1, <2>5 DEF SplitsAt
  <2>8. CutsEdge(t, t2, u, c)
    BY <1>2, <2>2, <2>5, <2>7 DEF SplitsAt, CutsEdge, l
  <2> QED
    BY <2>2, <2>4, <2>6, <2>8 DEF SplitsNode, t2
<1> QED
  BY <1>1, <1>2

(* What match_prefix returns for a key.                                    *)
Matches(t, key, m) ==
  /\ SplitsNode(t, m.tree, m.node)
  /\ m.node \in Names /\ IsPrefix(m.node, key) /\ Len(m.node) = MatchLen(t, key)
  /\ m.node = <<>> \/ m.node \in DOMAIN m.tree
  /\ \A q : IsPosition(t, q) /\ IsPrefix(q, key) => IsPrefix(q, m.node)
  /\ m.value = PathSlots(m.tree, m.node)

(* match_prefix ends at the longest cached prefix of the key, made a node. *)
LEMMA MatchMeans ==
  ASSUME NEW t, TreeShape(t), NEW key \in Names
  PROVE  Matches(t, key, MatchPrefix(t, key))
<1> DEFINE n == MatchLen(t, key)
           u == SubSeq(key, 1, n)
           t2 == SplitNode(t, u)
           m == MatchPrefix(t, key)
<1>1. DOMAIN t \subseteq Names
  BY DEF TreeShape, NodesBranch
<1>2. /\ n \in 0..Len(key) /\ (u = <<>> \/ IsPosition(t, u))
      /\ \A q : IsPosition(t, q) /\ IsPrefix(q, key) => Len(q) <= n
  BY <1>1, MatchLenMeans
<1>3. m.tree = t2 /\ m.node = u /\ m.value = PathSlots(t2, u)
  BY DEF MatchPrefix
<1> HIDE DEF m, n
<1>4. u \in Names /\ IsPrefix(u, key) /\ Len(u) = n
  BY <1>2, Cuts
<1> HIDE DEF t2, u
<1>5. SplitsNode(t, t2, u)
  BY <1>2, SplitNodeMeans DEF t2
<1>6. u = <<>> \/ u \in DOMAIN t2
  BY <1>5 DEF SplitsNode
<1>7. ASSUME NEW q, IsPosition(t, q), IsPrefix(q, key) PROVE IsPrefix(q, u)
  <2>1. q \in Names /\ Len(q) <= Len(u)
    BY <1>2, <1>4, <1>7 DEF IsPosition
  <2> QED
    BY <2>1, <1>4, <1>7, PrefixOrder
<1> QED
  BY <1>3, <1>4, <1>5, <1>6, <1>7 DEF Matches, m, n

(* What _insert_helper leaves: the tokens of the key beyond the first n,   *)
(* which were cached, are new, in the slots of value.                      *)
Inserts(t, t2, key, value, n) ==
  /\ TreeShape(t2) /\ key \in DOMAIN t2
  /\ n \in 0..Len(key)
  /\ \A q : IsPosition(t, q) /\ IsPrefix(q, key) => Len(q) <= n
  /\ \A q \in Names : IsPrefix(q, key) /\ Len(q) <= n /\ q # <<>> => IsPosition(t, q)
  /\ \A q : IsPosition(t2, q) <=> \/ IsPosition(t, q)
                                  \/ q \in Names /\ IsPrefix(q, key) /\ Len(q) > n
  /\ \A q : IsPosition(t, q) => SlotOf(t2, q) = SlotOf(t, q)
  /\ \A q \in Names : IsPrefix(q, key) /\ Len(q) > n => SlotOf(t2, q) = value[Len(q)]

(* A new leaf below the split.                                             *)
LEMMA LeafAdded ==
  ASSUME NEW t, TreeShape(t), NEW key \in Names, NEW value \in Seq(Slots), Len(value) = Len(key),
         NEW n \in 0..Len(key), n < Len(key), NEW u \in Names, IsPrefix(u, key), Len(u) = n,
         u = <<>> \/ u \in DOMAIN t,
         \A q : IsPosition(t, q) /\ IsPrefix(q, key) => Len(q) <= n,
         NEW t2, DOMAIN t2 = DOMAIN t \cup {key},
         \A p \in DOMAIN t : p # key => t2[p] = t[p],
         t2[key] = Node(SubSeq(value, n + 1, Len(key)), 0)
  PROVE  Inserts(t, t2, key, value, n) /\ key \notin DOMAIN t
<1> DEFINE D == DOMAIN t
           P(p) == ParentLen(t, p)
           P2(p) == ParentLen(t2, p)
           tail == SubSeq(value, n + 1, Len(key))
<1>0. /\ NodesBranch(D) /\ D \subseteq Names \ {<<>>} /\ D \subseteq Names
      /\ Len(key) \in Nat /\ n \in Nat /\ Len(u) \in Nat
  BY PrefixOrder DEF TreeShape, NodesBranch
<1>1. \A q \in D : IsPosition(t, q)
  BY <1>0, PrefixOrder DEF IsPosition
<1>2. key # <<>> /\ IsPrefix(key, key)
  BY <1>0, PrefixOrder
<1>3. \A p \in D : ~IsPrefix(key, p)
  <2>1. ASSUME NEW p \in D, IsPrefix(key, p) PROVE FALSE
    <3>1. IsPosition(t, key)
      BY <2>1, <1>2 DEF IsPosition
    <3>2. Len(key) <= n
      BY <3>1, <1>2
    <3> QED
      BY <3>2, <1>0
  <2> QED
    BY <2>1
<1>4. key \notin D
  BY <1>2, <1>3
<1>5. t2[key].value = tail /\ t2[key].lock_ref = 0 /\ t2[key] \in [value : Seq(Slots), lock_ref : Int]
  <2>1. tail \in Seq(Slots)
    <3>1. n \in 0..Len(value)
      OBVIOUS
    <3>2. SubSeq(value, n + 1, Len(value)) \in Seq(Slots)
      BY <3>1, Dropped
    <3> QED
      BY <3>2
  <2> HIDE DEF tail
  <2>2. t2[key] = Node(tail, 0)
    BY DEF tail
  <2> QED
    BY <2>1, <2>2 DEF Node
<1>6. Len(tail) = Len(key) - n /\ \A i \in 1..Len(key) - n : tail[i] = value[n + i]
  <2>1. n \in 0..Len(value)
    OBVIOUS
  <2>2. /\ Len(SubSeq(value, n + 1, Len(value))) = Len(value) - n
        /\ \A i \in 1..Len(value) - n : SubSeq(value, n + 1, Len(value))[i] = value[n + i]
    BY <2>1, Dropped
  <2> QED
    BY <2>2
<1> HIDE DEF tail, D, P, P2
<1>7. ASSUME NEW q \in D, NEW m \in Names \ {<<>>}, IsPrefix(m, key), IsPrefix(m, q),
             \A d \in Names : IsPrefix(d, key) /\ IsPrefix(d, q) => IsPrefix(d, m)
      PROVE  m \in D
  <2>1. IsPosition(t, m)
    BY <1>7 DEF IsPosition, D
  <2>2. Len(m) <= n /\ m # <<>> /\ m \in Names
    BY <1>7, <2>1
  <2>3. IsPrefix(m, u)
    BY <1>7, <2>2, PrefixOrder
  <2>4. u # <<>>
    BY <2>2, <2>3, PrefixOrder
  <2>5. ASSUME NEW d \in Names, IsPrefix(d, u), IsPrefix(d, q) PROVE IsPrefix(d, m)
    <3>1. IsPrefix(d, key)
      BY <2>5, PrefixOrder
    <3> QED
      BY <3>1, <2>5, <1>7
  <2>6. IsMeet(m, u, q)
    BY <1>7, <2>3, <2>5 DEF IsMeet
  <2>7. u \in D
    BY <2>4 DEF D
  <2> QED
    BY <2>6, <2>7, <1>0, <1>7 DEF NodesBranch
<1>8. NodesBranch(D \cup {key})
  <2>1. IsFiniteSet(D \cup {key}) /\ D \cup {key} \subseteq Names \ {<<>>}
    BY <1>0, <1>2, FS_AddElement DEF NodesBranch
  <2>2. ASSUME NEW p \in D \cup {key}, NEW q \in D \cup {key}, NEW m \in Names \ {<<>>}, IsMeet(m, p, q)
        PROVE  m \in D \cup {key}
    <3>1. /\ IsPrefix(m, p) /\ IsPrefix(m, q)
          /\ \A d \in Names : IsPrefix(d, p) /\ IsPrefix(d, q) => IsPrefix(d, m)
      BY <2>2 DEF IsMeet
    <3>2. CASE p \in D /\ q \in D
      BY <3>2, <2>2, <1>0 DEF NodesBranch
    <3>3. CASE p = key /\ q \in D
      BY <3>1, <3>3, <1>7
    <3>4. CASE p \in D /\ q = key
      BY <3>1, <3>4, <1>7
    <3>5. CASE p = key /\ q = key
      <4>1. IsPrefix(key, m) /\ IsPrefix(m, key)
        BY <3>1, <3>5, <1>2
      <4>2. Len(m) <= Len(key) /\ m \in Names
        BY <4>1, PrefixOrder
      <4> QED
        BY <4>1, <4>2, PrefixOrder
    <3> QED
      BY <3>2, <3>3, <3>4, <3>5
  <2> QED
    BY <2>1, <2>2 DEF NodesBranch
<1>9. P2(key) = n /\ \A p \in D : P2(p) = P(p)
  <2>1. \A p \in Names : \A x : LengthAbove(D \cup {key}, p, x) => x = P2(p)
    BY <1>0, ParentLenMeans DEF P2, D
  <2>2. \A p \in D : LengthAbove(D, p, P(p))
    BY <1>0, ParentLenMeans DEF P, D
  <2>3. \A p \in D : LengthAbove(D \cup {key}, p, P(p))
    BY <2>2, <1>3 DEF LengthAbove
  <2>4. LengthAbove(D \cup {key}, key, n)
    <3>1. \A a \in D : IsPrefix(a, key) => Len(a) <= n
      BY <1>1
    <3>2. u # <<>> => u \in D /\ u # key
      BY <1>0, <1>4 DEF D
    <3>3. u = <<>> => n = 0
      BY PrefixOrder
    <3> QED
      BY <3>1, <3>2, <3>3, <1>0 DEF LengthAbove
  <2> QED
    BY <2>1, <2>3, <2>4, <1>0
<1>10. DOMAIN t2 = D \cup {key}
  BY DEF D
<1>11. TreeShape(t2)
  <2>1. ASSUME NEW p \in D PROVE t2[p] \in [value : Seq(Slots), lock_ref : Int] /\ Len(t2[p].value) = Len(p) - P2(p)
    <3>1. t2[p] = t[p]
      BY <1>4 DEF D
    <3>2. t[p] \in [value : Seq(Slots), lock_ref : Int] /\ Len(t[p].value) = Len(p) - P(p)
      BY DEF TreeShape, D, P
    <3> QED
      BY <3>1, <3>2, <1>9
  <2>2. Len(t2[key].value) = Len(key) - P2(key)
    BY <1>5, <1>6, <1>9
  <2> QED
    BY <1>5, <1>8, <1>10, <2>1, <2>2 DEF TreeShape, P2
<1>12. ASSUME NEW q PROVE IsPosition(t2, q) <=> IsPosition(t, q) \/ (q \in Names /\ IsPrefix(q, key) /\ Len(q) > n)
  <2>1. IsPosition(t2, q) <=> IsPosition(t, q) \/ (q \in Names /\ q # <<>> /\ IsPrefix(q, key))
    BY <1>10 DEF IsPosition, D
  <2>2. ASSUME q \in Names, IsPrefix(q, key), q # <<>>, ~(Len(q) > n) PROVE IsPosition(t, q)
    <3>1. Len(q) <= Len(u)
      BY <2>2, <1>0, PrefixOrder
    <3>2. IsPrefix(q, u) /\ u # <<>>
      BY <2>2, <3>1, PrefixOrder
    <3>3. u \in D
      BY <3>2 DEF D
    <3> QED
      BY <2>2, <3>2, <3>3 DEF IsPosition, D
  <2>3. ASSUME q \in Names, Len(q) > n PROVE q # <<>>
    BY <2>3, <1>0, PrefixOrder
  <2> QED
    BY <2>1, <2>2, <2>3
<1>13. \A q \in Names : IsPrefix(q, key) /\ Len(q) <= n /\ q # <<>> => IsPosition(t, q)
  <2>1. ASSUME NEW q \in Names, IsPrefix(q, key), Len(q) <= n, q # <<>> PROVE IsPosition(t, q)
    <3>1. IsPosition(t2, q)
      BY <2>1, <1>10 DEF IsPosition
    <3>2. ~(Len(q) > n)
      BY <2>1, <1>0, PrefixOrder
    <3> QED
      BY <3>1, <3>2, <1>12
  <2> QED
    BY <2>1
<1>14. ASSUME NEW q, IsPosition(t, q) PROVE SlotOf(t2, q) = SlotOf(t, q)
  <2> DEFINE e == CutChild(t, q)
  <2>1. OnEdge(t, q, e) /\ q \in Names /\ IsPosition(t2, q)
    BY <1>0, <1>12, <1>14, CutChildMeans DEF IsPosition, D
  <2> HIDE DEF e
  <2>2. e \in D /\ IsPrefix(q, e) /\ \A p \in D : IsPrefix(q, p) => IsPrefix(e, p)
    BY <2>1 DEF OnEdge, D
  <2>3. ASSUME IsPrefix(q, key) PROVE IsPrefix(e, key)
    <3>1. IsPrefix(q, u) /\ q # <<>>
      BY <2>1, <2>3, <1>14, PrefixOrder DEF IsPosition
    <3>2. u # <<>>
      BY <2>1, <3>1, PrefixOrder
    <3>3. u \in D
      BY <3>2 DEF D
    <3>4. IsPrefix(e, u) /\ e \in Names
      BY <3>1, <3>3, <2>2, <1>0
    <3> QED
      BY <3>4, PrefixOrder
  <2>4. OnEdge(t2, q, e)
    BY <2>2, <2>3, <1>10 DEF OnEdge
  <2>5. SlotOf(t, q) = t[e].value[Len(q) - P(e)]
    BY <2>1, <1>14, SlotOfMeans DEF P
  <2>6. SlotOf(t2, q) = t2[e].value[Len(q) - P2(e)]
    BY <2>1, <2>4, <1>11, SlotOfMeans DEF P2
  <2>7. t2[e] = t[e] /\ P2(e) = P(e)
    BY <2>2, <1>4, <1>9 DEF D
  <2> QED
    BY <2>5, <2>6, <2>7
<1>15. ASSUME NEW q \in Names, IsPrefix(q, key), Len(q) > n PROVE SlotOf(t2, q) = value[Len(q)]
  <2>1. IsPosition(t2, q) /\ ~IsPosition(t, q) /\ q # <<>>
    BY <1>15, <1>12, <1>0, PrefixOrder
  <2>2. OnEdge(t2, q, key)
    BY <2>1, <1>15, <1>10, <1>2 DEF OnEdge, IsPosition, D
  <2>3. SlotOf(t2, q) = t2[key].value[Len(q) - P2(key)]
    BY <2>1, <2>2, <1>11, SlotOfMeans DEF P2
  <2>4. Len(q) \in Nat /\ Len(q) <= Len(key)
    BY <1>15, PrefixOrder
  <2>5. Len(q) - n \in 1..Len(key) - n /\ n + (Len(q) - n) = Len(q)
    BY <2>4, <1>0, <1>15
  <2>6. tail[Len(q) - n] = value[Len(q)]
    BY <2>5, <1>6
  <2> QED
    BY <2>3, <2>6, <1>5, <1>9
<1> QED
  BY <1>4, <1>10, <1>11, <1>12, <1>13, <1>14, <1>15 DEF Inserts, D
(* The key is a node, or becomes an unlocked leaf for its last k tokens.   *)
AddsLeaf(t, t2, key, k) ==
  \/ t2 = t /\ key \in DOMAIN t /\ k = 0
  \/ /\ \A p \in DOMAIN t : ~IsPrefix(key, p)
     /\ key \in Names /\ key # <<>> /\ k \in Nat
     /\ DOMAIN t2 = DOMAIN t \cup {key}
     /\ t2[key].lock_ref = 0 /\ Len(t2[key].value) = k
     /\ \A p \in DOMAIN t : t2[p] = t[p]

(* What insert returns.                                                    *)
LEMMA InsertMeans ==
  ASSUME NEW t, TreeShape(t), NEW key \in Names, key # <<>>,
         NEW value \in Seq(Slots), Len(value) = Len(key)
  PROVE  LET ins == Insert(t, key, value)
         IN  /\ Inserts(t, ins.tree, key, value, ins.prefix_len)
             /\ \E t1, u : /\ SplitsNode(t, t1, u)
                           /\ AddsLeaf(t1, ins.tree, key, Len(key) - ins.prefix_len)
<1> DEFINE n == MatchLen(t, key)
           u == SubSeq(key, 1, n)
           t1 == SplitNode(t, u)
           t2 == Insert(t, key, value).tree
<1>0. Insert(t, key, value).prefix_len = n
  BY DEF Insert
<1>1. DOMAIN t \subseteq Names /\ Len(key) \in Nat
  BY PrefixOrder DEF TreeShape, NodesBranch
<1>2. /\ n \in 0..Len(key) /\ (u = <<>> \/ IsPosition(t, u))
      /\ \A q : IsPosition(t, q) /\ IsPrefix(q, key) => Len(q) <= n
  BY <1>1, MatchLenMeans
<1> DEFINE last == SubSeq(value, n + 1, Len(key))
<1>3. t2 = IF n = Len(key) THEN t1
           ELSE [p \in DOMAIN t1 \cup {key} |-> IF p = key THEN Node(last, 0) ELSE t1[p]]
  BY DEF Insert
<1> HIDE DEF n, t2, last
<1>4. u \in Names /\ IsPrefix(u, key) /\ Len(u) = n
  BY <1>2, Cuts
<1>5. n = Len(key) => u = key
  BY <1>4, PrefixOrder
<1> HIDE DEF t1, u
<1>6. SplitsNode(t, t1, u)
  BY <1>2, SplitNodeMeans DEF t1
<1>7. /\ TreeShape(t1) /\ (u = <<>> \/ u \in DOMAIN t1)
      /\ \A q : IsPosition(t1, q) <=> IsPosition(t, q)
      /\ \A q : IsPosition(t, q) => SlotOf(t1, q) = SlotOf(t, q)
  BY <1>6 DEF SplitsNode, SameSlots
<1>8. \A q : IsPosition(t1, q) /\ IsPrefix(q, key) => Len(q) <= n
  BY <1>2, <1>7
<1>9. CASE n = Len(key)
  <2>1. t2 = t1 /\ key \in DOMAIN t1
    BY <1>3, <1>5, <1>7, <1>9
  <2>2. AddsLeaf(t1, t2, key, Len(key) - n)
    BY <2>1, <1>1, <1>9 DEF AddsLeaf
  <2>3. \A q \in Names : IsPrefix(q, key) => ~(Len(q) > n)
    BY <1>1, <1>9, PrefixOrder
  <2>4. \A q \in Names : IsPrefix(q, key) /\ q # <<>> => IsPosition(t, q)
    <3>1. \A q \in Names : IsPrefix(q, key) /\ q # <<>> => IsPosition(t1, q)
      BY <2>1 DEF IsPosition
    <3> QED
      BY <3>1, <1>7
  <2>5. Inserts(t, t2, key, value, n)
    BY <2>1, <2>3, <2>4, <1>2, <1>7 DEF Inserts
  <2> QED
    BY <2>2, <2>5, <1>0, <1>6 DEF t2
<1>10. CASE n # Len(key)
  <2>1. n < Len(key) /\ Len(value) = Len(key)
    BY <1>1, <1>2, <1>10
  <2>2. DOMAIN t2 = DOMAIN t1 \cup {key} /\ \A p \in DOMAIN t1 : p # key => t2[p] = t1[p]
    BY <1>3, <1>10
  <2>3. t2[key] = Node(last, 0)
    BY <1>3, <1>10
  <2>4. t2[key] = Node(SubSeq(value, n + 1, Len(key)), 0)
    BY <2>3 DEF last
  <2>5. Inserts(t1, t2, key, value, n) /\ key \notin DOMAIN t1
    BY <1>2, <1>4, <1>7, <1>8, <2>1, <2>2, <2>4, LeafAdded
  <2>6. Inserts(t, t2, key, value, n)
    BY <2>5, <1>7 DEF Inserts
  <2>7. Len(last) = Len(key) - n
    <3>1. n \in 0..Len(value)
      BY <1>2
    <3>2. Len(SubSeq(value, n + 1, Len(value))) = Len(value) - n
      BY <3>1, Dropped
    <3> QED
      BY <3>2 DEF last
  <2>8. AddsLeaf(t1, t2, key, Len(key) - n)
    <3>1. t2[key].lock_ref = 0 /\ t2[key].value = last
      BY <2>3 DEF Node
    <3>2. ASSUME NEW p \in DOMAIN t1, IsPrefix(key, p) PROVE FALSE
      <4>1. IsPosition(t1, key) /\ IsPrefix(key, key)
        BY <3>2, PrefixOrder DEF IsPosition
      <4>2. Len(key) <= n
        BY <1>8, <4>1
      <4> QED
        BY <1>1, <1>2, <2>1, <4>2
    <3>3. Len(key) - n \in Nat
      BY <1>1, <1>2
    <3>4. \A p \in DOMAIN t1 : t2[p] = t1[p]
      BY <2>2, <2>5
    <3> QED
      BY <2>2, <2>7, <3>1, <3>2, <3>3, <3>4 DEF AddsLeaf
  <2> QED
    BY <2>6, <2>8, <1>0, <1>6 DEF t2
<1> QED
  BY <1>9, <1>10

(* The path to a node, one slot for each token.                            *)
LEMMA PathMeans ==
  ASSUME NEW t, TreeShape(t), NEW p \in Names, p = <<>> \/ IsPosition(t, p)
  PROVE  /\ PathSlots(t, p) \in Seq(Slots) /\ Len(PathSlots(t, p)) = Len(p)
         /\ \A i \in 1..Len(p) : /\ PathSlots(t, p)[i] = SlotOf(t, SubSeq(p, 1, i))
                                 /\ IsPosition(t, SubSeq(p, 1, i))
<1> DEFINE n == Len(p)
           e(i) == SlotOf(t, SubSeq(p, 1, i))
           w == PathSlots(t, p)
<1>1. n \in Nat
  BY PrefixOrder
<1>2. ASSUME NEW i \in 1..n PROVE IsPosition(t, SubSeq(p, 1, i)) /\ e(i) \in Slots
  <2> DEFINE q == SubSeq(p, 1, i)
  <2>1. q \in Names /\ Len(q) = i /\ IsPrefix(q, p)
    <3>1. i \in 0..Len(p)
      BY <1>1
    <3> QED
      BY <3>1, Cuts
  <2> HIDE DEF q
  <2>2. q # <<>> /\ p # <<>>
    <3>1. Len(q) # 0 /\ Len(p) # 0
      BY <1>1, <2>1
    <3> QED
      BY <3>1, <2>1, PrefixOrder
  <2>3. PICK d \in DOMAIN t : IsPrefix(p, d) /\ d \in Names
    BY <2>2 DEF IsPosition, TreeShape, NodesBranch
  <2>4. IsPrefix(q, d)
    BY <2>1, <2>3, PrefixOrder
  <2>5. IsPosition(t, q)
    BY <2>1, <2>2, <2>4 DEF IsPosition
  <2>6. OnEdge(t, q, CutChild(t, q))
    BY <2>5, CutChildMeans DEF TreeShape
  <2>7. SlotOf(t, q) \in Slots
    BY <2>5, <2>6, SlotOfMeans
  <2> QED
    BY <2>5, <2>7 DEF q
<1>3. w = [i \in 1..n |-> e(i)]
  BY DEF PathSlots
<1> HIDE DEF n, w
<1>4. (\A i \in 1..n : e(i) \in Slots) /\ \A i \in 1..n : IsPosition(t, SubSeq(p, 1, i))
  BY <1>2
<1>5. \A i \in 1..n : w[i] = SlotOf(t, SubSeq(p, 1, i))
  BY <1>3
<1> HIDE DEF e
<1>6. w \in Seq(Slots)
  BY <1>1, <1>3, <1>4, IsASeq
<1>7. Len(w) = n
  <2>1. DOMAIN w = 1..n
    BY <1>3
  <2> QED
    BY <1>1, <1>6, <2>1, LenProperties
<1> QED
  BY <1>4, <1>5, <1>6, <1>7 DEF n, w
(* The trees differ in locks only.                                         *)
SameEdges(t, t2) ==
  /\ DOMAIN t2 = DOMAIN t
  /\ \A p \in DOMAIN t : t2[p].value = t[p].value /\ t2[p] \in [value : Seq(Slots), lock_ref : Int]

(* Locking moves no slot.                                                  *)
LEMMA RelockKeeps ==
  ASSUME NEW t, TreeShape(t), NEW t2, SameEdges(t, t2)
  PROVE  TreeShape(t2) /\ SameSlots(t, t2)
<1>1. DOMAIN t2 = DOMAIN t /\ NodesBranch(DOMAIN t)
  BY DEF SameEdges, TreeShape
<1>2. \A p : Ancestors(t2, p) = Ancestors(t, p) /\ Below(t2, p) = Below(t, p)
  BY <1>1 DEF Ancestors, Below
<1>3. ASSUME NEW p PROVE ParentLen(t2, p) = ParentLen(t, p)
  BY <1>2, Zenon DEF ParentLen
<1>4. ASSUME NEW p PROVE CutChild(t2, p) = CutChild(t, p)
  <2>1. Below(t2, p) = Below(t, p)
    BY <1>2
  <2> QED
    BY <2>1, Zenon DEF CutChild
<1>5. TreeShape(t2)
  BY <1>1, <1>3 DEF SameEdges, TreeShape
<1>6. \A q : IsPosition(t2, q) <=> IsPosition(t, q)
  BY <1>1 DEF IsPosition
<1>7. ASSUME NEW q, IsPosition(t, q) PROVE SlotOf(t2, q) = SlotOf(t, q)
  <2> DEFINE c == CutChild(t, q)
  <2>1. OnEdge(t, q, c) /\ CutChild(t2, q) = c
    BY <1>1, <1>4, <1>7, CutChildMeans
  <2>2. IsPosition(t2, q)
    BY <1>6, <1>7
  <2>3. OnEdge(t2, q, CutChild(t2, q))
    BY <1>1, <2>2, CutChildMeans
  <2> HIDE DEF c
  <2>4. SlotOf(t, q) = t[c].value[Len(q) - ParentLen(t, c)]
    BY <2>1, <1>7, SlotOfMeans
  <2>5. SlotOf(t2, q) = t2[c].value[Len(q) - ParentLen(t2, c)]
    BY <2>1, <2>2, <2>3, <1>5, SlotOfMeans
  <2>6. c \in DOMAIN t
    BY <2>1 DEF OnEdge
  <2> QED
    BY <2>4, <2>5, <2>6, <1>3 DEF SameEdges
<1> QED
  BY <1>5, <1>6, <1>7 DEF SameSlots

(* inc_lock_ref and dec_lock_ref change locks only.                        *)
LEMMA LockingKeeps ==
  ASSUME NEW t, TreeShape(t), NEW node
  PROVE  /\ SameEdges(t, IncLock(t, node)) /\ SameEdges(t, DecLock(t, node))
         /\ \A p \in DOMAIN t :
              /\ IncLock(t, node)[p].lock_ref = t[p].lock_ref + (IF IsPrefix(p, node) THEN 1 ELSE 0)
              /\ DecLock(t, node)[p].lock_ref = t[p].lock_ref - (IF IsPrefix(p, node) THEN 1 ELSE 0)
<1>1. \A p \in DOMAIN t : t[p] \in [value : Seq(Slots), lock_ref : Int]
  BY DEF TreeShape
<1>2. ASSUME NEW p \in DOMAIN t
      PROVE  /\ IncLock(t, node)[p] \in [value : Seq(Slots), lock_ref : Int]
             /\ DecLock(t, node)[p] \in [value : Seq(Slots), lock_ref : Int]
             /\ IncLock(t, node)[p].value = t[p].value /\ DecLock(t, node)[p].value = t[p].value
             /\ IncLock(t, node)[p].lock_ref = t[p].lock_ref + (IF IsPrefix(p, node) THEN 1 ELSE 0)
             /\ DecLock(t, node)[p].lock_ref = t[p].lock_ref - (IF IsPrefix(p, node) THEN 1 ELSE 0)
  <2>1. /\ IncLock(t, node)[p] = IF IsPrefix(p, node) THEN [t[p] EXCEPT !.lock_ref = @ + 1] ELSE t[p]
        /\ DecLock(t, node)[p] = IF IsPrefix(p, node) THEN [t[p] EXCEPT !.lock_ref = @ - 1] ELSE t[p]
    BY DEF IncLock, DecLock
  <2>2. t[p] \in [value : Seq(Slots), lock_ref : Int]
    BY <1>1
  <2>3. CASE IsPrefix(p, node)
    BY <2>1, <2>2, <2>3
  <2>4. CASE ~IsPrefix(p, node)
    BY <2>1, <2>2, <2>4
  <2> QED
    BY <2>3, <2>4
<1>3. DOMAIN IncLock(t, node) = DOMAIN t /\ DOMAIN DecLock(t, node) = DOMAIN t
  BY DEF IncLock, DecLock
<1> QED
  BY <1>2, <1>3 DEF SameEdges

(* q is the prefix of p of length n.                                       *)
CutTo(q, p, n) == q = SubSeq(p, 1, n)

(* The i-th slot of an edge is that of the i-th position past the parent.  *)
LEMMA EdgePositions ==
  ASSUME NEW t, TreeShape(t), NEW p \in DOMAIN t, NEW i \in 1..Len(t[p].value),
         NEW q, CutTo(q, p, ParentLen(t, p) + i)
  PROVE  /\ IsPosition(t, q) /\ OnEdge(t, q, p) /\ SlotOf(t, q) = t[p].value[i]
         /\ Len(q) = ParentLen(t, p) + i
<1> DEFINE m == ParentLen(t, p)
           c == CutChild(t, q)
<1>0. /\ NodesBranch(DOMAIN t) /\ DOMAIN t \subseteq Names /\ p \in Names /\ p # <<>>
      /\ Len(t[p].value) = Len(p) - m /\ Len(p) \in Nat
  BY PrefixOrder DEF TreeShape, NodesBranch
<1>1. m \in Nat /\ m < Len(p) /\ LengthAbove(DOMAIN t, p, m)
  BY <1>0, ParentShorter, ParentLenMeans
<1> HIDE DEF m
<1>2. m + i \in 0..Len(p) /\ m + i > m /\ m + i \in Nat /\ i \in Nat
  BY <1>0, <1>1
<1>4. q \in Names /\ Len(q) = m + i /\ IsPrefix(q, p)
  BY <1>0, <1>2, Cuts DEF CutTo, m
<1>5. q # <<>>
  BY <1>1, <1>2, <1>4, PrefixOrder
<1>6. IsPosition(t, q)
  BY <1>4, <1>5 DEF IsPosition
<1>7. OnEdge(t, q, c)
  BY <1>0, <1>6, CutChildMeans
<1>8. c \in DOMAIN t /\ IsPrefix(q, c) /\ IsPrefix(c, p)
  BY <1>4, <1>7 DEF OnEdge
<1> HIDE DEF c
<1>9. c = p
  <2>1. SUFFICES ASSUME c # p PROVE FALSE
    OBVIOUS
  <2>2. Len(c) <= m
    BY <2>1, <1>1, <1>8 DEF LengthAbove
  <2>3. Len(q) <= Len(c) /\ Len(c) \in Nat
    BY <1>0, <1>4, <1>8, PrefixOrder
  <2> QED
    BY <2>2, <2>3, <1>1, <1>2, <1>4
<1>10. SlotOf(t, q) = t[p].value[Len(q) - m]
  BY <1>6, <1>7, <1>9, SlotOfMeans DEF m
<1>11. Len(q) - m = i
  BY <1>1, <1>2, <1>4
<1> QED
  BY <1>4, <1>6, <1>7, <1>9, <1>10, <1>11 DEF m

(* What a deletion of the nodes E leaves: the slots freed are those of the *)
(* tokens that are gone.                                                   *)
Deletes(t, t2, E) ==
  /\ TreeShape(t2) /\ DOMAIN t2 = DOMAIN t \ E /\ \A p \in DOMAIN t2 : t2[p] = t[p]
  /\ \A q : IsPosition(t2, q) => IsPosition(t, q) /\ SlotOf(t2, q) = SlotOf(t, q)
  /\ \A s : s \in NodeSlots(t, E) <=>
              \E q : IsPosition(t, q) /\ ~IsPosition(t2, q) /\ SlotOf(t, q) = s

(* Nodes are deleted with everything below them.                           *)
LEMMA DeleteMeans ==
  ASSUME NEW t, TreeShape(t), NEW E, E \subseteq DOMAIN t, \A p \in E : Below(t, p) \subseteq E
  PROVE  Deletes(t, Delete(t, E), E)
<1> DEFINE D == DOMAIN t
           t2 == Delete(t, E)
<1>0. NodesBranch(D) /\ D \subseteq Names \ {<<>>} /\ D \subseteq Names
  BY DEF TreeShape, NodesBranch
<1>1. DOMAIN t2 = D \ E /\ \A p \in D \ E : t2[p] = t[p]
  BY DEF Delete
<1>2. \A p \in E : \A d \in D : IsPrefix(p, d) => d \in E
  BY DEF Below
<1> HIDE DEF t2
<1>3. NodesBranch(D \ E)
  <2>1. IsFiniteSet(D \ E)
    BY <1>0, FS_Subset DEF NodesBranch
  <2>2. ASSUME NEW p \in D \ E, NEW q \in D \ E, NEW m \in Names \ {<<>>}, IsMeet(m, p, q) PROVE m \in D \ E
    <3>1. m \in D /\ IsPrefix(m, p)
      BY <2>2, <1>0 DEF NodesBranch, IsMeet
    <3> QED
      BY <3>1, <1>2
  <2> QED
    BY <1>0, <2>1, <2>2 DEF NodesBranch
<1>4. ASSUME NEW p \in D \ E PROVE ParentLen(t2, p) = ParentLen(t, p)
  <2>1. LengthAbove(D, p, ParentLen(t, p))
    BY <1>0, ParentLenMeans
  <2>2. \A a \in D : IsPrefix(a, p) => a \in D \ E
    BY <1>2
  <2>3. LengthAbove(D \ E, p, ParentLen(t, p))
    BY <2>1, <2>2 DEF LengthAbove
  <2>4. DOMAIN t2 \subseteq Names /\ p \in Names
    BY <1>0, <1>1
  <2>5. \A n : LengthAbove(D \ E, p, n) => n = ParentLen(t2, p)
    BY <2>4, <1>1, ParentLenMeans
  <2> QED
    BY <2>3, <2>5
<1>5. TreeShape(t2)
  BY <1>1, <1>3, <1>4 DEF TreeShape
<1>6. ASSUME NEW q, IsPosition(t2, q) PROVE IsPosition(t, q) /\ SlotOf(t2, q) = SlotOf(t, q)
  <2>1. IsPosition(t, q)
    BY <1>1, <1>6 DEF IsPosition
  <2> DEFINE e == CutChild(t, q)
  <2>2. OnEdge(t, q, e)
    BY <2>1, <1>0, CutChildMeans
  <2> HIDE DEF e
  <2>3. e \in D /\ IsPrefix(q, e) /\ \A p \in D : IsPrefix(q, p) => IsPrefix(e, p)
    BY <2>2 DEF OnEdge
  <2>4. e \notin E
    <3>1. PICK d \in D \ E : IsPrefix(q, d)
      BY <1>1, <1>6 DEF IsPosition
    <3>2. IsPrefix(e, d)
      BY <2>3, <3>1
    <3> QED
      BY <1>2, <3>2
  <2>5. OnEdge(t2, q, e)
    BY <2>3, <2>4, <1>1 DEF OnEdge
  <2>6. SlotOf(t, q) = t[e].value[Len(q) - ParentLen(t, e)]
    BY <2>1, <2>2, SlotOfMeans
  <2>7. SlotOf(t2, q) = t2[e].value[Len(q) - ParentLen(t2, e)]
    BY <2>5, <1>5, <1>6, SlotOfMeans
  <2>8. t2[e] = t[e] /\ ParentLen(t2, e) = ParentLen(t, e)
    BY <2>3, <2>4, <1>1, <1>4
  <2> QED
    BY <2>1, <2>6, <2>7, <2>8
<1>7. ASSUME NEW s, s \in NodeSlots(t, E)
      PROVE  \E q : IsPosition(t, q) /\ ~IsPosition(t2, q) /\ SlotOf(t, q) = s
  <2>1. PICK p \in E : s \in ToSet(t[p].value)
    BY <1>7 DEF NodeSlots
  <2>2. p \in D /\ t[p].value \in Seq(Slots)
    BY DEF TreeShape
  <2>3. PICK i \in 1..Len(t[p].value) : s = t[p].value[i]
    BY <2>1, <2>2, LenProperties DEF ToSet
  <2> DEFINE q == SubSeq(p, 1, ParentLen(t, p) + i)
  <2>4. IsPosition(t, q) /\ OnEdge(t, q, p) /\ SlotOf(t, q) = t[p].value[i]
    BY <2>2, EdgePositions DEF CutTo
  <2> HIDE DEF q
  <2>5. ~IsPosition(t2, q)
    BY <2>4, <1>1, <1>2 DEF OnEdge, IsPosition
  <2> QED
    BY <2>3, <2>4, <2>5
<1>8. ASSUME NEW q, IsPosition(t, q), ~IsPosition(t2, q) PROVE SlotOf(t, q) \in NodeSlots(t, E)
  <2> DEFINE e == CutChild(t, q)
  <2>1. OnEdge(t, q, e)
    BY <1>8, <1>0, CutChildMeans
  <2> HIDE DEF e
  <2>2. e \in D /\ IsPrefix(q, e)
    BY <2>1 DEF OnEdge
  <2>3. e \in E
    BY <2>2, <1>1, <1>8 DEF IsPosition
  <2>4. SlotOf(t, q) = t[e].value[Len(q) - ParentLen(t, e)] /\ Len(q) - ParentLen(t, e) \in 1..Len(t[e].value)
    BY <2>1, <1>8, SlotOfMeans
  <2>5. t[e].value \in Seq(Slots)
    BY <2>2 DEF TreeShape
  <2>6. SlotOf(t, q) \in ToSet(t[e].value)
    BY <2>4, <2>5, LenProperties DEF ToSet
  <2> QED
    BY <2>3, <2>6 DEF NodeSlots
<1> QED
  BY <1>1, <1>5, <1>6, <1>7, <1>8 DEF Deletes, t2

(* evict deletes unlocked nodes, with everything below them.               *)
LEMMA EvictionMeans ==
  ASSUME NEW t, TreeShape(t), NEW n, NEW E \in Evictions(t, n)
  PROVE  /\ E \subseteq DOMAIN t /\ \A p \in E : Below(t, p) \subseteq E
         /\ \A p \in E : t[p].lock_ref = 0
         /\ Deletes(t, Delete(t, E), E)
<1> DEFINE poppable == {p \in DOMAIN t : \A q \in Below(t, p) : t[q].lock_ref = 0}
<1>1. E \in EvictionsAmong(t, poppable, n)
  BY DEF Evictions
<1>2. E \in SUBSET poppable /\ \A p \in E : Below(t, p) \subseteq E
  <2> HIDE DEF poppable
  <2> QED
    BY <1>1 DEF EvictionsAmong
<1>3. E \subseteq DOMAIN t
  BY <1>2
<1>4. \A p \in E : t[p].lock_ref = 0
  <2>1. ASSUME NEW p \in E PROVE t[p].lock_ref = 0
    <3>1. p \in DOMAIN t /\ p \in Names
      BY <1>3 DEF TreeShape, NodesBranch
    <3>2. p \in Below(t, p)
      BY <3>1, PrefixOrder DEF Below
    <3> QED
      BY <1>2, <3>2
  <2> QED
    BY <2>1
<1> QED
  BY <1>2, <1>3, <1>4, DeleteMeans
-----------------------------------------------------------------------------
(* The fields of the requests.                                             *)

Results == [kind : {"prefill", "decode"}, loc : 0..NumSlots]

(* What the fields of a request are in each phase: ph is its phase, i its  *)
(* ids, f its fill_len, pre its prefix_indices, node its last_node, rw its *)
(* row and res its results.                                                *)
RequestOK(ph, i, f, pre, node, rw, res) ==
  /\ ph \in {"idle", "waiting", "finished", "done"} => rw = <<>> /\ pre = <<>> /\ node = <<>>
  /\ ph \in {"admitted", "chunked"} => rw = <<>>
  /\ ph \notin {"batch", "finished"} => res = <<>>
  /\ ph = "finished" => Len(res) = 1 /\ res[1].loc \in Slots
  /\ ph \in {"waiting", "admitted", "chunk", "chunked", "batch"} => Len(i) > 0
  /\ ph \in {"admitted", "chunk", "batch"} => 0 < f /\ Len(pre) <= f /\ f <= Len(i)
  /\ ph = "chunk" => Len(rw) = f
  /\ ph = "batch" =>
       /\ Len(rw) = (Len(i) - 1) + Len(res)
       /\ \A j \in 1..Len(res) :
            IF res[j].kind = "prefill" THEN j = 1 /\ f = Len(i)
            ELSE res[j].loc = rw[(Len(i) - 1) + j]
  /\ Len(res) <= 2

WellFormed ==
  /\ TreeShape(tree) /\ free_slots \in SUBSET Slots /\ kv \in [Slots -> Names]
  /\ phase \in [Reqs -> Phases] /\ ids \in [Reqs -> Names] /\ last_node \in [Reqs -> Names]
  /\ fill_len \in [Reqs -> Nat] /\ prompt_len \in [Reqs -> Nat]
  /\ prefix_indices \in [Reqs -> Seq(Slots)] /\ row \in [Reqs -> Seq(Slots)]
  /\ results \in [Reqs -> Seq(Results)]
  /\ \A r \in Reqs : RequestOK(phase[r], ids[r], fill_len[r], prefix_indices[r], last_node[r],
                               row[r], results[r])

(* A step that changes fields of r only.                                   *)
ChangesOnly(r) ==
  /\ phase' = [phase EXCEPT ![r] = phase'[r]]
  /\ ids' = [ids EXCEPT ![r] = ids'[r]]
  /\ last_node' = [last_node EXCEPT ![r] = last_node'[r]]
  /\ fill_len' = [fill_len EXCEPT ![r] = fill_len'[r]]
  /\ prompt_len' = [prompt_len EXCEPT ![r] = prompt_len'[r]]
  /\ prefix_indices' = [prefix_indices EXCEPT ![r] = prefix_indices'[r]]
  /\ row' = [row EXCEPT ![r] = row'[r]]
  /\ results' = [results EXCEPT ![r] = results'[r]]

(* What r's own fields must be after such a step.                          *)
LEMMA OneRequest ==
  ASSUME WellFormed, NEW r \in Reqs, ChangesOnly(r),
         TreeShape(tree'), free_slots' \in SUBSET Slots, kv' \in [Slots -> Names],
         phase'[r] \in Phases, ids'[r] \in Names, last_node'[r] \in Names,
         fill_len'[r] \in Nat, prompt_len'[r] \in Nat,
         prefix_indices'[r] \in Seq(Slots), row'[r] \in Seq(Slots), results'[r] \in Seq(Results),
         RequestOK(phase'[r], ids'[r], fill_len'[r], prefix_indices'[r], last_node'[r],
                   row'[r], results'[r])
  PROVE  WellFormed'
<1>1. /\ phase' \in [Reqs -> Phases] /\ ids' \in [Reqs -> Names] /\ last_node' \in [Reqs -> Names]
      /\ fill_len' \in [Reqs -> Nat] /\ prompt_len' \in [Reqs -> Nat]
      /\ prefix_indices' \in [Reqs -> Seq(Slots)] /\ row' \in [Reqs -> Seq(Slots)]
      /\ results' \in [Reqs -> Seq(Results)]
  BY DEF WellFormed, ChangesOnly
<1>2. ASSUME NEW q \in Reqs
      PROVE  RequestOK(phase'[q], ids'[q], fill_len'[q], prefix_indices'[q], last_node'[q],
                       row'[q], results'[q])
  <2>1. CASE q = r
    BY <2>1
  <2>2. CASE q # r
    <3>1. /\ phase'[q] = phase[q] /\ ids'[q] = ids[q] /\ fill_len'[q] = fill_len[q]
          /\ prefix_indices'[q] = prefix_indices[q] /\ last_node'[q] = last_node[q]
          /\ row'[q] = row[q] /\ results'[q] = results[q]
      BY <2>2 DEF WellFormed, ChangesOnly
    <3>2. RequestOK(phase[q], ids[q], fill_len[q], prefix_indices[q], last_node[q], row[q], results[q])
      BY DEF WellFormed
    <3> QED
      BY <3>1, <3>2, Zenon
  <2> QED
    BY <2>1, <2>2
<1> QED
  BY <1>1, <1>2 DEF WellFormed
-----------------------------------------------------------------------------
(* The allocator.                                                          *)

(* alloc takes n different slots of those offered.                         *)
LEMMA TakeFreeMeans ==
  ASSUME NEW S \in SUBSET Slots, NEW n \in Nat, n <= Cardinality(S)
  PROVE  /\ TakeFree(S, n) \in Seq(Slots) /\ Len(TakeFree(S, n)) = n
         /\ \A i \in 1..n : TakeFree(S, n)[i] \in S
         /\ \A i, j \in 1..n : TakeFree(S, n)[i] = TakeFree(S, n)[j] => i = j
<1>1. IsFiniteSet(S)
  <2>1. IsFiniteSet(Slots)
    BY SizesPositive, FS_Interval DEF Slots
  <2> QED
    BY <2>1, FS_Subset
<1> DEFINE k == Cardinality(S)
           f == TakeFree(S, n)
<1>2. k \in Nat /\ ExistsBijection(1..k, S)
  BY <1>1, FS_CardinalityType
<1>3. PICK b \in [1..k -> S] : \A i, j \in 1..k : b[i] = b[j] => i = j
  BY <1>2 DEF ExistsBijection, Bijection, Injection, IsInjective
<1> HIDE DEF k, f
<1>4. n <= k
  BY DEF k
<1>5. \E g \in [1..n -> S] : IsInjective(g)
  <2> DEFINE g == [i \in 1..n |-> b[i]]
  <2>1. g \in [1..n -> S]
    BY <1>2, <1>3, <1>4
  <2>2. IsInjective(g)
    BY <1>2, <1>3, <1>4 DEF IsInjective
  <2> QED
    BY <2>1, <2>2
<1>6. f \in [1..n -> S] /\ IsInjective(f)
  BY <1>5 DEF f, TakeFree
<1>7. f \in Seq(Slots) /\ Len(f) = n
  <2>1. f \in Seq(S)
    BY <1>6, SeqDef
  <2> QED
    BY <1>6, <2>1
<1>8. \A i, j \in 1..n : f[i] = f[j] => i = j
  BY <1>6 DEF IsInjective
<1> QED
  BY <1>6, <1>7, <1>8 DEF f

(* What alloc_token_slots does: the slots taken were free or of the nodes  *)
(* E that were evicted.                                                    *)
Allocates(n, E, new) ==
  /\ Deletes(tree, tree', E) /\ E \subseteq DOMAIN tree
  /\ \A p \in E : tree[p].lock_ref = 0
  /\ new \in Seq(Slots) /\ Len(new) = n
  /\ \A i \in 1..n : new[i] \in free_slots \cup NodeSlots(tree, E)
  /\ \A i, j \in 1..n : new[i] = new[j] => i = j
  /\ \A s : s \in free_slots' <=> s \in free_slots \cup NodeSlots(tree, E) /\ \A i \in 1..n : s # new[i]

(* The slots of nodes are slots.                                           *)
LEMMA NodeSlotsType ==
  ASSUME NEW t, TreeShape(t), NEW E, E \subseteq DOMAIN t
  PROVE  NodeSlots(t, E) \subseteq Slots
<1>1. ASSUME NEW s \in NodeSlots(t, E) PROVE s \in Slots
  <2>1. PICK p \in E : s \in ToSet(t[p].value)
    BY DEF NodeSlots
  <2>2. t[p].value \in Seq(Slots)
    BY DEF TreeShape
  <2> HIDE DEF Slots
  <2> QED
    BY <2>1, <2>2 DEF ToSet
<1> QED
  BY <1>1

(* An allocation, with the eviction it may need.                           *)
LEMMA AllocMeans ==
  ASSUME TreeShape(tree), free_slots \in SUBSET Slots,
         NEW n \in Nat, NEW E \in EvictionsFor(tree, n), AllocTokens(n, E)
  PROVE  Allocates(n, E, Allocated(n, E)) /\ free_slots' \in SUBSET Slots
<1> DEFINE new == Allocated(n, E)
           free == free_slots \cup NodeSlots(tree, E)
<1>1. /\ E \subseteq DOMAIN tree /\ \A p \in E : tree[p].lock_ref = 0
      /\ Deletes(tree, Delete(tree, E), E)
  <2>1. CASE Cardinality(free_slots) < n
    <3>1. E \in Evictions(tree, n)
      BY <2>1 DEF EvictionsFor
    <3> QED
      BY <3>1, EvictionMeans
  <2>2. CASE ~(Cardinality(free_slots) < n)
    <3>1. E = {}
      BY <2>2 DEF EvictionsFor
    <3> QED
      BY <3>1, DeleteMeans
  <2> QED
    BY <2>1, <2>2
<1>2. free \in SUBSET Slots
  BY <1>1, NodeSlotsType
<1>3. /\ Cardinality(free) >= n /\ free_slots' = free \ ToSet(new) /\ tree' = Delete(tree, E)
      /\ new = TakeFree(free, n)
  BY DEF AllocTokens, Allocated
<1> HIDE DEF free, new
<1>4. n <= Cardinality(free)
  <2>1. IsFiniteSet(Slots)
    BY SizesPositive, FS_Interval DEF Slots
  <2>2. Cardinality(free) \in Nat
    BY <1>2, <2>1, FS_Subset, FS_CardinalityType
  <2> QED
    BY <1>3, <2>2
<1>5. /\ new \in Seq(Slots) /\ Len(new) = n
      /\ \A i \in 1..n : new[i] \in free
      /\ \A i, j \in 1..n : new[i] = new[j] => i = j
  BY <1>2, <1>3, <1>4, TakeFreeMeans
<1>6. \A s : s \in free_slots' <=> s \in free /\ \A i \in 1..n : s # new[i]
  <2>1. ToSet(new) = {new[i] : i \in 1..n}
    BY <1>5 DEF ToSet
  <2> QED
    BY <1>3, <2>1
<1>7. Deletes(tree, tree', E)
  BY <1>1, <1>3, Zenon
<1>8. Allocates(n, E, new)
  BY <1>1, <1>5, <1>6, <1>7 DEF Allocates, free
<1> QED
  BY <1>2, <1>3, <1>8 DEF new
-----------------------------------------------------------------------------
(* Handing KV to the cache.                                                *)

(* The elements of a segment.                                              *)
LEMMA SegmentMeans ==
  ASSUME NEW S, NEW s \in Seq(S), NEW a \in Nat, NEW n \in Nat, n <= Len(s)
  PROVE  \A x : x \in ToSet(SubSeq(s, a + 1, n)) <=> \E i \in a+1..n : x = s[i]
<1> DEFINE w == SubSeq(s, a + 1, n)
           m == a + 1
<1>1. m \in Int /\ n \in Int /\ \A i \in m..n : s[i] \in S
  BY ElementOfSeq, LenProperties
<1>2. m = a + 1
  OBVIOUS
<1> HIDE DEF m
<1>3. /\ SubSeq(s, m, n) \in Seq(S)
      /\ Len(SubSeq(s, m, n)) = IF m <= n THEN n - m + 1 ELSE 0
      /\ \A i \in 1..n-m+1 : SubSeq(s, m, n)[i] = s[m + i - 1]
  BY <1>1, SubSeqProperties
<1>4. w \in Seq(S) /\ Len(w) = (IF m <= n THEN n - m + 1 ELSE 0) /\ \A i \in 1..n-m+1 : w[i] = s[m + i - 1]
  BY <1>3 DEF m
<1> HIDE DEF w
<1>5. \A i : i \in 1..Len(w) <=> i \in 1..n-m+1
  BY <1>1, <1>4
<1>6. \A x : x \in ToSet(w) <=> \E i \in 1..n-m+1 : x = s[m + i - 1]
  BY <1>4, <1>5, LenProperties DEF ToSet
<1>7. ASSUME NEW x PROVE (\E i \in 1..n-m+1 : x = s[m + i - 1]) <=> (\E i \in m..n : x = s[i])
  <2>1. ASSUME NEW i \in 1..n-m+1 PROVE m + i - 1 \in m..n
    BY <1>1
  <2>2. ASSUME NEW i \in m..n PROVE (i - m) + 1 \in 1..n-m+1 /\ m + ((i - m) + 1) - 1 = i
    BY <1>1
  <2> QED
    BY <2>1, <2>2
<1> QED
  BY <1>2, <1>6, <1>7, ZenonT(30) DEF w

(* Matching a node that is there splits nothing.                           *)
LEMMA MatchAgain ==
  ASSUME NEW t, TreeShape(t), NEW key \in DOMAIN t
  PROVE  LET m == MatchPrefix(t, key)
         IN  m.tree = t /\ m.node = key /\ m.value = PathSlots(t, key)
<1> DEFINE m == MatchPrefix(t, key)
<1>1. key \in Names /\ key # <<>>
  BY DEF TreeShape, NodesBranch
<1>2. Matches(t, key, m)
  BY <1>1, MatchMeans
<1> HIDE DEF m
<1>3. IsPosition(t, key) /\ IsPrefix(key, key)
  BY <1>1, PrefixOrder DEF IsPosition
<1>4. IsPrefix(key, m.node) /\ IsPrefix(m.node, key) /\ m.node \in Names
  BY <1>2, <1>3 DEF Matches
<1>5. m.node = key
  <2>1. Len(m.node) <= Len(key)
    BY <1>1, <1>4, PrefixOrder
  <2> QED
    BY <1>1, <1>4, <2>1, PrefixOrder
<1>6. m.tree = t
  BY <1>2, <1>5 DEF Matches, SplitsNode, CutsEdge
<1> QED
  BY <1>2, <1>5, <1>6 DEF Matches, m

(* The key and the slots a request hands over.                             *)
Hands(r, n, key, value) ==
  /\ key \in Names /\ Len(key) = n /\ key # <<>> /\ IsPrefix(key, ids[r])
  /\ value \in Seq(Slots) /\ Len(value) = n
  /\ \A i \in 1..n : value[i] = row[r][i]

(* The first n tokens and slots of a request, as handed over.              *)
LEMMA HandsMeans ==
  ASSUME WellFormed, NEW r \in Reqs, NEW n \in Nat \ {0}, n <= Len(ids[r]), n <= Len(row[r])
  PROVE  Hands(r, n, SubSeq(ids[r], 1, n), SubSeq(row[r], 1, n))
<1>1. ids[r] \in Names /\ row[r] \in Seq(Slots)
  BY DEF WellFormed
<1>2. n \in 0..Len(ids[r]) /\ n \in 0..Len(row[r])
  BY <1>1, LenProperties DEF Names
<1>3. SubSeq(ids[r], 1, n) \in Names /\ Len(SubSeq(ids[r], 1, n)) = n /\ IsPrefix(SubSeq(ids[r], 1, n), ids[r])
  BY <1>1, <1>2, Cuts
<1>4. SubSeq(ids[r], 1, n) # <<>>
  BY <1>3, PrefixOrder
<1>5. /\ SubSeq(row[r], 1, n) \in Seq(Slots) /\ Len(SubSeq(row[r], 1, n)) = n
      /\ \A i \in 1..n : SubSeq(row[r], 1, n)[i] = row[r][i]
  BY <1>1, <1>2, Truncated
<1> QED
  BY <1>3, <1>4, <1>5 DEF Hands

(* The slots freed as duplicates are those of the row up to n.             *)
LEMMA DuplicatesMeans ==
  ASSUME WellFormed, NEW r \in Reqs, NEW n \in Nat, n <= Len(row[r])
  PROVE  /\ \A s : s \in Duplicates(r, n) <=> \E i \in Len(prefix_indices[r])+1..n : s = row[r][i]
         /\ Duplicates(r, n) \subseteq Slots
<1>1. row[r] \in Seq(Slots) /\ Len(prefix_indices[r]) \in Nat
  BY LenProperties DEF WellFormed
<1>2. \A s : s \in Duplicates(r, n) <=> \E i \in Len(prefix_indices[r])+1..n : s = row[r][i]
  BY <1>1, SegmentMeans DEF Duplicates
<1>3. \A i \in Len(prefix_indices[r])+1..n : row[r][i] \in Slots
  BY <1>1, ElementOfSeq, LenProperties
<1> QED
  BY <1>2, <1>3

(* What cache_unfinished_req does: t is the tree after the insertion, which*)
(* found n tokens of the key there.                                        *)
Caches(r, key, value, t, n) ==
  /\ Inserts(tree, t, key, value, n)
  /\ \E t1, u : SplitsNode(tree, t1, u) /\ AddsLeaf(t1, t, key, Len(key) - n)
  /\ TreeShape(tree') /\ SameEdges(t, tree') /\ SameSlots(t, tree')
  /\ n \in 0..Len(key)
  /\ free_slots' = free_slots \cup Duplicates(r, n)

(* The lock of r moves to key, and the sizes follow.                       *)
Moves(r, key, t, n) ==
  LET unlocked == DecLock(t, last_node[r])
      down == Toggled(t, last_node[r], 1)
      up == Toggled(unlocked, key, 0)
  IN  /\ tree' = IncLock(unlocked, key)
      /\ last_node' = [last_node EXCEPT ![r] = key]
      /\ evictable_size' = evictable_size + (Len(key) - n) + down - up
      /\ protected_size' = protected_size - down + up

(* The effect of cache_unfinished_req.                                     *)
LEMMA CacheUnfinishedMeans ==
  ASSUME WellFormed, NEW r \in Reqs, CacheUnfinished(r),
         0 < fill_len[r], fill_len[r] <= Len(ids[r]), fill_len[r] <= Len(row[r]),
         NEW key, CutTo(key, ids[r], fill_len[r]),
         NEW value, CutTo(value, row[r], fill_len[r]),
         NEW ins, ins = Insert(tree, key, value)
  PROVE  /\ Hands(r, fill_len[r], key, value)
         /\ Caches(r, key, value, ins.tree, ins.prefix_len)
         /\ Moves(r, key, ins.tree, ins.prefix_len)
         /\ prefix_indices' = [prefix_indices EXCEPT ![r] = PathSlots(ins.tree, key)]
         /\ last_node' = [last_node EXCEPT ![r] = key]
<1> DEFINE t == ins.tree
           m == MatchPrefix(t, key)
           unlocked == DecLock(t, last_node[r])
<1>1. Hands(r, fill_len[r], key, value)
  <2>1. fill_len[r] \in Nat \ {0}
    BY DEF WellFormed
  <2>2. Hands(r, fill_len[r], SubSeq(ids[r], 1, fill_len[r]), SubSeq(row[r], 1, fill_len[r]))
    BY <2>1, HandsMeans
  <2> QED
    BY <2>2, Zenon DEF CutTo
<1>2. /\ Inserts(tree, t, key, value, ins.prefix_len)
      /\ \E t1, u : SplitsNode(tree, t1, u) /\ AddsLeaf(t1, t, key, Len(key) - ins.prefix_len)
  <2>1. key \in Names /\ key # <<>> /\ value \in Seq(Slots) /\ Len(value) = Len(key) /\ TreeShape(tree)
    BY <1>1 DEF Hands, WellFormed
  <2> QED
    BY <2>1, InsertMeans
<1>3. TreeShape(t) /\ key \in DOMAIN t /\ ins.prefix_len \in 0..Len(key)
  BY <1>2 DEF Inserts
<1>4. m.tree = t /\ m.node = key /\ m.value = PathSlots(t, key)
  BY <1>3, MatchAgain
<1>5. /\ tree' = IncLock(DecLock(m.tree, last_node[r]), m.node)
      /\ evictable_size' = evictable_size + (Len(key) - ins.prefix_len)
                             + Toggled(m.tree, last_node[r], 1)
                             - Toggled(DecLock(m.tree, last_node[r]), m.node, 0)
      /\ protected_size' = protected_size - Toggled(m.tree, last_node[r], 1)
                             + Toggled(DecLock(m.tree, last_node[r]), m.node, 0)
      /\ free_slots' = free_slots \cup Duplicates(r, ins.prefix_len)
      /\ prefix_indices' = [prefix_indices EXCEPT ![r] = m.value]
      /\ last_node' = [last_node EXCEPT ![r] = m.node]
  BY Zenon DEF CacheUnfinished, CutTo
<1> HIDE DEF t, m
<1>6. /\ tree' = IncLock(unlocked, key)
      /\ evictable_size' = evictable_size + (Len(key) - ins.prefix_len)
                             + Toggled(t, last_node[r], 1) - Toggled(unlocked, key, 0)
      /\ protected_size' = protected_size - Toggled(t, last_node[r], 1) + Toggled(unlocked, key, 0)
      /\ prefix_indices' = [prefix_indices EXCEPT ![r] = PathSlots(t, key)]
      /\ last_node' = [last_node EXCEPT ![r] = key]
  BY <1>4, <1>5, Zenon
<1>7. SameEdges(t, unlocked) /\ TreeShape(unlocked)
  BY <1>3, LockingKeeps, RelockKeeps
<1> HIDE DEF unlocked
<1>8. SameEdges(unlocked, tree') /\ TreeShape(tree')
  <2>1. SameEdges(unlocked, IncLock(unlocked, key)) /\ TreeShape(IncLock(unlocked, key))
    BY <1>7, LockingKeeps, RelockKeeps
  <2> QED
    BY <2>1, <1>6, Zenon
<1>9. SameEdges(t, tree') /\ SameSlots(t, tree')
  <2>1. SameEdges(t, tree')
    BY <1>7, <1>8 DEF SameEdges
  <2> QED
    BY <2>1, <1>3, RelockKeeps
<1>10. Caches(r, key, value, t, ins.prefix_len)
  BY <1>2, <1>3, <1>5, <1>8, <1>9 DEF Caches
<1>11. Moves(r, key, t, ins.prefix_len)
  BY <1>6, Zenon DEF Moves, unlocked
<1> QED
  BY <1>1, <1>6, <1>10, <1>11 DEF t

(* The effect of cache_finished_req.                                       *)
LEMMA CacheFinishedMeans ==
  ASSUME WellFormed, NEW r \in Reqs, CacheFinished(r),
         0 < Len(ids[r]), Len(ids[r]) <= Len(row[r]),
         NEW key, key = ids[r],
         NEW value, CutTo(value, row[r], Len(ids[r])),
         NEW ins, ins = Insert(tree, key, value)
  PROVE  /\ Hands(r, Len(ids[r]), key, value)
         /\ Caches(r, key, value, ins.tree, ins.prefix_len)
         /\ tree' = DecLock(ins.tree, last_node[r])
         /\ ReleaseRow(r)
         /\ evictable_size' = evictable_size + (Len(key) - ins.prefix_len)
                                + Toggled(ins.tree, last_node[r], 1)
         /\ protected_size' = protected_size - Toggled(ins.tree, last_node[r], 1)
<1> DEFINE t == ins.tree
<1>1. Hands(r, Len(ids[r]), key, value)
  <2>1. Len(ids[r]) \in Nat \ {0} /\ ids[r] \in Names
    BY PrefixOrder DEF WellFormed
  <2>2. Hands(r, Len(ids[r]), SubSeq(ids[r], 1, Len(ids[r])), SubSeq(row[r], 1, Len(ids[r])))
    <3>1. Len(ids[r]) <= Len(ids[r])
      BY <2>1
    <3> QED
      BY <2>1, <3>1, HandsMeans
  <2>3. SubSeq(ids[r], 1, Len(ids[r])) = ids[r]
    BY <2>1, SubSeqFull DEF Names
  <2> QED
    BY <2>2, <2>3, Zenon DEF CutTo
<1>2. /\ Inserts(tree, t, key, value, ins.prefix_len)
      /\ \E t1, u : SplitsNode(tree, t1, u) /\ AddsLeaf(t1, t, key, Len(key) - ins.prefix_len)
  <2>1. key \in Names /\ key # <<>> /\ value \in Seq(Slots) /\ Len(value) = Len(key) /\ TreeShape(tree)
    BY <1>1 DEF Hands, WellFormed
  <2> QED
    BY <2>1, InsertMeans
<1>3. TreeShape(t) /\ key \in DOMAIN t /\ ins.prefix_len \in 0..Len(key)
  BY <1>2 DEF Inserts
<1>4. /\ tree' = DecLock(t, last_node[r])
      /\ evictable_size' = evictable_size + (Len(key) - ins.prefix_len) + Toggled(t, last_node[r], 1)
      /\ protected_size' = protected_size - Toggled(t, last_node[r], 1)
      /\ free_slots' = free_slots \cup Duplicates(r, ins.prefix_len)
      /\ ReleaseRow(r)
  BY Zenon DEF CacheFinished, CutTo
<1> HIDE DEF t
<1>5. SameEdges(t, tree')
  <2>1. SameEdges(t, DecLock(t, last_node[r]))
    BY <1>3, LockingKeeps
  <2> QED
    BY <2>1, <1>4, Zenon
<1>6. TreeShape(tree') /\ SameSlots(t, tree')
  BY <1>3, <1>5, RelockKeeps
<1>7. Caches(r, key, value, t, ins.prefix_len)
  BY <1>2, <1>3, <1>4, <1>5, <1>6 DEF Caches
<1> QED
  BY <1>1, <1>4, <1>7 DEF t
-----------------------------------------------------------------------------
(* The steps keep the requests and the tree well-formed.                   *)

(* What a step leaves of the KV.                                           *)
LEMMA KVBecomesType ==
  ASSUME NEW f \in [Slots -> Names], KVBecomes(f)
  PROVE  kv' \in [Slots -> Names]
<1>1. <<>> \in Names
  BY PrefixOrder
<1>2. kv' = [s \in Slots |-> IF s \in free_slots' THEN <<>> ELSE f[s]]
  BY DEF KVBecomes
<1> HIDE DEF Slots
<1> QED
  BY <1>1, <1>2

(* The states of the program are well-formed at the start.                 *)
LEMMA WellFormedInit == Init => WellFormed
<1> SUFFICES ASSUME Init PROVE WellFormed
  OBVIOUS
<1> USE DEF Init
<1>0. <<>> \in Names /\ <<>> \in Seq(Slots) /\ <<>> \in Seq(Results) /\ Len(<<>>) = 0
  BY EmptySeq, PrefixOrder
<1>1. TreeShape(tree)
  <2>1. DOMAIN tree = {}
    BY DEF EmptyTree
  <2> QED
    BY <2>1, FS_EmptySet DEF TreeShape, NodesBranch
<1>2. "idle" \in Phases /\ 0 \in Nat
  BY DEF Phases
<1>3. ASSUME NEW r \in Reqs
      PROVE  RequestOK(phase[r], ids[r], fill_len[r], prefix_indices[r], last_node[r], row[r], results[r])
  <2>1. /\ phase[r] = "idle" /\ row[r] = <<>> /\ prefix_indices[r] = <<>> /\ last_node[r] = <<>>
        /\ results[r] = <<>>
    OBVIOUS
  <2> QED
    BY <1>0, <2>1 DEF RequestOK
<1> HIDE DEF Slots
<1> QED
  BY <1>0, <1>1, <1>2, <1>3 DEF WellFormed

(* A request comes.                                                        *)
LEMMA ReceiveWellFormed ==
  ASSUME WellFormed, NEW r \in Reqs, NEW prompt \in Prompts, Receive(r, prompt)
  PROVE  WellFormed'
<1>1. prompt \in Names /\ prompt # <<>> /\ Len(prompt) \in Nat /\ Len(prompt) > 0
  <2>1. prompt \in Names /\ prompt # <<>>
    BY PromptsAssumption DEF Names
  <2> QED
    BY <2>1, PrefixOrder
<1>2. ChangesOnly(r)
  BY DEF Receive, ChangesOnly, WellFormed
<1>3. /\ tree' = tree /\ free_slots' = free_slots /\ kv' = kv
      /\ phase[r] = "idle" /\ phase'[r] = "waiting" /\ ids'[r] = prompt /\ prompt_len'[r] = Len(prompt)
      /\ last_node'[r] = last_node[r] /\ fill_len'[r] = fill_len[r]
      /\ prefix_indices'[r] = prefix_indices[r] /\ row'[r] = row[r] /\ results'[r] = results[r]
  BY DEF Receive, WellFormed, cacheVars
<1>4. RequestOK(phase'[r], ids'[r], fill_len'[r], prefix_indices'[r], last_node'[r], row'[r], results'[r])
  <2>1. RequestOK(phase[r], ids[r], fill_len[r], prefix_indices[r], last_node[r], row[r], results[r])
    BY DEF WellFormed
  <2> QED
    BY <1>1, <1>3, <2>1 DEF RequestOK
<1>5. /\ TreeShape(tree') /\ free_slots' \in SUBSET Slots /\ kv' \in [Slots -> Names]
      /\ phase'[r] \in Phases /\ ids'[r] \in Names /\ last_node'[r] \in Names
      /\ fill_len'[r] \in Nat /\ prompt_len'[r] \in Nat
      /\ prefix_indices'[r] \in Seq(Slots) /\ row'[r] \in Seq(Slots) /\ results'[r] \in Seq(Results)
  BY <1>1, <1>3 DEF WellFormed, Phases
<1> QED
  BY <1>2, <1>4, <1>5, OneRequest

(* A match that leads to no admission.                                     *)
LEMMA PeekMeans ==
  ASSUME WellFormed, NEW r \in Reqs, Peek(r)
  PROVE  /\ TreeShape(tree') /\ \E u : SplitsNode(tree, tree', u)
         /\ ids[r] \in Names /\ MaxPrefixIds(r) \in Names /\ IsPrefix(MaxPrefixIds(r), ids[r])
<1>1. phase[r] = "waiting" /\ ids[r] \in Names /\ Len(ids[r]) > 0 /\ Len(ids[r]) \in Nat /\ TreeShape(tree)
  <2>1. RequestOK(phase[r], ids[r], fill_len[r], prefix_indices[r], last_node[r], row[r], results[r])
    BY DEF WellFormed
  <2>2. phase[r] = "waiting" /\ ids[r] \in Names /\ TreeShape(tree)
    BY DEF Peek, WellFormed
  <2> QED
    BY <2>1, <2>2, PrefixOrder DEF RequestOK
<1>2. MaxPrefixIds(r) \in Names /\ IsPrefix(MaxPrefixIds(r), ids[r])
  <2>1. Len(ids[r]) - 1 \in 0..Len(ids[r])
    BY <1>1
  <2> QED
    BY <1>1, <2>1, Cuts DEF MaxPrefixIds
<1> DEFINE m == MatchPrefix(tree, MaxPrefixIds(r))
<1>3. Matches(tree, MaxPrefixIds(r), m) /\ tree' = m.tree
  BY <1>1, <1>2, MatchMeans DEF Peek
<1> HIDE DEF m
<1> QED
  BY <1>1, <1>2, <1>3 DEF Matches, SplitsNode

(* It leaves the requests alone.                                           *)
LEMMA PeekWellFormed ==
  ASSUME WellFormed, NEW r \in Reqs, Peek(r)
  PROVE  WellFormed'
<1>1. TreeShape(tree')
  BY PeekMeans
<1>2. UNCHANGED <<free_slots, phase, prompt_len, ids, fill_len, prefix_indices, last_node, row, results, kv>>
  BY DEF Peek
<1> QED
  BY <1>1, <1>2 DEF WellFormed

(* The fields of a request.                                                *)
LEMMA FieldsMean ==
  ASSUME WellFormed, NEW r \in Reqs
  PROVE  /\ RequestOK(phase[r], ids[r], fill_len[r], prefix_indices[r], last_node[r], row[r], results[r])
         /\ phase[r] \in Phases /\ ids[r] \in Names /\ Len(ids[r]) \in Nat /\ last_node[r] \in Names
         /\ fill_len[r] \in Nat /\ prompt_len[r] \in Nat
         /\ prefix_indices[r] \in Seq(Slots) /\ Len(prefix_indices[r]) \in Nat
         /\ row[r] \in Seq(Slots) /\ Len(row[r]) \in Nat
         /\ results[r] \in Seq(Results) /\ Len(results[r]) \in Nat
         /\ TreeShape(tree) /\ free_slots \in SUBSET Slots /\ kv \in [Slots -> Names]
<1>1. /\ RequestOK(phase[r], ids[r], fill_len[r], prefix_indices[r], last_node[r], row[r], results[r])
      /\ phase[r] \in Phases /\ ids[r] \in Names /\ last_node[r] \in Names
      /\ fill_len[r] \in Nat /\ prompt_len[r] \in Nat
      /\ prefix_indices[r] \in Seq(Slots) /\ row[r] \in Seq(Slots) /\ results[r] \in Seq(Results)
      /\ TreeShape(tree) /\ free_slots \in SUBSET Slots /\ kv \in [Slots -> Names]
  BY DEF WellFormed
<1> QED
  BY <1>1, LenProperties DEF Names

(* What add_one_req finds and does.                                        *)
LEMMA AdmitMeans ==
  ASSUME WellFormed, NEW r \in Reqs, NEW n \in 1..ChunkSize, Admit(r, n),
         NEW m, m = MatchPrefix(tree, MaxPrefixIds(r))
  PROVE  /\ Matches(tree, MaxPrefixIds(r), m) /\ IsPrefix(m.node, ids[r])
         /\ TreeShape(m.tree) /\ SameEdges(m.tree, tree') /\ TreeShape(tree') /\ SameSlots(m.tree, tree')
         /\ tree' = IncLock(m.tree, m.node)
         /\ m.node \in Names /\ (m.node = <<>> \/ m.node \in DOMAIN m.tree)
         /\ m.value \in Seq(Slots) /\ Len(m.value) = Len(m.node) /\ Len(m.value) \in Nat
         /\ n \in Nat /\ n > 0 /\ Len(m.value) + n <= Len(ids[r])
<1> DEFINE key == MaxPrefixIds(r)
<1>0. n \in Nat /\ n > 0
  BY SizesPositive
<1>1. /\ phase[r] = "waiting" /\ n <= Len(ids[r]) - Len(m.value)
      /\ tree' = IncLock(m.tree, m.node)
  BY Zenon DEF Admit
<1>2. ids[r] \in Names /\ Len(ids[r]) > 0 /\ Len(ids[r]) \in Nat /\ TreeShape(tree)
  <2>1. RequestOK(phase[r], ids[r], fill_len[r], prefix_indices[r], last_node[r], row[r], results[r])
    BY FieldsMean
  <2> QED
    BY <1>1, <2>1, FieldsMean DEF RequestOK
<1>3. key \in Names /\ IsPrefix(key, ids[r])
  <2>1. Len(ids[r]) - 1 \in 0..Len(ids[r])
    BY <1>2
  <2> QED
    BY <1>2, <2>1, Cuts DEF MaxPrefixIds
<1> HIDE DEF key
<1>4. Matches(tree, key, m)
  BY <1>2, <1>3, MatchMeans DEF key
<1>5. /\ TreeShape(m.tree) /\ m.node \in Names /\ IsPrefix(m.node, key)
      /\ (m.node = <<>> \/ m.node \in DOMAIN m.tree) /\ m.value = PathSlots(m.tree, m.node)
  BY <1>4 DEF Matches, SplitsNode
<1>6. IsPrefix(m.node, ids[r])
  BY <1>2, <1>3, <1>5, PrefixOrder
<1>7. m.value \in Seq(Slots) /\ Len(m.value) = Len(m.node) /\ Len(m.value) \in Nat
  <2>1. m.node = <<>> \/ IsPosition(m.tree, m.node)
    <3>1. m.node \in DOMAIN m.tree => m.node # <<>> /\ IsPrefix(m.node, m.node)
      BY <1>5, PrefixOrder DEF TreeShape, NodesBranch
    <3> QED
      BY <1>5, <3>1 DEF IsPosition
  <2>2. PathSlots(m.tree, m.node) \in Seq(Slots) /\ Len(PathSlots(m.tree, m.node)) = Len(m.node)
    BY <1>5, <2>1, PathMeans
  <2>3. m.value \in Seq(Slots) /\ Len(m.value) = Len(m.node)
    BY <1>5, <2>2, Zenon
  <2> QED
    BY <2>3, LenProperties
<1>8. SameEdges(m.tree, tree')
  <2>1. SameEdges(m.tree, IncLock(m.tree, m.node))
    BY <1>5, LockingKeeps
  <2> QED
    BY <2>1, <1>1, Zenon
<1>9. TreeShape(tree') /\ SameSlots(m.tree, tree')
  BY <1>5, <1>8, RelockKeeps
<1> QED
  BY <1>0, <1>1, <1>2, <1>4, <1>5, <1>6, <1>7, <1>8, <1>9 DEF key

(* A request that was admitted, with n tokens to compute.                  *)
LEMMA AdmittedOK ==
  ASSUME NEW i, NEW pre, NEW node, NEW n \in Nat, n > 0,
         Len(pre) \in Nat, Len(i) \in Nat, Len(pre) + n <= Len(i)
  PROVE  RequestOK("admitted", i, Len(pre) + n, pre, node, <<>>, <<>>)
<1>1. Len(<<>>) = 0
  BY EmptySeq
<1>2. 0 < Len(pre) + n /\ Len(pre) <= Len(pre) + n /\ Len(i) > 0
  OBVIOUS
<1> QED
  BY <1>1, <1>2 DEF RequestOK

(* add_one_req.                                                            *)
LEMMA AdmitWellFormed ==
  ASSUME WellFormed, NEW r \in Reqs, NEW n \in 1..ChunkSize, Admit(r, n)
  PROVE  WellFormed'
<1> DEFINE m == MatchPrefix(tree, MaxPrefixIds(r))
<1>1. /\ phase[r] = "waiting"
      /\ prefix_indices' = [prefix_indices EXCEPT ![r] = m.value]
      /\ last_node' = [last_node EXCEPT ![r] = m.node]
      /\ fill_len' = [fill_len EXCEPT ![r] = Len(m.value) + n]
      /\ phase' = [phase EXCEPT ![r] = "admitted"]
      /\ UNCHANGED <<free_slots, prompt_len, ids, row, results, kv>>
  BY DEF Admit
<1>2. /\ TreeShape(tree') /\ m.node \in Names /\ m.value \in Seq(Slots) /\ Len(m.value) \in Nat
      /\ n \in Nat /\ n > 0 /\ Len(m.value) + n <= Len(ids[r])
  <2> HIDE DEF m
  <2>1. m = MatchPrefix(tree, MaxPrefixIds(r))
    BY DEF m
  <2> QED
    BY <2>1, AdmitMeans
<1> HIDE DEF m
<1>3. ChangesOnly(r)
  BY <1>1 DEF ChangesOnly, WellFormed
<1>4. /\ phase'[r] = "admitted" /\ ids'[r] = ids[r] /\ fill_len'[r] = Len(m.value) + n
      /\ prefix_indices'[r] = m.value /\ last_node'[r] = m.node /\ row'[r] = row[r]
      /\ results'[r] = results[r] /\ prompt_len'[r] = prompt_len[r]
  BY <1>1 DEF WellFormed
<1>5. RequestOK(phase'[r], ids'[r], fill_len'[r], prefix_indices'[r], last_node'[r], row'[r], results'[r])
  <2>1. row[r] = <<>> /\ results[r] = <<>> /\ Len(ids[r]) \in Nat
    <3>1. RequestOK(phase[r], ids[r], fill_len[r], prefix_indices[r], last_node[r], row[r], results[r])
      BY FieldsMean
    <3> QED
      BY <1>1, <3>1, FieldsMean DEF RequestOK
  <2>2. RequestOK("admitted", ids[r], Len(m.value) + n, m.value, m.node, <<>>, <<>>)
    BY <1>2, <2>1, AdmittedOK
  <2> QED
    BY <1>4, <2>1, <2>2, Zenon
<1>6. /\ free_slots' \in SUBSET Slots /\ kv' \in [Slots -> Names]
      /\ phase'[r] \in Phases /\ ids'[r] \in Names /\ last_node'[r] \in Names
      /\ fill_len'[r] \in Nat /\ prompt_len'[r] \in Nat
      /\ prefix_indices'[r] \in Seq(Slots) /\ row'[r] \in Seq(Slots) /\ results'[r] \in Seq(Results)
  BY <1>1, <1>2, <1>4 DEF WellFormed, Phases
<1> QED
  BY <1>2, <1>3, <1>5, <1>6, OneRequest

(* add_chunked_req.                                                        *)
LEMMA AddChunkedWellFormed ==
  ASSUME WellFormed, NEW r \in Reqs, NEW n \in 1..ChunkSize, AddChunked(r, n)
  PROVE  WellFormed'
<1>0. n \in Nat /\ n > 0 /\ Len(ids[r]) \in Nat /\ Len(prefix_indices[r]) \in Nat
  BY SizesPositive, FieldsMean
<1>1. /\ phase[r] = "chunked" /\ n <= Len(ids[r]) - Len(prefix_indices[r])
      /\ fill_len' = [fill_len EXCEPT ![r] = Len(prefix_indices[r]) + n]
      /\ phase' = [phase EXCEPT ![r] = "admitted"]
      /\ UNCHANGED <<tree, free_slots, prompt_len, ids, prefix_indices, last_node, row, results, kv>>
  BY DEF AddChunked, cacheVars
<1>3. ChangesOnly(r)
  BY <1>1 DEF ChangesOnly, WellFormed
<1>4. /\ phase'[r] = "admitted" /\ ids'[r] = ids[r] /\ fill_len'[r] = Len(prefix_indices[r]) + n
      /\ prefix_indices'[r] = prefix_indices[r] /\ last_node'[r] = last_node[r] /\ row'[r] = row[r]
      /\ results'[r] = results[r] /\ prompt_len'[r] = prompt_len[r]
  BY <1>1 DEF WellFormed
<1>5. RequestOK(phase'[r], ids'[r], fill_len'[r], prefix_indices'[r], last_node'[r], row'[r], results'[r])
  <2>1. row[r] = <<>> /\ results[r] = <<>>
    <3>1. RequestOK(phase[r], ids[r], fill_len[r], prefix_indices[r], last_node[r], row[r], results[r])
      BY FieldsMean
    <3> QED
      BY <1>1, <3>1, FieldsMean DEF RequestOK
  <2>2. Len(prefix_indices[r]) + n <= Len(ids[r])
    BY <1>0, <1>1
  <2>3. RequestOK("admitted", ids[r], Len(prefix_indices[r]) + n, prefix_indices[r], last_node[r], <<>>, <<>>)
    BY <1>0, <2>2, AdmittedOK
  <2> QED
    BY <1>4, <2>1, <2>3, Zenon
<1>6. /\ TreeShape(tree') /\ free_slots' \in SUBSET Slots /\ kv' \in [Slots -> Names]
      /\ phase'[r] \in Phases /\ ids'[r] \in Names /\ last_node'[r] \in Names
      /\ fill_len'[r] \in Nat /\ prompt_len'[r] \in Nat
      /\ prefix_indices'[r] \in Seq(Slots) /\ row'[r] \in Seq(Slots) /\ results'[r] \in Seq(Results)
  BY <1>0, <1>1, <1>4 DEF WellFormed, Phases
<1> QED
  BY <1>3, <1>5, <1>6, OneRequest

(* A request whose chunk runs.                                             *)
LEMMA ChunkOK ==
  ASSUME NEW i, NEW f \in Nat, NEW pre, NEW node, NEW rw,
         0 < f, Len(pre) <= f, f <= Len(i), Len(i) \in Nat, Len(rw) = f
  PROVE  RequestOK("chunk", i, f, pre, node, rw, <<>>)
<1>1. Len(<<>>) = 0
  BY EmptySeq
<1>2. Len(i) > 0
  OBVIOUS
<1> QED
  BY <1>1, <1>2 DEF RequestOK

(* A request whose prompt runs to its end.                                 *)
LEMMA PrefillOK ==
  ASSUME NEW i, NEW f \in Nat, NEW pre, NEW node, NEW rw,
         0 < f, Len(pre) <= f, f = Len(i), Len(rw) = f
  PROVE  RequestOK("batch", i, f, pre, node, rw, <<PrefillResult>>)
<1> DEFINE res == <<PrefillResult>>
<1>1. Len(res) = 1 /\ res[1].kind = "prefill"
  BY DEF PrefillResult
<1> HIDE DEF res
<1>2. \A j \in 1..Len(res) : res[j].kind = "prefill" /\ j = 1
  BY <1>1
<1>3. Len(rw) = (Len(i) - 1) + Len(res) /\ Len(i) > 0 /\ Len(res) <= 2
  BY <1>1
<1>4. RequestOK("batch", i, f, pre, node, rw, res)
  BY <1>2, <1>3 DEF RequestOK
<1> QED
  BY <1>4 DEF res

(* What prepare_for_extend does with the slots new.                        *)
Extends(r, n, new) ==
  /\ n \in Nat /\ n = fill_len[r] - Len(prefix_indices[r])
  /\ row' = [row EXCEPT ![r] = prefix_indices[r] \o new]
  /\ \A i \in 1..n : \A q : CutTo(q, ids[r], Len(prefix_indices[r]) + i) => kv'[new[i]] = q
  /\ \A s \in Slots : s \notin free_slots' /\ (\A i \in 1..n : s # new[i]) => kv'[s] = kv[s]
  /\ \A s \in free_slots' : kv'[s] = <<>>

(* The effect of prepare_for_extend.                                       *)
LEMMA ExtendMeans ==
  ASSUME WellFormed, NEW r \in Reqs, PrepareForExtend(r)
  PROVE  /\ 0 < fill_len[r] /\ Len(prefix_indices[r]) <= fill_len[r] /\ fill_len[r] <= Len(ids[r])
         /\ free_slots' \in SUBSET Slots /\ kv' \in [Slots -> Names]
         /\ \E n, E, new : Allocates(n, E, new) /\ Extends(r, n, new)
                           /\ E \in EvictionsFor(tree, n) /\ AllocTokens(n, E)
<1> DEFINE pre == Len(prefix_indices[r])
           n == fill_len[r] - pre
<1>1. 0 < fill_len[r] /\ pre <= fill_len[r] /\ fill_len[r] <= Len(ids[r])
  <2>1. RequestOK(phase[r], ids[r], fill_len[r], prefix_indices[r], last_node[r], row[r], results[r])
    BY FieldsMean
  <2>2. phase[r] = "admitted"
    BY DEF PrepareForExtend
  <2> QED
    BY <2>1, <2>2 DEF RequestOK
<1>2. PICK E \in EvictionsFor(tree, n) :
        /\ AllocTokens(n, E)
        /\ row' = [row EXCEPT ![r] = prefix_indices[r] \o Allocated(n, E)]
        /\ KVBecomes([s \in Slots |->
             IF s \in ToSet(Allocated(n, E))
             THEN SubSeq(ids[r], 1, pre + CHOOSE i \in 1..n : Allocated(n, E)[i] = s)
             ELSE kv[s]])
  BY DEF PrepareForExtend
<1> DEFINE new == Allocated(n, E)
           at(s) == CHOOSE i \in 1..n : new[i] = s
           f == [s \in Slots |-> IF s \in ToSet(new) THEN SubSeq(ids[r], 1, pre + at(s)) ELSE kv[s]]
<1>3. /\ ids[r] \in Names /\ Len(ids[r]) \in Nat /\ fill_len[r] \in Nat /\ pre \in Nat
      /\ TreeShape(tree) /\ free_slots \in SUBSET Slots /\ kv \in [Slots -> Names]
  BY FieldsMean
<1>4. KVBecomes(f)
  BY <1>2
<1>5. n = fill_len[r] - pre
  OBVIOUS
<1>a. row' = [row EXCEPT ![r] = prefix_indices[r] \o new]
  BY <1>2
<1> HIDE DEF f, at, new, n, pre, Slots
<1>6. n \in Nat
  BY <1>1, <1>3, <1>5
<1>7. Allocates(n, E, new) /\ free_slots' \in SUBSET Slots
  BY <1>2, <1>3, <1>6, AllocMeans DEF new
<1>8. /\ ToSet(new) = {new[i] : i \in 1..n}
      /\ \A i \in 1..n : new[i] \in Slots /\ new[i] \notin free_slots'
      /\ \A i, j \in 1..n : new[i] = new[j] => i = j
  <2>1. /\ new \in Seq(Slots) /\ Len(new) = n
        /\ \A i, j \in 1..n : new[i] = new[j] => i = j
        /\ \A i \in 1..n : new[i] \notin free_slots'
    BY <1>7 DEF Allocates
  <2> QED
    BY <2>1 DEF ToSet
<1>9. \A i \in 1..n : at(new[i]) = i
  BY <1>8 DEF at
<1>10. \A i \in 1..n : pre + i \in 0..Len(ids[r])
  BY <1>1, <1>3, <1>5
<1>11. \A i \in 1..n : \A q : CutTo(q, ids[r], pre + i) => q \in Names /\ f[new[i]] = q
  <2>1. ASSUME NEW i \in 1..n, NEW q, CutTo(q, ids[r], pre + i) PROVE q \in Names /\ f[new[i]] = q
    <3>1. q \in Names
      BY <1>3, <1>10, <2>1, Cuts DEF CutTo
    <3>2. new[i] \in Slots /\ new[i] \in ToSet(new) /\ at(new[i]) = i
      BY <1>8, <1>9
    <3>3. f[new[i]] = SubSeq(ids[r], 1, pre + at(new[i]))
      BY <3>2 DEF f
    <3> QED
      BY <3>1, <3>2, <3>3, <2>1, Zenon DEF CutTo
  <2> QED
    BY <2>1
<1>12. \A s \in Slots : (\A i \in 1..n : s # new[i]) => f[s] = kv[s]
  BY <1>8 DEF f
<1>13. f \in [Slots -> Names]
  <2>1. ASSUME NEW s \in Slots PROVE f[s] \in Names
    <3>1. CASE \A i \in 1..n : s # new[i]
      BY <1>3, <1>12, <3>1
    <3>2. ASSUME NEW i \in 1..n, s = new[i] PROVE f[s] \in Names
      <4>1. CutTo(SubSeq(ids[r], 1, pre + i), ids[r], pre + i)
        BY DEF CutTo
      <4> QED
        BY <3>2, <4>1, <1>11
    <3> QED
      BY <3>1, <3>2
  <2> QED
    BY <2>1 DEF f
<1>14. kv' \in [Slots -> Names]
  BY <1>4, <1>13, KVBecomesType
<1>15. \A s \in Slots : kv'[s] = IF s \in free_slots' THEN <<>> ELSE f[s]
  BY <1>4 DEF KVBecomes
<1>16. /\ \A i \in 1..n : \A q : CutTo(q, ids[r], pre + i) => kv'[new[i]] = q
       /\ \A s \in Slots : s \notin free_slots' /\ (\A i \in 1..n : s # new[i]) => kv'[s] = kv[s]
       /\ \A s \in free_slots' : kv'[s] = <<>>
  BY <1>7, <1>8, <1>11, <1>12, <1>15
<1>17. Extends(r, n, new)
  BY <1>5, <1>6, <1>16, <1>a DEF Extends, pre
<1> QED
  BY <1>1, <1>2, <1>7, <1>14, <1>17 DEF pre

(* prepare_for_extend.                                                     *)
LEMMA ExtendWellFormed ==
  ASSUME WellFormed, NEW r \in Reqs, PrepareForExtend(r)
  PROVE  WellFormed'
<1> DEFINE f == fill_len[r]
           pre == prefix_indices[r]
           rw == row'[r]
<1>1. /\ 0 < f /\ Len(pre) <= f /\ f <= Len(ids[r])
      /\ free_slots' \in SUBSET Slots /\ kv' \in [Slots -> Names]
  BY ExtendMeans
<1>2. PICK n, E, new : Allocates(n, E, new) /\ Extends(r, n, new)
  BY ExtendMeans
<1>3. /\ results' = [results EXCEPT ![r] = IF f = Len(ids[r]) THEN <<PrefillResult>> ELSE <<>>]
      /\ phase' = [phase EXCEPT ![r] = IF f = Len(ids[r]) THEN "batch" ELSE "chunk"]
      /\ UNCHANGED <<prompt_len, ids, fill_len, prefix_indices, last_node>>
  BY DEF PrepareForExtend
<1>4. /\ Len(ids[r]) \in Nat /\ f \in Nat /\ pre \in Seq(Slots) /\ Len(pre) \in Nat
      /\ phase[r] \in Phases
  BY FieldsMean
<1>5. /\ row' = [row EXCEPT ![r] = pre \o new] /\ n = f - Len(pre) /\ n \in Nat
      /\ new \in Seq(Slots) /\ Len(new) = n /\ TreeShape(tree')
  BY <1>2 DEF Extends, Allocates, Deletes
<1>6. rw = pre \o new
  BY <1>5 DEF WellFormed
<1>7. rw \in Seq(Slots) /\ Len(rw) = f
  <2>1. Joins(rw, pre, new)
    BY <1>6 DEF Joins
  <2> HIDE DEF rw, pre, f, Slots
  <2>2. rw \in Seq(Slots) /\ Len(rw) = Len(pre) + n
    BY <2>1, <1>4, <1>5, Concatenated
  <2> QED
    BY <2>2, <1>4, <1>5
<1>8. ChangesOnly(r)
  BY <1>3, <1>5 DEF ChangesOnly, WellFormed
<1>9. /\ ids'[r] = ids[r] /\ fill_len'[r] = f /\ prefix_indices'[r] = pre
      /\ last_node'[r] = last_node[r] /\ prompt_len'[r] = prompt_len[r]
      /\ phase'[r] = IF f = Len(ids[r]) THEN "batch" ELSE "chunk"
      /\ results'[r] = IF f = Len(ids[r]) THEN <<PrefillResult>> ELSE <<>>
  BY <1>3 DEF WellFormed
<1> HIDE DEF f, pre, rw, Slots
<1>10. RequestOK(phase'[r], ids'[r], fill_len'[r], prefix_indices'[r], last_node'[r], row'[r], results'[r])
  <2>1. CASE f = Len(ids[r])
    <3>1. RequestOK("batch", ids[r], f, pre, last_node[r], rw, <<PrefillResult>>)
      BY <1>1, <1>4, <1>7, <2>1, PrefillOK
    <3>2. phase'[r] = "batch" /\ results'[r] = <<PrefillResult>>
      BY <1>9, <2>1
    <3> QED
      BY <1>9, <3>1, <3>2, Zenon DEF rw
  <2>2. CASE f # Len(ids[r])
    <3>1. RequestOK("chunk", ids[r], f, pre, last_node[r], rw, <<>>)
      BY <1>1, <1>4, <1>7, ChunkOK
    <3>2. phase'[r] = "chunk" /\ results'[r] = <<>>
      BY <1>9, <2>2
    <3> QED
      BY <1>9, <3>1, <3>2, Zenon DEF rw
  <2> QED
    BY <2>1, <2>2
<1>11. results'[r] \in Seq(Results)
  <2>1. PrefillResult \in Results
    BY SizesPositive DEF PrefillResult, Results
  <2>2. <<PrefillResult>> \in Seq(Results) /\ <<>> \in Seq(Results)
    BY <2>1
  <2> QED
    BY <1>9, <2>2, Zenon
<1>12. /\ phase'[r] \in Phases /\ ids'[r] \in Names /\ last_node'[r] \in Names
       /\ fill_len'[r] \in Nat /\ prompt_len'[r] \in Nat
       /\ prefix_indices'[r] \in Seq(Slots) /\ row'[r] \in Seq(Slots)
  <2>1. phase'[r] \in Phases
    BY <1>9 DEF Phases
  <2> QED
    BY <1>4, <1>7, <1>9, <2>1, FieldsMean DEF rw
<1> QED
  BY <1>1, <1>5, <1>8, <1>10, <1>11, <1>12, OneRequest

(* u is s with x behind it.                                                *)
Appends(u, s, x) == u = Append(s, x)

(* One more element.                                                       *)
LEMMA Appended ==
  ASSUME NEW S, NEW s \in Seq(S), NEW x \in S, NEW u, Appends(u, s, x), NEW n \in Nat, Len(s) = n
  PROVE  /\ u \in Seq(S) /\ Len(u) = n + 1 /\ u[n + 1] = x
         /\ \A i \in 1..n : u[i] = s[i]
BY AppendProperties DEF Appends

(* The row and the results of a request that decodes.                      *)
LEMMA DecodeOK ==
  ASSUME NEW i, NEW f, NEW pre, NEW node, NEW rw \in Seq(Slots), NEW res \in Seq(Results),
         RequestOK("batch", i, f, pre, node, rw, res), Len(res) <= 1, NEW l \in Nat, Len(i) = l,
         NEW slot \in Slots, NEW rw2, Appends(rw2, rw, slot),
         NEW res2, Appends(res2, res, DecodeResult(slot))
  PROVE  /\ RequestOK("batch", i, f, pre, node, rw2, res2)
         /\ rw2 \in Seq(Slots) /\ res2 \in Seq(Results)
         /\ Len(rw2) = Len(rw) + 1 /\ rw2[Len(rw) + 1] = slot /\ \A j \in 1..Len(rw) : rw2[j] = rw[j]
<1> DEFINE x == Len(rw)
           y == Len(res)
           d == DecodeResult(slot)
<1>1. x \in Nat /\ y \in Nat
  BY LenProperties
<1>2. d \in Results /\ d.kind = "decode" /\ d.loc = slot
  BY SizesPositive DEF DecodeResult, Results, Slots
<1>3. /\ x = (l - 1) + y /\ l > 0 /\ y <= 1
      /\ \A j \in 1..y : IF res[j].kind = "prefill" THEN j = 1 /\ f = l ELSE res[j].loc = rw[(l - 1) + j]
      /\ 0 < f /\ Len(pre) <= f /\ f <= l
  BY DEF RequestOK
<1> HIDE DEF x, y, d, Slots, Results
<1>4. /\ rw2 \in Seq(Slots) /\ Len(rw2) = x + 1 /\ rw2[x + 1] = slot /\ \A j \in 1..x : rw2[j] = rw[j]
      /\ res2 \in Seq(Results) /\ Len(res2) = y + 1 /\ res2[y + 1] = d /\ \A j \in 1..y : res2[j] = res[j]
  <2>1. Appends(rw2, rw, slot) /\ Appends(res2, res, d) /\ Len(rw) = x /\ Len(res) = y
    BY DEF x, y, d
  <2>2. rw2 \in Seq(Slots) /\ Len(rw2) = x + 1 /\ rw2[x + 1] = slot /\ \A j \in 1..x : rw2[j] = rw[j]
    BY <1>1, <2>1, Appended
  <2>3. res2 \in Seq(Results) /\ Len(res2) = y + 1 /\ res2[y + 1] = d /\ \A j \in 1..y : res2[j] = res[j]
    <3>1. d \in Results /\ res \in Seq(Results) /\ y \in Nat
      BY <1>1, <1>2
    <3> QED
      BY <2>1, <3>1, Appended
  <2> QED
    BY <2>2, <2>3
<1>5. ASSUME NEW j \in 1..y+1
      PROVE  IF res2[j].kind = "prefill" THEN j = 1 /\ f = l ELSE res2[j].loc = rw2[(l - 1) + j]
  <2>1. CASE j = y + 1
    <3>1. res2[j] = d /\ (l - 1) + j = x + 1
      BY <1>1, <1>3, <1>4, <2>1
    <3>2. res2[j].kind = "decode" /\ res2[j].loc = slot /\ rw2[(l - 1) + j] = slot
      BY <1>2, <1>4, <3>1, Zenon
    <3> QED
      BY <3>2
  <2>2. CASE j # y + 1
    <3>1. j \in 1..y /\ (l - 1) + j \in 1..x
      BY <1>1, <1>3, <2>2
    <3> QED
      BY <1>3, <1>4, <3>1
  <2> QED
    BY <2>1, <2>2
<1>6. x + 1 = (l - 1) + (y + 1) /\ y + 1 <= 2
  BY <1>1, <1>3
<1>7. RequestOK("batch", i, f, pre, node, rw2, res2)
  BY <1>3, <1>4, <1>5, <1>6 DEF RequestOK
<1> QED
  BY <1>4, <1>7 DEF x

(* What prepare_for_decode does with the slot.                             *)
Decodes(r, slot) ==
  /\ slot \in Slots /\ slot \notin free_slots'
  /\ row' = [row EXCEPT ![r] = Append(@, slot)]
  /\ results' = [results EXCEPT ![r] = Append(@, DecodeResult(slot))]
  /\ kv'[slot] = IF results[r] = <<>> THEN ids[r] ELSE <<>>
  /\ \A s \in Slots : s \notin free_slots' /\ s # slot => kv'[s] = kv[s]
  /\ \A s \in free_slots' : kv'[s] = <<>>

(* The effect of prepare_for_decode.                                       *)
LEMMA DecodeMeans ==
  ASSUME WellFormed, NEW r \in Reqs, PrepareForDecode(r)
  PROVE  /\ free_slots' \in SUBSET Slots /\ kv' \in [Slots -> Names]
         /\ \E E, new : Allocates(1, E, new) /\ Decodes(r, new[1])
                        /\ E \in EvictionsFor(tree, 1) /\ AllocTokens(1, E)
<1>1. PICK E \in EvictionsFor(tree, 1) :
        LET slot == Allocated(1, E)[1]
        IN  /\ AllocTokens(1, E)
            /\ row' = [row EXCEPT ![r] = Append(@, slot)]
            /\ results' = [results EXCEPT ![r] = Append(@, DecodeResult(slot))]
            /\ KVBecomes([kv EXCEPT ![slot] = IF results[r] = <<>> THEN ids[r] ELSE <<>>])
  BY DEF PrepareForDecode
<1> DEFINE new == Allocated(1, E)
           slot == new[1]
           g == IF results[r] = <<>> THEN ids[r] ELSE <<>>
           f == [kv EXCEPT ![slot] = g]
<1>2. /\ AllocTokens(1, E)
      /\ row' = [row EXCEPT ![r] = Append(@, slot)]
      /\ results' = [results EXCEPT ![r] = Append(@, DecodeResult(slot))]
      /\ KVBecomes(f)
  BY <1>1
<1>3. /\ ids[r] \in Names /\ TreeShape(tree) /\ free_slots \in SUBSET Slots /\ kv \in [Slots -> Names]
      /\ <<>> \in Names
  BY FieldsMean, PrefixOrder
<1>4. Allocates(1, E, new) /\ free_slots' \in SUBSET Slots
  BY <1>2, <1>3, AllocMeans
<1> HIDE DEF new
<1>5. slot \in Slots /\ slot \notin free_slots'
  <2>1. new \in Seq(Slots) /\ Len(new) = 1 /\ \A i \in 1..1 : new[i] \notin free_slots'
    BY <1>4 DEF Allocates
  <2> HIDE DEF Slots
  <2>2. 1 \in 1..Len(new)
    BY <2>1
  <2> QED
    BY <2>1, <2>2, ElementOfSeq
<1>6. g \in Names
  BY <1>3
<1> HIDE DEF slot, g, Slots
<1>7. f \in [Slots -> Names] /\ f[slot] = g /\ \A s \in Slots : s # slot => f[s] = kv[s]
  BY <1>3, <1>5, <1>6
<1> HIDE DEF f
<1>8. kv' \in [Slots -> Names]
  BY <1>2, <1>7, KVBecomesType
<1>9. \A s \in Slots : kv'[s] = IF s \in free_slots' THEN <<>> ELSE f[s]
  BY <1>2 DEF KVBecomes
<1>10. kv'[slot] = IF results[r] = <<>> THEN ids[r] ELSE <<>>
  BY <1>5, <1>7, <1>9 DEF g
<1>11. Decodes(r, slot)
  BY <1>2, <1>4, <1>5, <1>7, <1>9, <1>10 DEF Decodes
<1> QED
  BY <1>1, <1>2, <1>4, <1>8, <1>11 DEF new, slot

(* prepare_for_decode.                                                     *)
LEMMA DecodeWellFormed ==
  ASSUME WellFormed, NEW r \in Reqs, PrepareForDecode(r)
  PROVE  WellFormed'
<1>1. free_slots' \in SUBSET Slots /\ kv' \in [Slots -> Names]
  BY DecodeMeans
<1>2. PICK E, new : Allocates(1, E, new) /\ Decodes(r, new[1])
  BY DecodeMeans
<1> DEFINE slot == new[1]
<1>3. /\ slot \in Slots
      /\ row' = [row EXCEPT ![r] = Append(@, slot)]
      /\ results' = [results EXCEPT ![r] = Append(@, DecodeResult(slot))]
      /\ TreeShape(tree')
  BY <1>2 DEF Decodes, Allocates, Deletes
<1> HIDE DEF slot
<1>4. /\ phase[r] = "batch" /\ Len(results[r]) <= IF Overlap THEN 1 ELSE 0
      /\ UNCHANGED <<phase, prompt_len, ids, fill_len, prefix_indices, last_node>>
  BY DEF PrepareForDecode
<1>5. Len(results[r]) <= 1
  <2>1. Len(results[r]) \in Nat
    BY FieldsMean
  <2>2. CASE Overlap
    BY <1>4, <2>1, <2>2
  <2>3. CASE ~Overlap
    BY <1>4, <2>1, <2>3
  <2> QED
    BY <2>2, <2>3
<1>6. ChangesOnly(r)
  BY <1>3, <1>4 DEF ChangesOnly, WellFormed
<1>7. /\ phase'[r] = phase[r] /\ ids'[r] = ids[r] /\ fill_len'[r] = fill_len[r]
      /\ prefix_indices'[r] = prefix_indices[r] /\ last_node'[r] = last_node[r]
      /\ prompt_len'[r] = prompt_len[r]
      /\ row'[r] = Append(row[r], slot)
      /\ results'[r] = Append(results[r], DecodeResult(slot))
  BY <1>3, <1>4 DEF WellFormed
<1>8. /\ RequestOK("batch", ids[r], fill_len[r], prefix_indices[r], last_node[r], row'[r], results'[r])
      /\ row'[r] \in Seq(Slots) /\ results'[r] \in Seq(Results)
  <2>1. RequestOK("batch", ids[r], fill_len[r], prefix_indices[r], last_node[r], row[r], results[r])
    <3>1. RequestOK(phase[r], ids[r], fill_len[r], prefix_indices[r], last_node[r], row[r], results[r])
      BY FieldsMean
    <3> QED
      BY <1>4, <3>1, Zenon
  <2>2. Appends(row'[r], row[r], slot) /\ Appends(results'[r], results[r], DecodeResult(slot))
    BY <1>7 DEF Appends
  <2>3. row[r] \in Seq(Slots) /\ results[r] \in Seq(Results) /\ Len(ids[r]) \in Nat
    BY FieldsMean
  <2> QED
    BY <1>3, <1>5, <2>1, <2>2, <2>3, DecodeOK, ZenonT(30)
<1>9. RequestOK(phase'[r], ids'[r], fill_len'[r], prefix_indices'[r], last_node'[r], row'[r], results'[r])
  BY <1>4, <1>7, <1>8, Zenon
<1>10. /\ phase'[r] \in Phases /\ ids'[r] \in Names /\ last_node'[r] \in Names
       /\ fill_len'[r] \in Nat /\ prompt_len'[r] \in Nat /\ prefix_indices'[r] \in Seq(Slots)
  BY <1>7, FieldsMean
<1> QED
  BY <1>1, <1>3, <1>6, <1>8, <1>9, <1>10, OneRequest

(* What cache_unfinished_req gives r to read: the path to key.             *)
LEMMA UnfinishedFields ==
  ASSUME WellFormed, NEW r \in Reqs, CacheUnfinished(r),
         0 < fill_len[r], fill_len[r] <= Len(ids[r]), fill_len[r] <= Len(row[r])
  PROVE  /\ TreeShape(tree') /\ free_slots' \in SUBSET Slots
         /\ \E pre, key :
              /\ pre \in Seq(Slots) /\ Len(pre) = fill_len[r] /\ key \in Names
              /\ prefix_indices' = [prefix_indices EXCEPT ![r] = pre]
              /\ last_node' = [last_node EXCEPT ![r] = key]
<1> DEFINE f == fill_len[r]
<1>1. PICK key, value : CutTo(key, ids[r], fill_len[r]) /\ CutTo(value, row[r], fill_len[r])
  BY DEF CutTo
<1>2. PICK ins : ins = Insert(tree, key, value)
  OBVIOUS
<1> DEFINE pre == PathSlots(ins.tree, key)
<1> HIDE DEF pre, Slots
<1>3. /\ Hands(r, f, key, value) /\ Caches(r, key, value, ins.tree, ins.prefix_len)
      /\ prefix_indices' = [prefix_indices EXCEPT ![r] = PathSlots(ins.tree, key)]
      /\ last_node' = [last_node EXCEPT ![r] = key]
  <2>1. Hands(r, fill_len[r], key, value)
    BY <1>1, <1>2, CacheUnfinishedMeans
  <2>2. Caches(r, key, value, ins.tree, ins.prefix_len)
    BY <1>1, <1>2, CacheUnfinishedMeans
  <2>3. prefix_indices' = [prefix_indices EXCEPT ![r] = PathSlots(ins.tree, key)]
    BY <1>1, <1>2, CacheUnfinishedMeans, ZenonT(90)
  <2>4. last_node' = [last_node EXCEPT ![r] = key]
    BY <1>1, <1>2, CacheUnfinishedMeans
  <2> QED
    BY <2>1, <2>2, <2>3, <2>4
<1>4. /\ TreeShape(ins.tree) /\ key \in DOMAIN ins.tree /\ TreeShape(tree')
      /\ ins.prefix_len \in 0..f /\ key \in Names /\ key # <<>> /\ Len(key) = f
      /\ free_slots' = free_slots \cup Duplicates(r, ins.prefix_len)
  BY <1>3 DEF Caches, Hands, Inserts
<1>5. free_slots' \in SUBSET Slots
  <2>1. f \in Nat /\ Len(row[r]) \in Nat /\ free_slots \in SUBSET Slots
    BY FieldsMean
  <2>2. ins.prefix_len \in Nat /\ ins.prefix_len <= Len(row[r])
    BY <1>4, <2>1
  <2>3. Duplicates(r, ins.prefix_len) \subseteq Slots
    BY <2>2, DuplicatesMeans
  <2> QED
    BY <1>4, <2>1, <2>3
<1>6. IsPosition(ins.tree, key)
  BY <1>4, PrefixOrder DEF IsPosition
<1>7. PathSlots(ins.tree, key) \in Seq(Slots) /\ Len(PathSlots(ins.tree, key)) = Len(key)
  BY <1>4, <1>6, PathMeans
<1>8. pre \in Seq(Slots) /\ Len(pre) = f /\ prefix_indices' = [prefix_indices EXCEPT ![r] = pre]
  BY <1>3, <1>4, <1>7, Zenon DEF pre
<1> QED
  BY <1>3, <1>4, <1>5, <1>8

(* get_next_batch_to_run.                                                  *)
LEMMA StashWellFormed ==
  ASSUME WellFormed, NEW r \in Reqs, StashChunk(r)
  PROVE  WellFormed'
<1> HIDE DEF Slots
<1>1. /\ phase[r] = "chunk" /\ CacheUnfinished(r) /\ KVBecomes(kv)
      /\ row' = [row EXCEPT ![r] = <<>>] /\ phase' = [phase EXCEPT ![r] = "chunked"]
      /\ UNCHANGED <<prompt_len, ids, fill_len, results>>
  BY DEF StashChunk
<1>2. /\ 0 < fill_len[r] /\ fill_len[r] <= Len(ids[r]) /\ Len(row[r]) = fill_len[r]
      /\ results[r] = <<>> /\ fill_len[r] \in Nat /\ Len(ids[r]) \in Nat
  <2>1. RequestOK(phase[r], ids[r], fill_len[r], prefix_indices[r], last_node[r], row[r], results[r])
    BY FieldsMean
  <2> QED
    BY <1>1, <2>1, FieldsMean DEF RequestOK
<1>3. fill_len[r] <= Len(row[r])
  BY <1>2
<1>4. TreeShape(tree') /\ free_slots' \in SUBSET Slots
  BY <1>1, <1>2, <1>3, UnfinishedFields
<1>5. PICK pre, key :
        /\ pre \in Seq(Slots) /\ Len(pre) = fill_len[r] /\ key \in Names
        /\ prefix_indices' = [prefix_indices EXCEPT ![r] = pre]
        /\ last_node' = [last_node EXCEPT ![r] = key]
  BY <1>1, <1>2, <1>3, UnfinishedFields
<1>6. ChangesOnly(r)
  BY <1>1, <1>5 DEF ChangesOnly, WellFormed
<1>7. /\ phase'[r] = "chunked" /\ ids'[r] = ids[r] /\ fill_len'[r] = fill_len[r]
      /\ prefix_indices'[r] = pre /\ last_node'[r] = key /\ row'[r] = <<>>
      /\ results'[r] = <<>> /\ prompt_len'[r] = prompt_len[r]
  BY <1>1, <1>2, <1>5 DEF WellFormed
<1>8. RequestOK(phase'[r], ids'[r], fill_len'[r], prefix_indices'[r], last_node'[r], row'[r], results'[r])
  <2>1. Len(<<>>) = 0 /\ Len(ids[r]) > 0
    BY <1>2, EmptySeq
  <2>2. RequestOK("chunked", ids[r], fill_len[r], pre, key, <<>>, <<>>)
    BY <2>1 DEF RequestOK
  <2> QED
    BY <1>7, <2>2, Zenon
<1>9. kv' \in [Slots -> Names]
  BY <1>1, FieldsMean, KVBecomesType
<1>10. /\ phase'[r] \in Phases /\ ids'[r] \in Names /\ last_node'[r] \in Names
       /\ fill_len'[r] \in Nat /\ prompt_len'[r] \in Nat
       /\ prefix_indices'[r] \in Seq(Slots) /\ row'[r] \in Seq(Slots) /\ results'[r] \in Seq(Results)
  <2>1. <<>> \in Seq(Slots) /\ <<>> \in Seq(Results) /\ "chunked" \in Phases
    BY EmptySeq DEF Phases
  <2> QED
    BY <1>2, <1>5, <1>7, <2>1, FieldsMean
<1> QED
  BY <1>4, <1>6, <1>8, <1>9, <1>10, OneRequest
-----------------------------------------------------------------------------
(* The results.                                                            *)

(* u is s without its first element.                                       *)
TailOf(u, s) == u = Tail(s)

(* One element less.                                                       *)
LEMMA TailMeans ==
  ASSUME NEW S, NEW s \in Seq(S), s # <<>>, NEW u, TailOf(u, s), NEW n \in Nat, Len(s) = n
  PROVE  /\ u \in Seq(S) /\ n > 0 /\ Len(u) = n - 1 /\ \A i \in 1..n-1 : u[i] = s[i + 1]
         /\ n = 1 => u = <<>>
<1>1. Len(s) \in Nat /\ Len(s) # 0
  BY LenProperties, EmptySeq
<1>2. u \in Seq(S) /\ Len(u) = Len(s) - 1 /\ \A i \in 1..Len(u) : u[i] = s[i + 1]
  BY HeadTailProperties DEF TailOf
<1>3. Len(u) = 0 => u = <<>>
  BY <1>2, EmptySeq
<1> QED
  BY <1>1, <1>2, <1>3

(* The first result of a batch, processed: the token of position Len(i) + 1*)
(* is known and one result less is to come.                                *)
Progresses(i, f, pre, node, rw, res, i2, pre2, node2, rw2, res2) ==
  /\ RequestOK("batch", i, f, pre, node, rw, res)
  /\ Len(i) \in Nat /\ Len(i2) = Len(i) + 1
  /\ res \in Seq(Results) /\ res # <<>> /\ TailOf(res2, res)
  /\ f \in Nat /\ Len(rw) \in Nat /\ Len(rw2) = Len(rw) /\ \A j \in f+1..Len(rw) : rw2[j] = rw[j]
  /\ Len(pre2) <= f

(* The request is in order after its result.                               *)
LEMMA ResultOK ==
  ASSUME NEW i, NEW f, NEW pre, NEW node, NEW rw, NEW res,
         NEW i2, NEW pre2, NEW node2, NEW rw2, NEW res2,
         Progresses(i, f, pre, node, rw, res, i2, pre2, node2, rw2, res2)
  PROVE  RequestOK("batch", i2, f, pre2, node2, rw2, res2) /\ res2 \in Seq(Results)
<1> DEFINE y == Len(res)
           l == Len(i)
           x == Len(rw)
<1>0. /\ RequestOK("batch", i, f, pre, node, rw, res)
      /\ l \in Nat /\ Len(i2) = l + 1
      /\ res \in Seq(Results) /\ res # <<>> /\ TailOf(res2, res)
      /\ f \in Nat /\ x \in Nat /\ Len(rw2) = x /\ \A j \in f+1..x : rw2[j] = rw[j]
      /\ Len(pre2) <= f
  BY DEF Progresses
<1>1. y \in Nat
  BY <1>0, LenProperties
<1>2. /\ x = (l - 1) + y /\ y <= 2 /\ 0 < f /\ f <= l
      /\ \A j \in 1..y : IF res[j].kind = "prefill" THEN j = 1 /\ f = l ELSE res[j].loc = rw[(l - 1) + j]
  BY <1>0 DEF RequestOK
<1>3. y = Len(res)
  OBVIOUS
<1> HIDE DEF y, l, x, Results
<1>4. res2 \in Seq(Results) /\ y > 0 /\ Len(res2) = y - 1 /\ \A j \in 1..y-1 : res2[j] = res[j + 1]
  <2>1. res \in Seq(Results) /\ res # <<>> /\ TailOf(res2, res) /\ y \in Nat /\ Len(res) = y
    BY <1>0, <1>1, <1>3
  <2> QED
    BY <2>1, TailMeans
<1>5. ASSUME NEW j \in 1..y-1
      PROVE  IF res2[j].kind = "prefill" THEN j = 1 /\ f = l + 1 ELSE res2[j].loc = rw2[l + j]
  <2>1. j + 1 \in 1..y /\ res2[j] = res[j + 1] /\ (l - 1) + (j + 1) = l + j /\ j + 1 # 1 /\ j \in Nat
    BY <1>0, <1>1, <1>4
  <2>2. res2[j].kind # "prefill" /\ res2[j].loc = rw[l + j]
    BY <1>2, <2>1
  <2>3. l + j \in f+1..x
    BY <1>0, <1>1, <1>2
  <2> QED
    BY <1>0, <2>2, <2>3
<1>6. x = ((l + 1) - 1) + (y - 1) /\ f <= l + 1 /\ y - 1 <= 2 /\ l + 1 > 0 /\ (l + 1) - 1 = l
  BY <1>0, <1>1, <1>2
<1>7. RequestOK("batch", i2, f, pre2, node2, rw2, res2)
  <2>1. Len(rw2) = (Len(i2) - 1) + Len(res2) /\ Len(res2) <= 2 /\ Len(i2) > 0 /\ f <= Len(i2)
    BY <1>0, <1>2, <1>4, <1>6
  <2>2. \A j \in 1..Len(res2) : IF res2[j].kind = "prefill" THEN j = 1 /\ f = Len(i2)
                                ELSE res2[j].loc = rw2[(Len(i2) - 1) + j]
    BY <1>0, <1>4, <1>5, <1>6
  <2> QED
    BY <1>0, <1>2, <2>1, <2>2 DEF RequestOK
<1> QED
  BY <1>4, <1>7

(* The KV of a token that was in flight.                                   *)
LEMMA LandedMeans ==
  ASSUME WellFormed, NEW r \in Reqs, NEW t \in Tokens
  PROVE  /\ Landed(r, t) \in [Slots -> Names]
         /\ Append(ids[r], t) \in Names /\ Len(Append(ids[r], t)) = Len(ids[r]) + 1
<1> DEFINE pos == Len(ids[r]) + 1
           a == Append(ids[r], t)
<1>1. /\ kv \in [Slots -> Names] /\ row[r] \in Seq(Slots) /\ ids[r] \in Names /\ Len(ids[r]) \in Nat
      /\ Len(row[r]) \in Nat
  BY FieldsMean
<1>2. a \in Names /\ Len(a) = Len(ids[r]) + 1
  BY <1>1, AppendProperties DEF Names
<1>3. Landed(r, t) = IF Len(row[r]) >= pos THEN [kv EXCEPT ![row[r][pos]] = a] ELSE kv
  BY DEF Landed
<1>4. Len(row[r]) >= pos => row[r][pos] \in Slots
  BY <1>1, ElementOfSeq
<1> HIDE DEF a, pos, Slots
<1>5. Landed(r, t) \in [Slots -> Names]
  BY <1>1, <1>2, <1>3, <1>4
<1> QED
  BY <1>2, <1>5 DEF a

(* A request of the batch with a result to process.                        *)
LEMMA BatchFields ==
  ASSUME WellFormed, NEW r \in Reqs, phase[r] = "batch"
  PROVE  /\ 0 < fill_len[r] /\ Len(prefix_indices[r]) <= fill_len[r] /\ fill_len[r] <= Len(ids[r])
         /\ Len(row[r]) = (Len(ids[r]) - 1) + Len(results[r]) /\ Len(results[r]) <= 2
         /\ results[r] # <<>> => Len(results[r]) > 0 /\ Len(ids[r]) <= Len(row[r])
                                   /\ fill_len[r] <= Len(row[r])
         /\ \A j \in 1..Len(results[r]) :
              IF results[r][j].kind = "prefill" THEN j = 1 /\ fill_len[r] = Len(ids[r])
              ELSE results[r][j].loc = row[r][(Len(ids[r]) - 1) + j]
<1>1. RequestOK(phase[r], ids[r], fill_len[r], prefix_indices[r], last_node[r], row[r], results[r])
  BY FieldsMean
<1>2. /\ 0 < fill_len[r] /\ Len(prefix_indices[r]) <= fill_len[r] /\ fill_len[r] <= Len(ids[r])
      /\ Len(row[r]) = (Len(ids[r]) - 1) + Len(results[r]) /\ Len(results[r]) <= 2
      /\ \A j \in 1..Len(results[r]) :
           IF results[r][j].kind = "prefill" THEN j = 1 /\ fill_len[r] = Len(ids[r])
           ELSE results[r][j].loc = row[r][(Len(ids[r]) - 1) + j]
  BY <1>1 DEF RequestOK
<1>3. /\ Len(ids[r]) \in Nat /\ fill_len[r] \in Nat /\ Len(row[r]) \in Nat
      /\ results[r] \in Seq(Results) /\ Len(results[r]) \in Nat
  BY FieldsMean
<1>4. results[r] # <<>> => Len(results[r]) # 0
  BY <1>3, EmptySeq
<1> HIDE DEF Results
<1>5. ASSUME Len(results[r]) # 0
      PROVE  Len(results[r]) > 0 /\ Len(ids[r]) <= Len(row[r]) /\ fill_len[r] <= Len(row[r])
  <2> DEFINE a == Len(ids[r])
             b == Len(row[r])
             c == Len(results[r])
             d == fill_len[r]
  <2>1. a \in Nat /\ b \in Nat /\ c \in Nat /\ d \in Nat /\ b = (a - 1) + c /\ d <= a /\ c # 0
    BY <1>2, <1>3, <1>5
  <2> HIDE DEF a, b, c, d
  <2>2. c > 0 /\ a <= b /\ d <= b
    BY <2>1
  <2> QED
    BY <2>2 DEF a, b, c, d
<1> QED
  BY <1>2, <1>4, <1>5

(* The last result of a request, with at most a delayed one behind it.     *)
LEMMA LastWellFormed ==
  ASSUME WellFormed, NEW r \in Reqs, ProcessLast(r)
  PROVE  WellFormed'
<1> HIDE DEF Slots, Results
<1>1. /\ phase[r] = "batch" /\ results[r] # <<>> /\ CacheFinished(r) /\ KVBecomes(kv)
      /\ phase' = [phase EXCEPT ![r] = IF Len(results[r]) > 1 THEN "finished" ELSE "done"]
      /\ results' = [results EXCEPT ![r] = Tail(@)]
      /\ ids' = [ids EXCEPT ![r] = <<>>]
      /\ fill_len' = [fill_len EXCEPT ![r] = 0]
      /\ prompt_len' = [prompt_len EXCEPT ![r] = 0]
  BY DEF ProcessLast
<1> DEFINE l == Len(ids[r])
           x == Len(row[r])
           y == Len(results[r])
<1>2. /\ row[r] \in Seq(Slots) /\ results[r] \in Seq(Results)
      /\ \A j \in 1..y : IF results[r][j].kind = "prefill" THEN j = 1 /\ fill_len[r] = l
                        ELSE results[r][j].loc = row[r][(l - 1) + j]
  BY <1>1, BatchFields, FieldsMean
<1>a. 0 < l /\ l <= x /\ y <= 2 /\ y > 0 /\ l \in Nat /\ x \in Nat /\ y \in Nat /\ x = (l - 1) + y
  <2>1. 0 < fill_len[r] /\ fill_len[r] <= l /\ fill_len[r] \in Nat /\ l \in Nat
    BY <1>1, BatchFields, FieldsMean
  <2>2. l <= x /\ y <= 2 /\ y > 0 /\ x = (l - 1) + y
    BY <1>1, BatchFields
  <2>3. x \in Nat /\ y \in Nat
    BY FieldsMean
  <2> HIDE DEF l, x, y
  <2> QED
    BY <2>1, <2>2, <2>3
<1>3. PICK value : CutTo(value, row[r], Len(ids[r]))
  BY DEF CutTo
<1>4. PICK ins : ins = Insert(tree, ids[r], value)
  OBVIOUS
<1>5. Caches(r, ids[r], value, ins.tree, ins.prefix_len)
  BY <1>1, <1>a, <1>3, <1>4, CacheFinishedMeans
<1>6. TreeShape(tree') /\ free_slots' \in SUBSET Slots
  <2>1. /\ TreeShape(tree') /\ ins.prefix_len \in 0..Len(ids[r])
        /\ free_slots' = free_slots \cup Duplicates(r, ins.prefix_len)
    BY <1>5 DEF Caches
  <2>2. ins.prefix_len \in Nat /\ ins.prefix_len <= x
    <3>1. ins.prefix_len \in 0..l
      BY <2>1
    <3> HIDE DEF l, x, y
    <3> QED
      BY <1>a, <3>1
  <2>3. Duplicates(r, ins.prefix_len) \subseteq Slots
    BY <2>2, DuplicatesMeans
  <2> QED
    BY <2>1, <2>3, FieldsMean
<1>7. /\ row' = [row EXCEPT ![r] = <<>>]
      /\ prefix_indices' = [prefix_indices EXCEPT ![r] = <<>>]
      /\ last_node' = [last_node EXCEPT ![r] = <<>>]
  BY <1>1 DEF CacheFinished, ReleaseRow
<1>8. ChangesOnly(r)
  BY <1>1, <1>7 DEF ChangesOnly, WellFormed
<1>9. /\ phase'[r] = IF Len(results[r]) > 1 THEN "finished" ELSE "done"
      /\ ids'[r] = <<>> /\ fill_len'[r] = 0 /\ prompt_len'[r] = 0
      /\ prefix_indices'[r] = <<>> /\ last_node'[r] = <<>> /\ row'[r] = <<>>
      /\ TailOf(results'[r], results[r])
  BY <1>1, <1>7 DEF WellFormed, TailOf
<1>10. /\ results'[r] \in Seq(Results) /\ Len(results'[r]) = y - 1
       /\ \A j \in 1..y-1 : results'[r][j] = results[r][j + 1]
       /\ y = 1 => results'[r] = <<>>
  <2>1. /\ results[r] \in Seq(Results) /\ results[r] # <<>> /\ TailOf(results'[r], results[r])
        /\ y \in Nat /\ Len(results[r]) = y
    BY <1>1, <1>2, <1>a, <1>9
  <2> HIDE DEF y
  <2> QED
    BY <2>1, TailMeans
<1>b. phase'[r] = IF y > 1 THEN "finished" ELSE "done"
  BY <1>9
<1>c. /\ \A j \in 1..y : IF results[r][j].kind = "prefill" THEN j = 1 /\ fill_len[r] = l
                        ELSE results[r][j].loc = row[r][(l - 1) + j]
      /\ \A j \in 1..x : row[r][j] \in Slots
  BY <1>2, ElementOfSeq
<1> HIDE DEF l, x, y
<1>11. RequestOK(phase'[r], ids'[r], fill_len'[r], prefix_indices'[r], last_node'[r], row'[r], results'[r])
  <2>1. CASE y > 1
    <3>0. y = 2 /\ y - 1 = 1 /\ 2 \in 1..y /\ 1 \in 1..y-1 /\ (l - 1) + 2 \in 1..x
      BY <1>a, <2>1
    <3>1. Len(results'[r]) = 1
      BY <1>10, <3>0
    <3>2. results'[r][1] = results[r][2]
      <4>1. results'[r][1] = results[r][1 + 1]
        BY <1>10, <3>0
      <4> QED
        BY <4>1
    <3>3. results[r][2].loc = row[r][(l - 1) + 2]
      <4>1. 2 # 1
        OBVIOUS
      <4> QED
        BY <1>c, <3>0, <4>1
    <3>5. results'[r][1].loc \in Slots
      <4>1. row[r][(l - 1) + 2] \in Slots
        BY <1>c, <3>0
      <4> QED
        BY <3>2, <3>3, <4>1, Zenon
    <3>6. phase'[r] = "finished"
      BY <1>b, <2>1
    <3>7. RequestOK("finished", <<>>, 0, <<>>, <<>>, <<>>, results'[r])
      BY <3>1, <3>5 DEF RequestOK
    <3> QED
      BY <1>9, <3>6, <3>7, Zenon
  <2>2. CASE ~(y > 1)
    <3>1. y = 1
      BY <1>a, <2>2
    <3>2. results'[r] = <<>> /\ phase'[r] = "done"
      BY <1>10, <1>b, <3>1, <2>2
    <3>3. RequestOK("done", <<>>, 0, <<>>, <<>>, <<>>, <<>>)
      BY EmptySeq DEF RequestOK
    <3> QED
      BY <1>9, <3>2, <3>3, Zenon
  <2> QED
    BY <2>1, <2>2
<1>12. kv' \in [Slots -> Names]
  BY <1>1, FieldsMean, KVBecomesType
<1>13. /\ phase'[r] \in Phases /\ ids'[r] \in Names /\ last_node'[r] \in Names
       /\ fill_len'[r] \in Nat /\ prompt_len'[r] \in Nat
       /\ prefix_indices'[r] \in Seq(Slots) /\ row'[r] \in Seq(Slots)
  <2>1. <<>> \in Seq(Slots) /\ <<>> \in Names /\ "finished" \in Phases /\ "done" \in Phases
    BY EmptySeq, PrefixOrder DEF Phases
  <2> QED
    BY <1>9, <2>1
<1> QED
  BY <1>6, <1>8, <1>10, <1>11, <1>12, <1>13, OneRequest

(* A decode result that does not finish the request.                       *)
LEMMA ProcessDecodeWellFormed ==
  ASSUME WellFormed, NEW r \in Reqs, NEW t \in Tokens, ProcessDecode(r, t)
  PROVE  WellFormed'
<1> HIDE DEF Slots, Results
<1>1. /\ phase[r] = "batch" /\ results[r] # <<>> /\ KVBecomes(Landed(r, t))
      /\ ids' = [ids EXCEPT ![r] = Append(@, t)]
      /\ results' = [results EXCEPT ![r] = Tail(@)]
      /\ UNCHANGED <<tree, free_slots, phase, prompt_len, fill_len, prefix_indices, last_node, row>>
  BY DEF ProcessDecode, cacheVars
<1>2. ChangesOnly(r)
  BY <1>1 DEF ChangesOnly, WellFormed
<1>3. /\ phase'[r] = "batch" /\ ids'[r] = Append(ids[r], t) /\ fill_len'[r] = fill_len[r]
      /\ prefix_indices'[r] = prefix_indices[r] /\ last_node'[r] = last_node[r] /\ row'[r] = row[r]
      /\ prompt_len'[r] = prompt_len[r] /\ TailOf(results'[r], results[r])
  BY <1>1 DEF WellFormed, TailOf
<1>4. kv' \in [Slots -> Names] /\ ids'[r] \in Names /\ Len(ids'[r]) = Len(ids[r]) + 1
  BY <1>1, <1>3, LandedMeans, KVBecomesType
<1>5. /\ RequestOK(phase'[r], ids'[r], fill_len'[r], prefix_indices'[r], last_node'[r], row'[r], results'[r])
      /\ results'[r] \in Seq(Results)
  <2>1. RequestOK("batch", ids[r], fill_len[r], prefix_indices[r], last_node[r], row[r], results[r])
    <3>1. RequestOK(phase[r], ids[r], fill_len[r], prefix_indices[r], last_node[r], row[r], results[r])
      BY FieldsMean
    <3> QED
      BY <1>1, <3>1, Zenon
  <2>2. /\ results[r] \in Seq(Results) /\ Len(ids[r]) \in Nat /\ Len(row[r]) \in Nat
        /\ fill_len[r] \in Nat /\ Len(prefix_indices[r]) <= fill_len[r]
        /\ results[r] # <<>> /\ TailOf(results'[r], results[r]) /\ Len(ids'[r]) = Len(ids[r]) + 1
    BY <1>1, <1>3, <1>4, BatchFields, FieldsMean
  <2>3. /\ RequestOK("batch", ids'[r], fill_len[r], prefix_indices[r], last_node[r], row[r], results'[r])
        /\ results'[r] \in Seq(Results)
    <3>1. Progresses(ids[r], fill_len[r], prefix_indices[r], last_node[r], row[r], results[r],
                     ids'[r], prefix_indices[r], last_node[r], row[r], results'[r])
      BY <2>1, <2>2 DEF Progresses
    <3> QED
      BY <3>1, ResultOK
  <2> QED
    BY <1>3, <2>3, Zenon
<1>6. /\ TreeShape(tree') /\ free_slots' \in SUBSET Slots
      /\ phase'[r] \in Phases /\ last_node'[r] \in Names
      /\ fill_len'[r] \in Nat /\ prompt_len'[r] \in Nat
      /\ prefix_indices'[r] \in Seq(Slots) /\ row'[r] \in Seq(Slots)
  BY <1>1, <1>3, FieldsMean
<1> QED
  BY <1>2, <1>4, <1>5, <1>6, OneRequest

(* rw2 reads pre, and then as rw.                                          *)
Rereads(rw2, pre, rw) == rw2 = pre \o SubSeq(rw, Len(pre) + 1, Len(rw))

(* The row after the request reads the cache's slots.                      *)
LEMMA RewriteMeans ==
  ASSUME NEW rw \in Seq(Slots), NEW pre \in Seq(Slots), NEW rw2,
         Rereads(rw2, pre, rw), NEW x \in Nat, Len(rw) = x,
         NEW f \in Nat, Len(pre) = f, f <= x
  PROVE  /\ rw2 \in Seq(Slots) /\ Len(rw2) = x
         /\ \A j \in 1..f : rw2[j] = pre[j]
         /\ \A j \in f+1..x : rw2[j] = rw[j]
<1> DEFINE w == SubSeq(rw, f + 1, x)
<1>1. w = SubSeq(rw, f + 1, Len(rw))
  OBVIOUS
<1>2. Joins(rw2, pre, w)
  BY <1>1 DEF Joins, Rereads
<1> HIDE DEF w, Slots
<1>3. w \in Seq(Slots) /\ Len(w) = x - f /\ \A i \in 1..x-f : w[i] = rw[f + i]
  <2>1. f \in 0..Len(rw)
    OBVIOUS
  <2>2. /\ SubSeq(rw, f + 1, Len(rw)) \in Seq(Slots) /\ Len(SubSeq(rw, f + 1, Len(rw))) = Len(rw) - f
        /\ \A i \in 1..Len(rw)-f : SubSeq(rw, f + 1, Len(rw))[i] = rw[f + i]
    BY <2>1, Dropped
  <2> QED
    BY <2>2, <1>1
<1>4. x - f \in Nat
  OBVIOUS
<1>5. rw2 \in Seq(Slots) /\ Len(rw2) = f + (x - f) /\ \A k \in 1..f+(x-f) : rw2[k] = IF k <= f THEN pre[k] ELSE w[k - f]
  <2>1. pre \in Seq(Slots) /\ Len(pre) = f /\ f \in Nat
    OBVIOUS
  <2> DEFINE y == x - f
  <2>2. y \in Nat /\ w \in Seq(Slots) /\ Len(w) = y
    BY <1>3, <1>4
  <2> HIDE DEF y
  <2>3. rw2 \in Seq(Slots) /\ Len(rw2) = f + y /\ \A k \in 1..f+y : rw2[k] = IF k <= f THEN pre[k] ELSE w[k - f]
    BY <1>2, <2>1, <2>2, Concatenated
  <2> QED
    BY <2>3 DEF y
<1>6. f + (x - f) = x
  OBVIOUS
<1>7. \A j \in 1..f : rw2[j] = pre[j]
  BY <1>5, <1>6
<1>8. ASSUME NEW j \in f+1..x PROVE rw2[j] = rw[j]
  <2>1. j \in 1..x /\ ~(j <= f) /\ j - f \in 1..x-f /\ f + (j - f) = j
    OBVIOUS
  <2> QED
    BY <1>3, <1>5, <1>6, <2>1
<1> QED
  BY <1>5, <1>6, <1>7, <1>8

(* A prefill result that does not finish the request.                      *)
LEMMA ProcessPrefillWellFormed ==
  ASSUME WellFormed, NEW r \in Reqs, NEW t \in Tokens, ProcessPrefill(r, t)
  PROVE  WellFormed'
<1> HIDE DEF Slots, Results
<1>1. /\ phase[r] = "batch" /\ results[r] # <<>> /\ KVBecomes(Landed(r, t))
      /\ CacheUnfinished(r) /\ RewriteRow(r)
      /\ ids' = [ids EXCEPT ![r] = Append(@, t)]
      /\ results' = [results EXCEPT ![r] = Tail(@)]
      /\ UNCHANGED <<phase, prompt_len, fill_len>>
  BY DEF ProcessPrefill
<1>2. /\ 0 < fill_len[r] /\ fill_len[r] <= Len(ids[r]) /\ fill_len[r] <= Len(row[r])
      /\ Len(ids[r]) \in Nat /\ Len(row[r]) \in Nat /\ fill_len[r] \in Nat
      /\ row[r] \in Seq(Slots) /\ results[r] \in Seq(Results)
  BY <1>1, BatchFields, FieldsMean
<1>3. TreeShape(tree') /\ free_slots' \in SUBSET Slots
  BY <1>1, <1>2, UnfinishedFields
<1>4. PICK pre, key :
        /\ pre \in Seq(Slots) /\ Len(pre) = fill_len[r] /\ key \in Names
        /\ prefix_indices' = [prefix_indices EXCEPT ![r] = pre]
        /\ last_node' = [last_node EXCEPT ![r] = key]
  BY <1>1, <1>2, UnfinishedFields
<1>5. prefix_indices'[r] = pre /\ last_node'[r] = key
  BY <1>4 DEF WellFormed
<1>6. row' = [row EXCEPT ![r] = pre \o SubSeq(row[r], Len(pre) + 1, Len(row[r]))]
  BY <1>1, <1>5 DEF RewriteRow
<1>7. ChangesOnly(r)
  BY <1>1, <1>4, <1>6 DEF ChangesOnly, WellFormed
<1>8. /\ phase'[r] = "batch" /\ ids'[r] = Append(ids[r], t) /\ fill_len'[r] = fill_len[r]
      /\ prompt_len'[r] = prompt_len[r] /\ TailOf(results'[r], results[r])
      /\ Rereads(row'[r], pre, row[r])
  BY <1>1, <1>6 DEF WellFormed, TailOf, Rereads
<1>9. kv' \in [Slots -> Names] /\ ids'[r] \in Names /\ Len(ids'[r]) = Len(ids[r]) + 1
  BY <1>1, <1>8, LandedMeans, KVBecomesType
<1>10. /\ row'[r] \in Seq(Slots) /\ Len(row'[r]) = Len(row[r])
       /\ \A j \in fill_len[r]+1..Len(row[r]) : row'[r][j] = row[r][j]
  BY <1>2, <1>4, <1>8, RewriteMeans
<1>11. /\ RequestOK(phase'[r], ids'[r], fill_len'[r], prefix_indices'[r], last_node'[r], row'[r], results'[r])
       /\ results'[r] \in Seq(Results)
  <2>1. RequestOK("batch", ids[r], fill_len[r], prefix_indices[r], last_node[r], row[r], results[r])
    <3>1. RequestOK(phase[r], ids[r], fill_len[r], prefix_indices[r], last_node[r], row[r], results[r])
      BY FieldsMean
    <3> QED
      BY <1>1, <3>1, Zenon
  <2>2. Progresses(ids[r], fill_len[r], prefix_indices[r], last_node[r], row[r], results[r],
                   ids'[r], pre, key, row'[r], results'[r])
    BY <1>1, <1>2, <1>4, <1>8, <1>9, <1>10, <2>1 DEF Progresses
  <2>3. RequestOK("batch", ids'[r], fill_len[r], pre, key, row'[r], results'[r]) /\ results'[r] \in Seq(Results)
    BY <2>2, ResultOK
  <2> QED
    BY <1>5, <1>8, <2>3, Zenon
<1>12. /\ phase'[r] \in Phases /\ last_node'[r] \in Names
       /\ fill_len'[r] \in Nat /\ prompt_len'[r] \in Nat /\ prefix_indices'[r] \in Seq(Slots)
  BY <1>1, <1>4, <1>5, <1>8, FieldsMean
<1> QED
  BY <1>3, <1>7, <1>9, <1>10, <1>11, <1>12, OneRequest

(* The delayed result of a finished request.                               *)
LEMMA FreeDelayedWellFormed ==
  ASSUME WellFormed, NEW r \in Reqs, FreeDelayed(r)
  PROVE  WellFormed' /\ results[r][1].loc \in Slots
<1> HIDE DEF Slots, Results
<1>1. /\ phase[r] = "finished" /\ KVBecomes(kv)
      /\ free_slots' = free_slots \cup {results[r][1].loc}
      /\ phase' = [phase EXCEPT ![r] = "done"]
      /\ results' = [results EXCEPT ![r] = <<>>]
      /\ UNCHANGED <<tree, prompt_len, ids, fill_len, prefix_indices, last_node, row>>
  BY DEF FreeDelayed, cacheVars
<1>2. results[r][1].loc \in Slots /\ row[r] = <<>> /\ prefix_indices[r] = <<>> /\ last_node[r] = <<>>
  <2>1. RequestOK(phase[r], ids[r], fill_len[r], prefix_indices[r], last_node[r], row[r], results[r])
    BY FieldsMean
  <2> QED
    BY <1>1, <2>1 DEF RequestOK
<1>3. ChangesOnly(r)
  BY <1>1 DEF ChangesOnly, WellFormed
<1>4. /\ phase'[r] = "done" /\ ids'[r] = ids[r] /\ fill_len'[r] = fill_len[r]
      /\ prefix_indices'[r] = <<>> /\ last_node'[r] = <<>> /\ row'[r] = <<>>
      /\ results'[r] = <<>> /\ prompt_len'[r] = prompt_len[r]
  BY <1>1, <1>2 DEF WellFormed
<1>5. RequestOK(phase'[r], ids'[r], fill_len'[r], prefix_indices'[r], last_node'[r], row'[r], results'[r])
  <2>1. RequestOK("done", ids[r], fill_len[r], <<>>, <<>>, <<>>, <<>>)
    BY EmptySeq DEF RequestOK
  <2> QED
    BY <1>4, <2>1, Zenon
<1>6. kv' \in [Slots -> Names]
  BY <1>1, FieldsMean, KVBecomesType
<1>7. /\ TreeShape(tree') /\ free_slots' \in SUBSET Slots
      /\ phase'[r] \in Phases /\ ids'[r] \in Names /\ last_node'[r] \in Names
      /\ fill_len'[r] \in Nat /\ prompt_len'[r] \in Nat
      /\ prefix_indices'[r] \in Seq(Slots) /\ row'[r] \in Seq(Slots) /\ results'[r] \in Seq(Results)
  <2>1. <<>> \in Seq(Slots) /\ <<>> \in Seq(Results) /\ <<>> \in Names /\ "done" \in Phases
    BY EmptySeq, PrefixOrder DEF Phases
  <2> QED
    BY <1>1, <1>2, <1>4, <2>1, FieldsMean
<1> QED
  BY <1>2, <1>3, <1>5, <1>6, <1>7, OneRequest
-----------------------------------------------------------------------------
(* Memory pressure.                                                        *)

(* The slots that r wrote past its prefix.                                 *)
LEMMA UncachedMeans ==
  ASSUME WellFormed, NEW r \in Reqs
  PROVE  /\ Uncached(r) \subseteq Slots
         /\ \A s : s \in Uncached(r) <=>
              \/ \E i \in Len(prefix_indices[r])+1..Len(row[r]) : s = row[r][i]
              \/ phase[r] = "finished" /\ s = results[r][1].loc
<1> HIDE DEF Slots
<1> DEFINE w == SubSeq(row[r], Len(prefix_indices[r]) + 1, Len(row[r]))
<1>1. row[r] \in Seq(Slots) /\ Len(prefix_indices[r]) \in Nat /\ Len(row[r]) \in Nat
  BY FieldsMean
<1>2. \A s : s \in ToSet(w) <=> \E i \in Len(prefix_indices[r])+1..Len(row[r]) : s = row[r][i]
  <2>1. Len(row[r]) <= Len(row[r])
    BY <1>1
  <2> QED
    BY <1>1, <2>1, SegmentMeans
<1> HIDE DEF w
<1>3. \A s : s \in Uncached(r) <=> s \in ToSet(w) \/ (phase[r] = "finished" /\ s = results[r][1].loc)
  BY DEF Uncached, w
<1>4. \A i \in Len(prefix_indices[r])+1..Len(row[r]) : row[r][i] \in Slots
  <2>1. \A i \in Len(prefix_indices[r])+1..Len(row[r]) : i \in 1..Len(row[r])
    BY <1>1
  <2> QED
    BY <1>1, <2>1, ElementOfSeq
<1>5. phase[r] = "finished" => results[r][1].loc \in Slots
  <2>1. RequestOK(phase[r], ids[r], fill_len[r], prefix_indices[r], last_node[r], row[r], results[r])
    BY FieldsMean
  <2> QED
    BY <2>1 DEF RequestOK
<1> QED
  BY <1>2, <1>3, <1>4, <1>5

(* The effect of a retraction: t is the tree unlocked.                     *)
Retracts(r, t, E) ==
  /\ t = DecLock(tree, last_node[r]) /\ SameEdges(tree, t) /\ TreeShape(t) /\ SameSlots(tree, t)
  /\ E \subseteq DOMAIN tree /\ \A p \in E : t[p].lock_ref = 0
  /\ \A p \in E : Below(t, p) \subseteq E
  /\ Deletes(t, tree', E)
  /\ free_slots' = free_slots \cup Uncached(r) \cup NodeSlots(t, E)
  /\ evictable_size' = evictable_size + Toggled(tree, last_node[r], 1) - SizeOf(tree, E)
  /\ free_slots' \in SUBSET Slots

(* The nodes' slots do not depend on the locks.                            *)
LEMMA SameNodeSlots ==
  ASSUME NEW t, NEW t2, SameEdges(t, t2), NEW E, E \subseteq DOMAIN t
  PROVE  NodeSlots(t2, E) = NodeSlots(t, E)
<1>1. \A p \in E : t2[p].value = t[p].value
  BY DEF SameEdges
<1>2. {ToSet(t2[p].value) : p \in E} = {ToSet(t[p].value) : p \in E}
  BY <1>1
<1> QED
  BY <1>2, Zenon DEF NodeSlots

(* The effect of retract_decode.                                           *)
LEMMA RetractMeans ==
  ASSUME WellFormed, NEW r \in Reqs, NEW n, Retract(r, n)
  PROVE  \E t, E : Retracts(r, t, E)
<1> HIDE DEF Slots
<1>1. PICK t : t = DecLock(tree, last_node[r])
  OBVIOUS
<1>2. PICK E \in Evictions(t, n) :
        /\ tree' = Delete(t, E)
        /\ free_slots' = free_slots \cup Uncached(r) \cup NodeSlots(tree, E)
        /\ evictable_size' = evictable_size + Toggled(tree, last_node[r], 1) - SizeOf(tree, E)
  BY <1>1, Zenon DEF Retract
<1>3. TreeShape(tree) /\ free_slots \in SUBSET Slots
  BY FieldsMean
<1>4. SameEdges(tree, t)
  <2>1. SameEdges(tree, DecLock(tree, last_node[r]))
    BY <1>3, LockingKeeps
  <2> QED
    BY <1>1, <2>1, Zenon
<1>5. TreeShape(t) /\ SameSlots(tree, t)
  BY <1>3, <1>4, RelockKeeps
<1>6. /\ E \subseteq DOMAIN t /\ (\A p \in E : t[p].lock_ref = 0) /\ Deletes(t, Delete(t, E), E)
      /\ \A p \in E : Below(t, p) \subseteq E
  BY <1>5, EvictionMeans
<1>7. E \subseteq DOMAIN tree
  BY <1>4, <1>6 DEF SameEdges
<1>8. NodeSlots(t, E) = NodeSlots(tree, E)
  BY <1>4, <1>7, SameNodeSlots
<1>9. Deletes(t, tree', E)
  BY <1>2, <1>6, Zenon
<1>10. free_slots' = free_slots \cup Uncached(r) \cup NodeSlots(t, E)
  BY <1>2, <1>8, Zenon
<1>11. free_slots' \in SUBSET Slots
  <2>1. NodeSlots(t, E) \subseteq Slots /\ Uncached(r) \subseteq Slots
    BY <1>5, <1>6, NodeSlotsType, UncachedMeans
  <2> QED
    BY <1>3, <1>10, <2>1
<1> QED
  BY <1>1, <1>2, <1>4, <1>5, <1>6, <1>7, <1>9, <1>10, <1>11, Zenon DEF Retracts

(* retract_decode.                                                         *)
LEMMA RetractWellFormed ==
  ASSUME WellFormed, NEW r \in Reqs, NEW n, Retract(r, n)
  PROVE  WellFormed'
<1> HIDE DEF Slots, Results
<1>1. PICK t, E : Retracts(r, t, E)
  BY RetractMeans
<1>2. TreeShape(tree') /\ free_slots' \in SUBSET Slots
  BY <1>1 DEF Retracts, Deletes
<1>3. /\ phase[r] = "batch" /\ KVBecomes(kv)
      /\ row' = [row EXCEPT ![r] = <<>>]
      /\ prefix_indices' = [prefix_indices EXCEPT ![r] = <<>>]
      /\ last_node' = [last_node EXCEPT ![r] = <<>>]
      /\ results' = [results EXCEPT ![r] = <<>>]
      /\ fill_len' = [fill_len EXCEPT ![r] = 0]
      /\ phase' = [phase EXCEPT ![r] = "waiting"]
      /\ UNCHANGED <<prompt_len, ids>>
  BY DEF Retract, ReleaseRow
<1>4. ChangesOnly(r)
  BY <1>3 DEF ChangesOnly, WellFormed
<1>5. /\ phase'[r] = "waiting" /\ ids'[r] = ids[r] /\ fill_len'[r] = 0
      /\ prefix_indices'[r] = <<>> /\ last_node'[r] = <<>> /\ row'[r] = <<>>
      /\ results'[r] = <<>> /\ prompt_len'[r] = prompt_len[r]
  BY <1>3 DEF WellFormed
<1>6. RequestOK(phase'[r], ids'[r], fill_len'[r], prefix_indices'[r], last_node'[r], row'[r], results'[r])
  <2>1. 0 < fill_len[r] /\ fill_len[r] <= Len(ids[r]) /\ fill_len[r] \in Nat /\ Len(ids[r]) \in Nat
    BY <1>3, BatchFields, FieldsMean
  <2>2. Len(ids[r]) > 0 /\ Len(<<>>) = 0
    BY <2>1, EmptySeq
  <2>3. RequestOK("waiting", ids[r], 0, <<>>, <<>>, <<>>, <<>>)
    BY <2>2 DEF RequestOK
  <2> QED
    BY <1>5, <2>3, Zenon
<1>7. kv' \in [Slots -> Names]
  BY <1>3, FieldsMean, KVBecomesType
<1>8. /\ phase'[r] \in Phases /\ ids'[r] \in Names /\ last_node'[r] \in Names
      /\ fill_len'[r] \in Nat /\ prompt_len'[r] \in Nat
      /\ prefix_indices'[r] \in Seq(Slots) /\ row'[r] \in Seq(Slots) /\ results'[r] \in Seq(Results)
  <2>1. <<>> \in Seq(Slots) /\ <<>> \in Seq(Results) /\ <<>> \in Names /\ "waiting" \in Phases
    BY EmptySeq, PrefixOrder DEF Phases
  <2> QED
    BY <1>5, <2>1, FieldsMean
<1> QED
  BY <1>2, <1>4, <1>6, <1>7, <1>8, OneRequest

(* The effect of check_decode_mem.                                         *)
LEMMA CheckMemMeans ==
  ASSUME WellFormed, CheckDecodeMem
  PROVE  /\ free_slots' \in SUBSET Slots
         /\ \E E : /\ E \subseteq DOMAIN tree /\ \A p \in E : Below(tree, p) \subseteq E
                   /\ \A p \in E : tree[p].lock_ref = 0
                   /\ Deletes(tree, tree', E)
                   /\ free_slots' = free_slots \cup NodeSlots(tree, E)
                   /\ evictable_size' = evictable_size - SizeOf(tree, E)
<1> HIDE DEF Slots
<1> DEFINE n == Cardinality({r \in Reqs : phase[r] = "batch"})
<1>1. PICK E \in Evictions(tree, n) :
        /\ tree' = Delete(tree, E)
        /\ free_slots' = free_slots \cup NodeSlots(tree, E)
        /\ evictable_size' = evictable_size - SizeOf(tree, E)
  BY DEF CheckDecodeMem
<1> HIDE DEF n
<1>2. TreeShape(tree) /\ free_slots \in SUBSET Slots
  BY DEF WellFormed
<1>3. /\ E \subseteq DOMAIN tree /\ (\A p \in E : tree[p].lock_ref = 0)
      /\ (\A p \in E : Below(tree, p) \subseteq E) /\ Deletes(tree, Delete(tree, E), E)
  BY <1>2, EvictionMeans
<1>4. Deletes(tree, tree', E)
  BY <1>1, <1>3, Zenon
<1>5. free_slots' \in SUBSET Slots
  BY <1>1, <1>2, <1>3, NodeSlotsType
<1> QED
  BY <1>1, <1>3, <1>4, <1>5

(* check_decode_mem.                                                       *)
LEMMA CheckMemWellFormed ==
  ASSUME WellFormed, CheckDecodeMem
  PROVE  WellFormed'
<1> HIDE DEF Slots, Results
<1>1. free_slots' \in SUBSET Slots /\ TreeShape(tree')
  BY CheckMemMeans DEF Deletes
<1>2. UNCHANGED <<phase, prompt_len, ids, fill_len, prefix_indices, last_node, row, results>> /\ KVBecomes(kv)
  BY DEF CheckDecodeMem
<1>3. kv' \in [Slots -> Names]
  <2>1. kv \in [Slots -> Names]
    BY DEF WellFormed
  <2> QED
    BY <1>2, <2>1, KVBecomesType
<1> QED
  BY <1>1, <1>2, <1>3 DEF WellFormed

(* flush_cache.                                                            *)
LEMMA FlushWellFormed ==
  ASSUME WellFormed, FlushCache
  PROVE  WellFormed'
<1> HIDE DEF Slots, Results
<1>1. /\ tree' = EmptyTree /\ free_slots' = Slots /\ KVBecomes(kv)
      /\ UNCHANGED <<phase, prompt_len, ids, fill_len, prefix_indices, last_node, row, results>>
  BY DEF FlushCache
<1>2. TreeShape(tree')
  <2>1. DOMAIN tree' = {}
    BY <1>1 DEF EmptyTree
  <2> QED
    BY <2>1, FS_EmptySet DEF TreeShape, NodesBranch
<1>3. kv' \in [Slots -> Names]
  <2>1. kv \in [Slots -> Names]
    BY DEF WellFormed
  <2> QED
    BY <1>1, <2>1, KVBecomesType
<1> QED
  BY <1>1, <1>2, <1>3 DEF WellFormed

(* Every step leaves well-formed requests and a well-formed tree.          *)
LEMMA WellFormedNext ==
  ASSUME WellFormed, [Next]_vars
  PROVE  WellFormed'
<1>1. ASSUME NEW r \in Reqs, NEW prompt \in Prompts, Receive(r, prompt) PROVE WellFormed'
  BY <1>1, ReceiveWellFormed
<1>2. ASSUME NEW r \in Reqs, Peek(r) PROVE WellFormed'
  BY <1>2, PeekWellFormed
<1>3. ASSUME NEW r \in Reqs, NEW n \in 1..ChunkSize, Admit(r, n) PROVE WellFormed'
  BY <1>3, AdmitWellFormed
<1>4. ASSUME NEW r \in Reqs, NEW n \in 1..ChunkSize, AddChunked(r, n) PROVE WellFormed'
  BY <1>4, AddChunkedWellFormed
<1>5. ASSUME NEW r \in Reqs, PrepareForExtend(r) PROVE WellFormed'
  BY <1>5, ExtendWellFormed
<1>6. ASSUME NEW r \in Reqs, PrepareForDecode(r) PROVE WellFormed'
  BY <1>6, DecodeWellFormed
<1>7. ASSUME NEW r \in Reqs, StashChunk(r) PROVE WellFormed'
  BY <1>7, StashWellFormed
<1>8. ASSUME NEW r \in Reqs, ProcessLast(r) PROVE WellFormed'
  BY <1>8, LastWellFormed
<1>9. ASSUME NEW r \in Reqs, NEW t \in Tokens, ProcessPrefill(r, t) PROVE WellFormed'
  BY <1>9, ProcessPrefillWellFormed
<1>10. ASSUME NEW r \in Reqs, NEW t \in Tokens, ProcessDecode(r, t) PROVE WellFormed'
  BY <1>10, ProcessDecodeWellFormed
<1>11. ASSUME NEW r \in Reqs, FreeDelayed(r) PROVE WellFormed'
  BY <1>11, FreeDelayedWellFormed
<1>12. ASSUME NEW r \in Reqs, NEW n \in 0..NumSlots, Retract(r, n) PROVE WellFormed'
  BY <1>12, RetractWellFormed
<1>13. CASE UNCHANGED vars
  BY <1>13 DEF vars, WellFormed
<1> QED
  BY <1>1, <1>2, <1>3, <1>4, <1>5, <1>6, <1>7, <1>8, <1>9, <1>10, <1>11, <1>12, <1>13,
     CheckMemWellFormed, FlushWellFormed DEF Next
-----------------------------------------------------------------------------
(* Locks and sizes.                                                        *)

(* The holders in H, r at the node last[r], and the counts they make.      *)
LocksExact(t, H, last) ==
  /\ IsFiniteSet(H)
  /\ \A r \in H : last[r] \in Names /\ (last[r] = <<>> \/ last[r] \in DOMAIN t)
  /\ \A p \in DOMAIN t : t[p].lock_ref = Cardinality({r \in H : IsPrefix(p, last[r])})

Unlocked(t) == {p \in DOMAIN t : t[p].lock_ref = 0}

(* The tokens of the unlocked and of the locked nodes.                     *)
SizesAre(t, ev, pr) ==
  ev = SizeOf(t, Unlocked(t)) /\ pr = SizeOf(t, DOMAIN t \ Unlocked(t))

(* A tree in which the locks and the sizes are right.                      *)
Books(t, H, last, ev, pr) ==
  TreeShape(t) /\ LocksExact(t, H, last) /\ SizesAre(t, ev, pr)

(* The size of some nodes is a sum over a function on all nodes.           *)
EdgeLen(t) == [p \in DOMAIN t |-> Len(t[p].value)]

(* Sizes are finite sums of lengths.                                       *)
LEMMA SizeMeans ==
  ASSUME NEW t, TreeShape(t), NEW S, S \subseteq DOMAIN t
  PROVE  /\ SizeOf(t, S) = SumOver(EdgeLen(t), S)
         /\ IsFiniteSet(S) /\ (\A p \in S : EdgeLen(t)[p] \in Nat /\ EdgeLen(t)[p] = Len(t[p].value))
         /\ SizeOf(t, S) \in Nat
<1> DEFINE f == [p \in S |-> Len(t[p].value)]
           g == EdgeLen(t)
<1>1. \A p \in DOMAIN t : t[p].value \in Seq(Slots)
  BY DEF TreeShape
<1>2. \A p \in S : Len(t[p].value) \in Nat
  BY <1>1, LenProperties
<1>3. \A p \in S : f[p] = Len(t[p].value) /\ g[p] = Len(t[p].value)
  BY DEF EdgeLen
<1> HIDE DEF f, g
<1>4. SumOver(f, S) = SumOver(g, S)
  BY <1>3, SumCong
<1>5. IsFiniteSet(S)
  BY FS_Subset DEF TreeShape, NodesBranch
<1>6. \A p \in S : g[p] \in Nat
  BY <1>2, <1>3
<1>7. SumOver(g, S) \in Nat
  BY <1>5, <1>6, SumType
<1>8. SizeOf(t, S) = SumOver(f, S)
  BY DEF SizeOf, f
<1> QED
  BY <1>3, <1>4, <1>5, <1>6, <1>7, <1>8 DEF g

(* The size of two sets of nodes.                                          *)
LEMMA SizeUnion ==
  ASSUME NEW t, TreeShape(t), NEW S, S \subseteq DOMAIN t, NEW E, E \subseteq S
  PROVE  /\ SizeOf(t, S) = SizeOf(t, S \ E) + SizeOf(t, E)
         /\ SizeOf(t, S \ E) = SizeOf(t, S) - SizeOf(t, E)
         /\ SizeOf(t, S) \in Nat /\ SizeOf(t, S \ E) \in Nat /\ SizeOf(t, E) \in Nat
<1> DEFINE A == S \ E
           g == EdgeLen(t)
<1>1. A \subseteq DOMAIN t /\ E \subseteq DOMAIN t /\ A \cap E = {} /\ S = A \cup E
  OBVIOUS
<1> HIDE DEF A, g
<1>2. /\ SizeOf(t, A) = SumOver(g, A) /\ SizeOf(t, E) = SumOver(g, E) /\ SizeOf(t, S) = SumOver(g, S)
      /\ IsFiniteSet(A) /\ IsFiniteSet(E)
      /\ (\A p \in A : g[p] \in Nat) /\ (\A p \in E : g[p] \in Nat)
      /\ SizeOf(t, A) \in Nat /\ SizeOf(t, E) \in Nat /\ SizeOf(t, S) \in Nat
  BY <1>1, SizeMeans DEF g
<1>3. \A p \in A \cup E : g[p] \in Nat
  BY <1>2
<1>4. SumOver(g, A \cup E) = SumOver(g, A) + SumOver(g, E)
  BY <1>1, <1>2, <1>3, SumSplit
<1>5. SumOver(g, S) = SumOver(g, A) + SumOver(g, E)
  BY <1>1, <1>4, Zenon
<1>6. SizeOf(t, S) = SizeOf(t, A) + SizeOf(t, E) /\ SizeOf(t, A) = SizeOf(t, S) - SizeOf(t, E)
  BY <1>2, <1>5
<1> QED
  BY <1>2, <1>6 DEF A

(* The size depends on the edges only.                                     *)
LEMMA SizeSame ==
  ASSUME NEW t, TreeShape(t), NEW t2, TreeShape(t2),
         NEW S, S \subseteq DOMAIN t, S \subseteq DOMAIN t2, \A p \in S : t2[p].value = t[p].value
  PROVE  SizeOf(t2, S) = SizeOf(t, S)
<1>1. \A p \in S : [q \in S |-> Len(t2[q].value)][p] = [q \in S |-> Len(t[q].value)][p]
  OBVIOUS
<1>2. SumOver([q \in S |-> Len(t2[q].value)], S) = SumOver([q \in S |-> Len(t[q].value)], S)
  BY <1>1, SumCong
<1> QED
  BY <1>2, Zenon DEF SizeOf

(* The size of one node.                                                   *)
LEMMA SizeOne ==
  ASSUME NEW t, TreeShape(t), NEW c \in DOMAIN t
  PROVE  SizeOf(t, {c}) = Len(t[c].value) /\ Len(t[c].value) \in Nat
<1>1. {c} \subseteq DOMAIN t
  OBVIOUS
<1>2. SizeOf(t, {c}) = SumOver(EdgeLen(t), {c}) /\ EdgeLen(t)[c] \in Nat /\ EdgeLen(t)[c] = Len(t[c].value)
  BY <1>1, SizeMeans
<1>3. SumOver(EdgeLen(t), {c}) = EdgeLen(t)[c]
  BY <1>2, SumSingleton
<1> QED
  BY <1>2, <1>3

(* The halves of the edge that was cut have its size.                      *)
LEMMA SizeCut ==
  ASSUME NEW t, TreeShape(t), NEW t2, TreeShape(t2), NEW u, NEW c, CutsEdge(t, t2, u, c),
         NEW S, S \subseteq DOMAIN t
  PROVE  /\ c \in S => SizeOf(t2, S \cup {u}) = SizeOf(t, S)
         /\ c \notin S => SizeOf(t2, S) = SizeOf(t, S)
<1>1. /\ u \notin DOMAIN t /\ DOMAIN t2 = DOMAIN t \cup {u} /\ c \in DOMAIN t
      /\ Len(t2[u].value) + Len(t2[c].value) = Len(t[c].value)
      /\ \A p \in DOMAIN t : p # c => t2[p].value = t[p].value
  BY DEF CutsEdge, OnEdge
<1>2. ASSUME c \notin S PROVE SizeOf(t2, S) = SizeOf(t, S)
  <2>1. S \subseteq DOMAIN t2 /\ \A p \in S : t2[p].value = t[p].value
    BY <1>1, <1>2
  <2> QED
    BY <2>1, SizeSame
<1>3. ASSUME c \in S PROVE SizeOf(t2, S \cup {u}) = SizeOf(t, S)
  <2> DEFINE C == {c}
             U == {u}
             A == S \ C
             T == S \cup U
  <2>1. /\ A \subseteq DOMAIN t /\ A \subseteq DOMAIN t2 /\ \A p \in A : t2[p].value = t[p].value
        /\ C \subseteq S /\ U \subseteq T /\ T \subseteq DOMAIN t2 /\ S \subseteq DOMAIN t2 /\ T \ U = S
    BY <1>1, <1>3
  <2>2. /\ SizeOf(t2, C) = Len(t2[c].value) /\ Len(t2[c].value) \in Nat
        /\ SizeOf(t2, U) = Len(t2[u].value) /\ Len(t2[u].value) \in Nat
        /\ SizeOf(t, C) = Len(t[c].value) /\ Len(t[c].value) \in Nat
    BY <1>1, SizeOne
  <2> HIDE DEF C, U, T
  <2>3. SizeOf(t, S) = SizeOf(t, A) + SizeOf(t, C)
    BY <2>1, SizeUnion
  <2>4. SizeOf(t2, S) = SizeOf(t2, A) + SizeOf(t2, C)
    BY <2>1, SizeUnion
  <2>5. SizeOf(t2, T) = SizeOf(t2, T \ U) + SizeOf(t2, U)
    BY <2>1, SizeUnion
  <2>6. SizeOf(t2, A) = SizeOf(t, A)
    BY <2>1, SizeSame
  <2>7. SizeOf(t, A) \in Nat
    BY <2>1, SizeMeans
  <2>8. SizeOf(t2, T \ U) = SizeOf(t2, S)
    BY <2>1, Zenon
  <2> HIDE DEF A
  <2>9. SizeOf(t2, T) = SizeOf(t, S)
    <3>1. Len(t2[u].value) + Len(t2[c].value) = Len(t[c].value)
      BY <1>1
    <3>2. SizeOf(t2, T) = (SizeOf(t, A) + Len(t2[c].value)) + Len(t2[u].value)
      BY <2>2, <2>4, <2>5, <2>6, <2>8, Zenon
    <3>3. SizeOf(t, S) = SizeOf(t, A) + Len(t[c].value)
      BY <2>2, <2>3, Zenon
    <3> DEFINE a == SizeOf(t, A)
               x == Len(t2[c].value)
               y == Len(t2[u].value)
               z == Len(t[c].value)
    <3>4. a \in Nat /\ x \in Nat /\ y \in Nat /\ z \in Nat /\ y + x = z
      BY <2>2, <2>7, <3>1
    <3>5. SizeOf(t2, T) = (a + x) + y /\ SizeOf(t, S) = a + z
      BY <3>2, <3>3
    <3> HIDE DEF a, x, y, z
    <3> QED
      BY <3>4, <3>5
  <2> QED
    BY <2>9 DEF T, U
<1> QED
  BY <1>2, <1>3

(* A split keeps the books: the new node has the users of the one it cuts. *)
LEMMA BooksSplit ==
  ASSUME NEW t, NEW H, NEW last, NEW ev, NEW pr, Books(t, H, last, ev, pr),
         NEW t2, NEW u, SplitsNode(t, t2, u)
  PROVE  Books(t2, H, last, ev, pr)
<1>0. TreeShape(t) /\ TreeShape(t2) /\ LocksExact(t, H, last) /\ SizesAre(t, ev, pr)
  BY DEF Books, SplitsNode
<1>1. CASE t2 = t
  BY <1>1, Zenon
<1>2. ASSUME NEW c \in DOMAIN t, CutsEdge(t, t2, u, c) PROVE Books(t2, H, last, ev, pr)
  <2>1. /\ u \notin DOMAIN t /\ DOMAIN t2 = DOMAIN t \cup {u}
        /\ IsPrefix(u, c) /\ \A p \in DOMAIN t : IsPrefix(u, p) => IsPrefix(c, p)
        /\ t2[u].lock_ref = t[c].lock_ref /\ \A p \in DOMAIN t : t2[p].lock_ref = t[p].lock_ref
    BY <1>2 DEF CutsEdge, OnEdge
  <2>2. u \in Names /\ u # <<>> /\ c \in Names /\ DOMAIN t \subseteq Names
    BY <1>0, <2>1 DEF TreeShape, NodesBranch
  <2>3. \A r \in H : IsPrefix(u, last[r]) <=> IsPrefix(c, last[r])
    <3>1. ASSUME NEW r \in H PROVE IsPrefix(u, last[r]) <=> IsPrefix(c, last[r])
      <4>1. last[r] \in Names /\ (last[r] = <<>> \/ last[r] \in DOMAIN t)
        BY <1>0 DEF LocksExact
      <4>2. IsPrefix(c, last[r]) => IsPrefix(u, last[r])
        BY <2>1, <2>2, <4>1, PrefixOrder
      <4>3. CASE last[r] \in DOMAIN t
        BY <2>1, <4>2, <4>3
      <4>4. CASE last[r] = <<>>
        <5>1. ~IsPrefix(u, last[r])
          <6>1. IsPrefix(u, <<>>) => Len(u) <= Len(<<>>) /\ Len(<<>>) = 0 /\ Len(u) \in Nat
            BY <2>2, PrefixOrder
          <6>2. Len(u) # 0
            BY <2>2, PrefixOrder
          <6> QED
            BY <4>4, <6>1, <6>2
        <5> QED
          BY <4>2, <5>1
      <4> QED
        BY <4>1, <4>3, <4>4
    <3> QED
      BY <3>1
  <2>4. LocksExact(t2, H, last)
    <3>1. {r \in H : IsPrefix(u, last[r])} = {r \in H : IsPrefix(c, last[r])}
      BY <2>3
    <3>2. t2[u].lock_ref = Cardinality({r \in H : IsPrefix(u, last[r])})
      <4>1. t[c].lock_ref = Cardinality({r \in H : IsPrefix(c, last[r])})
        BY <1>0 DEF LocksExact
      <4> QED
        BY <2>1, <3>1, <4>1, Zenon
    <3>3. \A p \in DOMAIN t : t2[p].lock_ref = Cardinality({r \in H : IsPrefix(p, last[r])})
      BY <1>0, <2>1, Zenon DEF LocksExact
    <3>4. \A p \in DOMAIN t2 : t2[p].lock_ref = Cardinality({r \in H : IsPrefix(p, last[r])})
      BY <2>1, <3>2, <3>3
    <3> QED
      BY <1>0, <2>1, <3>4 DEF LocksExact
  <2>5. SizesAre(t2, ev, pr)
    <3> DEFINE S == Unlocked(t)
               S2 == Unlocked(t2)
               L == DOMAIN t \ S
               L2 == DOMAIN t2 \ S2
    <3>1. S \subseteq DOMAIN t /\ L \subseteq DOMAIN t
      BY DEF Unlocked
    <3>2. /\ c \in S => S2 = S \cup {u} /\ L2 = L
          /\ c \notin S => S2 = S /\ L2 = L \cup {u}
      BY <2>1 DEF Unlocked
    <3>3. c \in L <=> c \notin S
      OBVIOUS
    <3>4. ev = SizeOf(t, S) /\ pr = SizeOf(t, L)
      BY <1>0 DEF SizesAre
    <3> HIDE DEF S, S2, L, L2
    <3>5. /\ c \in S => SizeOf(t2, S \cup {u}) = SizeOf(t, S)
          /\ c \notin S => SizeOf(t2, S) = SizeOf(t, S)
      BY <1>0, <1>2, <3>1, SizeCut
    <3>6. /\ c \in L => SizeOf(t2, L \cup {u}) = SizeOf(t, L)
          /\ c \notin L => SizeOf(t2, L) = SizeOf(t, L)
      BY <1>0, <1>2, <3>1, SizeCut
    <3>7. ev = SizeOf(t2, S2) /\ pr = SizeOf(t2, L2)
      <4>1. CASE c \in S
        BY <3>2, <3>3, <3>4, <3>5, <3>6, <4>1, Zenon
      <4>2. CASE c \notin S
        BY <3>2, <3>3, <3>4, <3>5, <3>6, <4>2, Zenon
      <4> QED
        BY <4>1, <4>2
    <3> QED
      BY <3>7 DEF SizesAre, S2, L2
  <2> QED
    BY <1>0, <2>4, <2>5 DEF Books
<1> QED
  BY <1>1, <1>2 DEF SplitsNode

(* A new leaf is not locked.                                               *)
LEMMA BooksLeaf ==
  ASSUME NEW t, NEW H, NEW last, NEW ev, NEW pr, Books(t, H, last, ev, pr),
         NEW t2, TreeShape(t2), NEW key, NEW k, AddsLeaf(t, t2, key, k)
  PROVE  Books(t2, H, last, ev + k, pr)
<1>0. /\ TreeShape(t) /\ LocksExact(t, H, last) /\ SizesAre(t, ev, pr)
      /\ ev \in Nat
  <2>1. TreeShape(t) /\ LocksExact(t, H, last) /\ SizesAre(t, ev, pr)
    BY DEF Books
  <2>2. Unlocked(t) \subseteq DOMAIN t
    BY DEF Unlocked
  <2> QED
    BY <2>1, <2>2, SizeMeans DEF SizesAre
<1>1. CASE t2 = t /\ k = 0
  <2>1. ev + k = ev
    BY <1>0, <1>1
  <2> QED
    BY <1>1, <2>1, Zenon
<1>2. CASE ~(t2 = t /\ k = 0)
  <2>1. /\ \A p \in DOMAIN t : ~IsPrefix(key, p)
        /\ key \in Names /\ key # <<>> /\ k \in Nat
        /\ DOMAIN t2 = DOMAIN t \cup {key}
        /\ t2[key].lock_ref = 0 /\ Len(t2[key].value) = k
        /\ \A p \in DOMAIN t : t2[p] = t[p]
    BY <1>2 DEF AddsLeaf
  <2>2. key \notin DOMAIN t
    BY <2>1, PrefixOrder
  <2>3. {r \in H : IsPrefix(key, last[r])} = {}
    <3>1. ASSUME NEW r \in H, IsPrefix(key, last[r]) PROVE FALSE
      <4>1. last[r] = <<>>
        BY <1>0, <2>1, <3>1 DEF LocksExact
      <4>2. IsPrefix(key, <<>>) => Len(key) <= Len(<<>>) /\ Len(<<>>) = 0 /\ Len(key) \in Nat
        BY <2>1, PrefixOrder
      <4>3. Len(key) # 0
        BY <2>1, PrefixOrder
      <4> QED
        BY <3>1, <4>1, <4>2, <4>3
    <3> QED
      BY <3>1
  <2>4. LocksExact(t2, H, last)
    <3>1. t2[key].lock_ref = Cardinality({r \in H : IsPrefix(key, last[r])})
      BY <2>1, <2>3, FS_EmptySet, Zenon
    <3>2. \A p \in DOMAIN t : t2[p].lock_ref = Cardinality({r \in H : IsPrefix(p, last[r])})
      BY <1>0, <2>1, Zenon DEF LocksExact
    <3>3. \A p \in DOMAIN t2 : t2[p].lock_ref = Cardinality({r \in H : IsPrefix(p, last[r])})
      BY <2>1, <3>1, <3>2
    <3> QED
      BY <1>0, <2>1, <3>3 DEF LocksExact
  <2>5. SizesAre(t2, ev + k, pr)
    <3> DEFINE S == Unlocked(t)
               S2 == Unlocked(t2)
               L == DOMAIN t \ S
               L2 == DOMAIN t2 \ S2
               K == {key}
    <3>1. /\ S \subseteq DOMAIN t /\ L \subseteq DOMAIN t /\ S \subseteq DOMAIN t2 /\ L \subseteq DOMAIN t2
          /\ S2 \ K = S /\ K \subseteq S2 /\ L2 = L /\ S2 \subseteq DOMAIN t2
          /\ (\A p \in S : t2[p].value = t[p].value) /\ \A p \in L : t2[p].value = t[p].value
      BY <2>1, <2>2 DEF Unlocked
    <3>2. SizeOf(t2, K) = k
      BY <2>1, SizeOne
    <3>3. ev = SizeOf(t, S) /\ pr = SizeOf(t, L)
      BY <1>0 DEF SizesAre
    <3> HIDE DEF S, S2, L, L2, K
    <3>4. SizeOf(t2, S) = SizeOf(t, S)
      BY <1>0, <3>1, SizeSame
    <3>5. SizeOf(t2, L) = SizeOf(t, L)
      BY <1>0, <3>1, SizeSame
    <3>6. SizeOf(t2, S2) = SizeOf(t2, S2 \ K) + SizeOf(t2, K)
      BY <3>1, SizeUnion
    <3>7. ev + k = SizeOf(t2, S2) /\ pr = SizeOf(t2, L2)
      BY <3>1, <3>2, <3>3, <3>4, <3>5, <3>6, Zenon
    <3> QED
      BY <3>7 DEF SizesAre, S2, L2
  <2> QED
    BY <2>4, <2>5 DEF Books
<1> QED
  BY <1>1, <1>2

(* Locks are counts, and a node on the path of a holder is locked.         *)
LEMMA LockCounts ==
  ASSUME NEW t, NEW H, NEW last, LocksExact(t, H, last)
  PROVE  /\ \A p \in DOMAIN t : t[p].lock_ref \in Nat
         /\ \A r \in H : \A p \in DOMAIN t : IsPrefix(p, last[r]) => t[p].lock_ref >= 1
<1>1. ASSUME NEW p \in DOMAIN t
      PROVE  t[p].lock_ref \in Nat /\ \A r \in H : IsPrefix(p, last[r]) => t[p].lock_ref >= 1
  <2> DEFINE A == {r \in H : IsPrefix(p, last[r])}
  <2>1. t[p].lock_ref = Cardinality(A) /\ IsFiniteSet(A)
    <3>1. IsFiniteSet(H) /\ A \subseteq H
      BY DEF LocksExact
    <3>2. IsFiniteSet(A)
      BY <3>1, FS_Subset
    <3> QED
      BY <3>2 DEF LocksExact
  <2>2. Cardinality(A) \in Nat /\ (Cardinality(A) = 0 => A = {})
    BY <2>1, FS_CardinalityType, FS_EmptySet
  <2>3. \A r \in H : IsPrefix(p, last[r]) => A # {}
    OBVIOUS
  <2> HIDE DEF A
  <2> QED
    BY <2>1, <2>2, <2>3
<1> QED
  BY <1>1

(* inc_lock_ref for a request that held no lock.                           *)
LEMMA BooksInc ==
  ASSUME NEW t, NEW H, NEW last, NEW ev, NEW pr, Books(t, H, last, ev, pr),
         NEW node \in Names, node = <<>> \/ node \in DOMAIN t,
         NEW r, r \notin H, NEW last2, last2[r] = node, \A q \in H : last2[q] = last[q]
  PROVE  Books(IncLock(t, node), H \cup {r}, last2,
               ev - Toggled(t, node, 0), pr + Toggled(t, node, 0))
<1> DEFINE t2 == IncLock(t, node)
           A == {p \in Ancestors(t, node) : t[p].lock_ref = 0}
<1>0. TreeShape(t) /\ LocksExact(t, H, last) /\ SizesAre(t, ev, pr)
  BY DEF Books
<1>1. SameEdges(t, t2) /\ \A p \in DOMAIN t : t2[p].lock_ref = t[p].lock_ref + (IF IsPrefix(p, node) THEN 1 ELSE 0)
  BY <1>0, LockingKeeps
<1>2. \A p : p \in A <=> p \in DOMAIN t /\ IsPrefix(p, node) /\ t[p].lock_ref = 0
  BY DEF Ancestors
<1>3. Toggled(t, node, 0) = SizeOf(t, A)
  BY DEF Toggled
<1> HIDE DEF t2, A
<1>4. TreeShape(t2) /\ DOMAIN t2 = DOMAIN t /\ \A p \in DOMAIN t : t2[p].value = t[p].value
  BY <1>0, <1>1, RelockKeeps DEF SameEdges
<1>5. \A p \in DOMAIN t : t[p].lock_ref \in Nat
  BY <1>0, LockCounts
<1>6. LocksExact(t2, H \cup {r}, last2)
  <2>1. IsFiniteSet(H \cup {r})
    BY <1>0, FS_AddElement DEF LocksExact
  <2>2. \A q \in H \cup {r} : last2[q] \in Names /\ (last2[q] = <<>> \/ last2[q] \in DOMAIN t2)
    BY <1>0, <1>4 DEF LocksExact
  <2>3. ASSUME NEW p \in DOMAIN t PROVE t2[p].lock_ref = Cardinality({q \in H \cup {r} : IsPrefix(p, last2[q])})
    <3> DEFINE B == {q \in H : IsPrefix(p, last[q])}
    <3>1. t[p].lock_ref = Cardinality(B) /\ B \subseteq H /\ IsFiniteSet(H)
      BY <1>0 DEF LocksExact
    <3>2. IsFiniteSet(B) /\ r \notin B
      BY <3>1, FS_Subset
    <3>3. CASE IsPrefix(p, node)
      <4>1. {q \in H \cup {r} : IsPrefix(p, last2[q])} = B \cup {r}
        BY <3>3
      <4> HIDE DEF B
      <4>2. Cardinality(B \cup {r}) = Cardinality(B) + 1
        BY <3>2, FS_AddElement
      <4>3. t2[p].lock_ref = t[p].lock_ref + 1
        BY <1>1, <3>3
      <4> QED
        BY <3>1, <4>1, <4>2, <4>3, Zenon
    <3>4. CASE ~IsPrefix(p, node)
      <4>1. {q \in H \cup {r} : IsPrefix(p, last2[q])} = B
        BY <3>4
      <4> HIDE DEF B
      <4>2. t2[p].lock_ref = t[p].lock_ref
        BY <1>1, <1>5, <3>4
      <4> QED
        BY <3>1, <4>1, <4>2, Zenon
    <3> QED
      BY <3>3, <3>4
  <2> QED
    BY <1>4, <2>1, <2>2, <2>3, Zenon DEF LocksExact
<1>7. SizesAre(t2, ev - SizeOf(t, A), pr + SizeOf(t, A))
  <2> DEFINE S == Unlocked(t)
             S2 == Unlocked(t2)
             L == DOMAIN t \ S
             L2 == DOMAIN t2 \ S2
  <2>1. \A p \in DOMAIN t : t2[p].lock_ref = 0 <=> t[p].lock_ref = 0 /\ ~IsPrefix(p, node)
    BY <1>1, <1>5
  <2>2. /\ S \subseteq DOMAIN t /\ A \subseteq S /\ S2 = S \ A /\ L2 \ A = L /\ A \subseteq L2
        /\ L2 \subseteq DOMAIN t /\ S2 \subseteq DOMAIN t /\ S2 \subseteq DOMAIN t2 /\ L2 \subseteq DOMAIN t2
        /\ (\A p \in S2 : t2[p].value = t[p].value) /\ (\A p \in L2 : t2[p].value = t[p].value)
    BY <1>2, <1>4, <2>1 DEF Unlocked
  <2>3. ev = SizeOf(t, S) /\ pr = SizeOf(t, L)
    BY <1>0 DEF SizesAre
  <2> HIDE DEF S, S2, L, L2
  <2>4. SizeOf(t2, S2) = SizeOf(t, S2)
    BY <1>0, <1>4, <2>2, SizeSame
  <2>5. SizeOf(t2, L2) = SizeOf(t, L2)
    BY <1>0, <1>4, <2>2, SizeSame
  <2>6. SizeOf(t, S \ A) = SizeOf(t, S) - SizeOf(t, A)
    BY <1>0, <2>2, SizeUnion
  <2>7. SizeOf(t, L2) = SizeOf(t, L2 \ A) + SizeOf(t, A)
    BY <1>0, <2>2, SizeUnion
  <2>8. ev - SizeOf(t, A) = SizeOf(t2, S2) /\ pr + SizeOf(t, A) = SizeOf(t2, L2)
    BY <2>2, <2>3, <2>4, <2>5, <2>6, <2>7, Zenon
  <2> QED
    BY <2>8 DEF SizesAre, S2, L2
<1>8. SizesAre(t2, ev - Toggled(t, node, 0), pr + Toggled(t, node, 0))
  BY <1>3, <1>7, Zenon
<1> QED
  BY <1>4, <1>6, <1>8 DEF Books, t2

(* dec_lock_ref for a holder.                                              *)
LEMMA BooksDec ==
  ASSUME NEW t, NEW H, NEW last, NEW ev, NEW pr, Books(t, H, last, ev, pr),
         NEW r \in H, NEW node, node = last[r]
  PROVE  Books(DecLock(t, node), H \ {r}, last,
               ev + Toggled(t, node, 1), pr - Toggled(t, node, 1))
<1> DEFINE t2 == DecLock(t, node)
           A == {p \in Ancestors(t, node) : t[p].lock_ref = 1}
<1>0. TreeShape(t) /\ LocksExact(t, H, last) /\ SizesAre(t, ev, pr)
  BY DEF Books
<1>1. SameEdges(t, t2) /\ \A p \in DOMAIN t : t2[p].lock_ref = t[p].lock_ref - (IF IsPrefix(p, node) THEN 1 ELSE 0)
  BY <1>0, LockingKeeps
<1>2. \A p : p \in A <=> p \in DOMAIN t /\ IsPrefix(p, node) /\ t[p].lock_ref = 1
  BY DEF Ancestors
<1>3. Toggled(t, node, 1) = SizeOf(t, A)
  BY DEF Toggled
<1> HIDE DEF t2, A
<1>4. TreeShape(t2) /\ DOMAIN t2 = DOMAIN t /\ \A p \in DOMAIN t : t2[p].value = t[p].value
  BY <1>0, <1>1, RelockKeeps DEF SameEdges
<1>5. /\ \A p \in DOMAIN t : t[p].lock_ref \in Nat
      /\ \A p \in DOMAIN t : IsPrefix(p, node) => t[p].lock_ref >= 1
  BY <1>0, LockCounts
<1>6. LocksExact(t2, H \ {r}, last)
  <2>1. IsFiniteSet(H \ {r})
    BY <1>0, FS_RemoveElement DEF LocksExact
  <2>2. \A q \in H \ {r} : last[q] \in Names /\ (last[q] = <<>> \/ last[q] \in DOMAIN t2)
    BY <1>0, <1>4 DEF LocksExact
  <2>3. ASSUME NEW p \in DOMAIN t PROVE t2[p].lock_ref = Cardinality({q \in H \ {r} : IsPrefix(p, last[q])})
    <3> DEFINE B == {q \in H : IsPrefix(p, last[q])}
    <3>1. t[p].lock_ref = Cardinality(B) /\ B \subseteq H /\ IsFiniteSet(H) /\ (r \in B <=> IsPrefix(p, node))
      BY <1>0 DEF LocksExact
    <3>2. IsFiniteSet(B) /\ {q \in H \ {r} : IsPrefix(p, last[q])} = B \ {r}
      BY <3>1, FS_Subset
    <3> HIDE DEF B
    <3>3. Cardinality(B \ {r}) = IF r \in B THEN Cardinality(B) - 1 ELSE Cardinality(B)
      BY <3>2, FS_RemoveElement
    <3>4. CASE IsPrefix(p, node)
      <4>1. t2[p].lock_ref = t[p].lock_ref - 1
        BY <1>1, <3>4
      <4>2. Cardinality(B \ {r}) = Cardinality(B) - 1
        BY <3>1, <3>3, <3>4
      <4> QED
        BY <3>1, <3>2, <4>1, <4>2, Zenon
    <3>5. CASE ~IsPrefix(p, node)
      <4>1. t2[p].lock_ref = t[p].lock_ref
        BY <1>1, <1>5, <3>5
      <4>2. Cardinality(B \ {r}) = Cardinality(B)
        BY <3>1, <3>3, <3>5
      <4> QED
        BY <3>1, <3>2, <4>1, <4>2, Zenon
    <3> QED
      BY <3>4, <3>5
  <2> QED
    BY <1>4, <2>1, <2>2, <2>3, Zenon DEF LocksExact
<1>7. SizesAre(t2, ev + SizeOf(t, A), pr - SizeOf(t, A))
  <2> DEFINE S == Unlocked(t)
             S2 == Unlocked(t2)
             L == DOMAIN t \ S
             L2 == DOMAIN t2 \ S2
  <2>1. \A p \in DOMAIN t : t2[p].lock_ref = 0 <=> t[p].lock_ref = 0 \/ p \in A
    BY <1>1, <1>2, <1>5
  <2>2. /\ L \subseteq DOMAIN t /\ A \subseteq L /\ L2 = L \ A /\ S2 \ A = S /\ A \subseteq S2
        /\ L2 \subseteq DOMAIN t /\ S2 \subseteq DOMAIN t /\ S2 \subseteq DOMAIN t2 /\ L2 \subseteq DOMAIN t2
        /\ (\A p \in S2 : t2[p].value = t[p].value) /\ (\A p \in L2 : t2[p].value = t[p].value)
    BY <1>2, <1>4, <2>1 DEF Unlocked
  <2>3. ev = SizeOf(t, S) /\ pr = SizeOf(t, L)
    BY <1>0 DEF SizesAre
  <2> HIDE DEF S, S2, L, L2
  <2>4. SizeOf(t2, S2) = SizeOf(t, S2)
    BY <1>0, <1>4, <2>2, SizeSame
  <2>5. SizeOf(t2, L2) = SizeOf(t, L2)
    BY <1>0, <1>4, <2>2, SizeSame
  <2>6. SizeOf(t, L \ A) = SizeOf(t, L) - SizeOf(t, A)
    BY <1>0, <2>2, SizeUnion
  <2>7. SizeOf(t, S2) = SizeOf(t, S2 \ A) + SizeOf(t, A)
    BY <1>0, <2>2, SizeUnion
  <2>8. ev + SizeOf(t, A) = SizeOf(t2, S2) /\ pr - SizeOf(t, A) = SizeOf(t2, L2)
    BY <2>2, <2>3, <2>4, <2>5, <2>6, <2>7, Zenon
  <2> QED
    BY <2>8 DEF SizesAre, S2, L2
<1>8. SizesAre(t2, ev + Toggled(t, node, 1), pr - Toggled(t, node, 1))
  BY <1>3, <1>7, Zenon
<1> QED
  BY <1>4, <1>6, <1>8 DEF Books, t2

(* An eviction takes unlocked nodes only.                                  *)
LEMMA BooksDelete ==
  ASSUME NEW t, NEW H, NEW last, NEW ev, NEW pr, Books(t, H, last, ev, pr),
         NEW t2, NEW E, Deletes(t, t2, E), E \subseteq DOMAIN t, \A p \in E : t[p].lock_ref = 0
  PROVE  Books(t2, H, last, ev - SizeOf(t, E), pr)
<1>0. TreeShape(t) /\ LocksExact(t, H, last) /\ SizesAre(t, ev, pr)
  BY DEF Books
<1>1. TreeShape(t2) /\ DOMAIN t2 = DOMAIN t \ E /\ \A p \in DOMAIN t2 : t2[p] = t[p]
  BY DEF Deletes
<1>2. LocksExact(t2, H, last)
  <2>1. ASSUME NEW r \in H PROVE last[r] \in Names /\ (last[r] = <<>> \/ last[r] \in DOMAIN t2)
    <3>1. last[r] \in Names /\ (last[r] = <<>> \/ last[r] \in DOMAIN t)
      BY <1>0 DEF LocksExact
    <3>2. ASSUME last[r] \in E PROVE FALSE
      <4>1. last[r] \in DOMAIN t /\ t[last[r]].lock_ref = 0 /\ IsPrefix(last[r], last[r])
        BY <3>1, <3>2, PrefixOrder
      <4>2. t[last[r]].lock_ref >= 1
        BY <1>0, <4>1, LockCounts
      <4> QED
        BY <4>1, <4>2
    <3> QED
      BY <1>1, <3>1, <3>2
  <2>2. \A p \in DOMAIN t2 : t2[p].lock_ref = Cardinality({r \in H : IsPrefix(p, last[r])})
    <3>1. \A p \in DOMAIN t2 : p \in DOMAIN t
      BY <1>1
    <3> QED
      BY <1>0, <1>1, <3>1, Zenon DEF LocksExact
  <2> QED
    BY <1>0, <2>1, <2>2 DEF LocksExact
<1>3. SizesAre(t2, ev - SizeOf(t, E), pr)
  <2> DEFINE S == Unlocked(t)
             S2 == Unlocked(t2)
             L == DOMAIN t \ S
             L2 == DOMAIN t2 \ S2
  <2>1. /\ S \subseteq DOMAIN t /\ E \subseteq S /\ S2 = S \ E /\ L2 = L
        /\ L2 \subseteq DOMAIN t /\ S2 \subseteq DOMAIN t /\ S2 \subseteq DOMAIN t2 /\ L2 \subseteq DOMAIN t2
        /\ (\A p \in S2 : t2[p].value = t[p].value) /\ (\A p \in L2 : t2[p].value = t[p].value)
    BY <1>1 DEF Unlocked
  <2>2. ev = SizeOf(t, S) /\ pr = SizeOf(t, L)
    BY <1>0 DEF SizesAre
  <2> HIDE DEF S, S2, L, L2
  <2>3. SizeOf(t2, S2) = SizeOf(t, S2)
    BY <1>0, <1>1, <2>1, SizeSame
  <2>4. SizeOf(t2, L2) = SizeOf(t, L2)
    BY <1>0, <1>1, <2>1, SizeSame
  <2>5. SizeOf(t, S \ E) = SizeOf(t, S) - SizeOf(t, E)
    BY <1>0, <2>1, SizeUnion
  <2>6. ev - SizeOf(t, E) = SizeOf(t2, S2) /\ pr = SizeOf(t2, L2)
    BY <2>1, <2>2, <2>3, <2>4, <2>5, Zenon
  <2> QED
    BY <2>6 DEF SizesAre, S2, L2
<1> QED
  BY <1>1, <1>2, <1>3 DEF Books

(* Sizes are natural numbers.                                              *)
LEMMA BooksType ==
  ASSUME NEW t, NEW H, NEW last, NEW ev, NEW pr, Books(t, H, last, ev, pr)
  PROVE  ev \in Nat /\ pr \in Nat /\ \A p \in DOMAIN t : t[p].lock_ref \in Nat
<1>1. TreeShape(t) /\ LocksExact(t, H, last) /\ SizesAre(t, ev, pr)
  BY DEF Books
<1>2. Unlocked(t) \subseteq DOMAIN t /\ DOMAIN t \ Unlocked(t) \subseteq DOMAIN t
  BY DEF Unlocked
<1>3. SizeOf(t, Unlocked(t)) \in Nat /\ SizeOf(t, DOMAIN t \ Unlocked(t)) \in Nat
  BY <1>1, <1>2, SizeMeans
<1> QED
  BY <1>1, <1>3, LockCounts DEF SizesAre

(* So is what changes sides.                                               *)
LEMMA ToggledType ==
  ASSUME NEW t, TreeShape(t), NEW node, NEW k
  PROVE  Toggled(t, node, k) \in Nat
<1> DEFINE A == {p \in Ancestors(t, node) : t[p].lock_ref = k}
<1>1. A \subseteq DOMAIN t
  BY DEF Ancestors
<1>2. Toggled(t, node, k) = SizeOf(t, A)
  BY DEF Toggled
<1> HIDE DEF A
<1> QED
  BY <1>1, <1>2, SizeMeans

(* Only the nodes of holders count.                                        *)
LEMMA BooksCong ==
  ASSUME NEW t, NEW H, NEW last, NEW ev, NEW pr, Books(t, H, last, ev, pr),
         NEW last2, \A q \in H : last2[q] = last[q]
  PROVE  Books(t, H, last2, ev, pr)
<1>1. TreeShape(t) /\ LocksExact(t, H, last) /\ SizesAre(t, ev, pr)
  BY DEF Books
<1>2. \A p : {r \in H : IsPrefix(p, last2[r])} = {r \in H : IsPrefix(p, last[r])}
  OBVIOUS
<1>3. \A p \in DOMAIN t : t[p].lock_ref = Cardinality({r \in H : IsPrefix(p, last2[r])})
  BY <1>1, <1>2, Zenon DEF LocksExact
<1>4. IsFiniteSet(H) /\ \A r \in H : last2[r] \in Names /\ (last2[r] = <<>> \/ last2[r] \in DOMAIN t)
  BY <1>1 DEF LocksExact
<1> QED
  BY <1>1, <1>3, <1>4 DEF Books, LocksExact

(* The locks and the counters of the cache are right.                      *)
BooksRight == Books(tree, Holders, last_node, evictable_size, protected_size)

Holding == {"admitted", "chunk", "chunked", "batch"}

(* A request takes or gives up its place among the holders.                *)
LEMMA HoldersMove ==
  ASSUME WellFormed, NEW r \in Reqs, NEW x, phase' = [phase EXCEPT ![r] = x]
  PROVE  /\ x \in Holding => Holders' = Holders \cup {r}
         /\ x \notin Holding => Holders' = Holders \ {r}
         /\ r \in Holders <=> phase[r] \in Holding
<1>1. \A q \in Reqs : phase'[q] = IF q = r THEN x ELSE phase[q]
  BY DEF WellFormed
<1>2. Holders' = {q \in Reqs : phase'[q] \in Holding} /\ Holders = {q \in Reqs : phase[q] \in Holding}
  BY DEF Holders, Holding
<1> HIDE DEF Holding
<1> QED
  BY <1>1, <1>2

(* An insertion adds its new tokens to the evictable ones.                 *)
LEMMA BooksInsert ==
  ASSUME NEW H, NEW last, NEW ev, NEW pr, Books(tree, H, last, ev, pr),
         NEW r, NEW key, NEW value, NEW t, NEW n, Caches(r, key, value, t, n)
  PROVE  Books(t, H, last, ev + (Len(key) - n), pr)
<1>1. PICK t1, u : SplitsNode(tree, t1, u) /\ AddsLeaf(t1, t, key, Len(key) - n)
  BY DEF Caches
<1>2. TreeShape(t)
  BY DEF Caches, Inserts
<1>3. Books(t1, H, last, ev, pr)
  BY <1>1, BooksSplit
<1> QED
  BY <1>1, <1>2, <1>3, BooksLeaf

(* cache_unfinished_req moves the lock of a holder.                        *)
LEMMA UnfinishedBooks ==
  ASSUME WellFormed, BooksRight, NEW r \in Reqs, CacheUnfinished(r), r \in Holders,
         0 < fill_len[r], fill_len[r] <= Len(ids[r]), fill_len[r] <= Len(row[r])
  PROVE  Books(tree', Holders, last_node', evictable_size', protected_size')
<1>1. PICK key, value : CutTo(key, ids[r], fill_len[r]) /\ CutTo(value, row[r], fill_len[r])
  BY DEF CutTo
<1>2. PICK ins : ins = Insert(tree, key, value)
  OBVIOUS
<1> DEFINE t == ins.tree
           n == ins.prefix_len
           d == DecLock(t, last_node[r])
           down == Toggled(t, last_node[r], 1)
           up == Toggled(d, key, 0)
<1>3. Hands(r, fill_len[r], key, value)
  BY <1>1, <1>2, CacheUnfinishedMeans
<1>4. Caches(r, key, value, t, n)
  BY <1>1, <1>2, CacheUnfinishedMeans
<1>5. Moves(r, key, t, n)
  BY <1>1, <1>2, CacheUnfinishedMeans
<1>6. last_node' = [last_node EXCEPT ![r] = key]
  BY <1>5 DEF Moves
<1>7. /\ tree' = IncLock(d, key)
      /\ evictable_size' = evictable_size + (Len(key) - n) + down - up
      /\ protected_size' = protected_size - down + up
  BY <1>5 DEF Moves
<1>9. key \in Names /\ key \in DOMAIN t
  BY <1>3, <1>4 DEF Hands, Caches, Inserts
<1>10. TreeShape(t)
  BY <1>4 DEF Caches, Inserts
<1> HIDE DEF t, n
<1>11. Books(t, Holders, last_node, evictable_size + (Len(key) - n), protected_size)
  BY <1>4, BooksInsert DEF BooksRight
<1>12. Books(d, Holders \ {r}, last_node, evictable_size + (Len(key) - n) + down, protected_size - down)
  BY <1>11, BooksDec
<1>13. key \in DOMAIN d
  BY <1>9, <1>10, LockingKeeps DEF SameEdges
<1>14. last_node'[r] = key /\ \A q \in Holders \ {r} : last_node'[q] = last_node[q]
  BY <1>6 DEF WellFormed, Holders
<1> HIDE DEF d, down
<1>15. Books(IncLock(d, key), (Holders \ {r}) \cup {r}, last_node',
             (evictable_size + (Len(key) - n) + down) - up, (protected_size - down) + up)
  <2>1. r \notin Holders \ {r}
    OBVIOUS
  <2> DEFINE H == Holders \ {r}
             ev == evictable_size + (Len(key) - n) + down
             pr == protected_size - down
  <2>2. /\ Books(d, H, last_node, ev, pr) /\ key \in Names /\ key \in DOMAIN d
        /\ r \notin H /\ last_node'[r] = key /\ \A q \in H : last_node'[q] = last_node[q]
    BY <1>9, <1>12, <1>13, <1>14, <2>1
  <2> HIDE DEF H, ev, pr
  <2>3. Books(IncLock(d, key), H \cup {r}, last_node', ev - Toggled(d, key, 0), pr + Toggled(d, key, 0))
    BY <2>2, BooksInc
  <2> QED
    BY <2>3 DEF H, ev, pr
<1>16. (Holders \ {r}) \cup {r} = Holders
  OBVIOUS
<1> HIDE DEF up
<1>17. Books(tree', (Holders \ {r}) \cup {r}, last_node', evictable_size', protected_size')
  <2> DEFINE ev == evictable_size + (Len(key) - n) + down - up
             pr == protected_size - down + up
             H == (Holders \ {r}) \cup {r}
  <2>1. Books(IncLock(d, key), H, last_node', ev, pr)
    <3> DEFINE a == evictable_size + (Len(key) - n)
               b == a + down
    <3>1. a \in Nat /\ b \in Nat
      BY <1>11, <1>12, BooksType
    <3>2. down \in Nat /\ TreeShape(d)
      BY <1>10, <1>12, ToggledType DEF down, Books
    <3>3. up \in Nat
      BY <3>2, ToggledType DEF up
    <3>4. ev = a + (down - up)
      OBVIOUS
    <3>5. Books(IncLock(d, key), H, last_node', b - up, pr)
      BY <1>15
    <3> HIDE DEF a, ev
    <3>6. ev = b - up
      BY <3>1, <3>2, <3>3, <3>4
    <3> HIDE DEF b, pr, H
    <3> QED
      BY <3>5, <3>6, Zenon
  <2>2. tree' = IncLock(d, key) /\ evictable_size' = ev /\ protected_size' = pr
    BY <1>7
  <2> HIDE DEF ev, pr, H
  <2>3. Books(tree', H, last_node', evictable_size', protected_size')
    BY <2>1, <2>2, Zenon
  <2> QED
    BY <2>3 DEF H
<1> QED
  BY <1>16, <1>17, Zenon

(* cache_finished_req gives it up.                                         *)
LEMMA FinishedBooks ==
  ASSUME WellFormed, BooksRight, NEW r \in Reqs, CacheFinished(r), r \in Holders,
         0 < Len(ids[r]), Len(ids[r]) <= Len(row[r])
  PROVE  Books(tree', Holders \ {r}, last_node', evictable_size', protected_size')
<1>1. PICK value : CutTo(value, row[r], Len(ids[r]))
  BY DEF CutTo
<1>2. PICK key : key = ids[r]
  OBVIOUS
<1>3. PICK ins : ins = Insert(tree, key, value)
  OBVIOUS
<1> DEFINE t == ins.tree
           n == ins.prefix_len
           down == Toggled(t, last_node[r], 1)
<1>4. Caches(r, key, value, t, n)
  BY <1>1, <1>2, <1>3, CacheFinishedMeans
<1>5. tree' = DecLock(t, last_node[r])
  BY <1>1, <1>2, <1>3, CacheFinishedMeans
<1>6. evictable_size' = evictable_size + (Len(key) - n) + down
  BY <1>1, <1>2, <1>3, CacheFinishedMeans
<1>7. protected_size' = protected_size - down
  BY <1>1, <1>2, <1>3, CacheFinishedMeans
<1>8. last_node' = [last_node EXCEPT ![r] = <<>>]
  BY DEF CacheFinished, ReleaseRow
<1> HIDE DEF t, n
<1>9. Books(t, Holders, last_node, evictable_size + (Len(key) - n), protected_size)
  BY <1>4, BooksInsert DEF BooksRight
<1>10. Books(DecLock(t, last_node[r]), Holders \ {r}, last_node,
             evictable_size + (Len(key) - n) + down, protected_size - down)
  BY <1>9, BooksDec
<1>11. Books(tree', Holders \ {r}, last_node, evictable_size', protected_size')
  BY <1>5, <1>6, <1>7, <1>10, Zenon
<1>12. \A q \in Holders \ {r} : last_node'[q] = last_node[q]
  BY <1>8 DEF WellFormed, Holders
<1> QED
  BY <1>11, <1>12, BooksCong
-----------------------------------------------------------------------------
(* Every step keeps the books.                                             *)

(* No lock at the start.                                                   *)
LEMMA BooksEmpty ==
  ASSUME NEW t, t = EmptyTree, NEW H, H = {}, NEW last
  PROVE  Books(t, H, last, 0, 0)
<1>1. DOMAIN t = {}
  BY DEF EmptyTree
<1>2. TreeShape(t)
  BY <1>1, FS_EmptySet DEF TreeShape, NodesBranch
<1>3. LocksExact(t, H, last)
  BY <1>1, FS_EmptySet DEF LocksExact
<1>4. Unlocked(t) = {} /\ DOMAIN t \ Unlocked(t) = {}
  BY <1>1 DEF Unlocked
<1>5. SizeOf(t, {}) = 0
  BY SumEmpty DEF SizeOf
<1>6. SizesAre(t, 0, 0)
  BY <1>4, <1>5, Zenon DEF SizesAre
<1> QED
  BY <1>2, <1>3, <1>6 DEF Books

(* The books at the start.                                                 *)
LEMMA BooksInit == Init => BooksRight
<1> SUFFICES ASSUME Init PROVE BooksRight
  OBVIOUS
<1>1. tree = EmptyTree /\ evictable_size = 0 /\ protected_size = 0
  BY DEF Init
<1>2. Holders = {}
  <2>1. \A r \in Reqs : phase[r] = "idle"
    BY DEF Init
  <2> QED
    BY <2>1 DEF Holders
<1>3. Books(tree, Holders, last_node, 0, 0)
  BY <1>1, <1>2, BooksEmpty
<1> QED
  BY <1>1, <1>3, Zenon DEF BooksRight

(* The steps that leave the cache and the holders alone.                   *)
LEMMA BooksStay ==
  ASSUME BooksRight, UNCHANGED <<tree, evictable_size, protected_size, last_node>>, Holders' = Holders
  PROVE  BooksRight'
BY Zenon DEF BooksRight

(* A request is admitted: the node it matched gets its lock.               *)
LEMMA AdmitBooks ==
  ASSUME WellFormed, BooksRight, NEW r \in Reqs, NEW n \in 1..ChunkSize, Admit(r, n)
  PROVE  BooksRight'
<1>1. PICK m : m = MatchPrefix(tree, MaxPrefixIds(r))
  OBVIOUS
<1>2. /\ phase[r] = "waiting" /\ phase' = [phase EXCEPT ![r] = "admitted"]
      /\ evictable_size' = evictable_size - Toggled(m.tree, m.node, 0)
      /\ protected_size' = protected_size + Toggled(m.tree, m.node, 0)
      /\ last_node' = [last_node EXCEPT ![r] = m.node]
  BY <1>1, Zenon DEF Admit
<1>3. /\ Matches(tree, MaxPrefixIds(r), m) /\ tree' = IncLock(m.tree, m.node)
      /\ m.node \in Names /\ (m.node = <<>> \/ m.node \in DOMAIN m.tree)
  BY <1>1, AdmitMeans
<1>4. r \notin Holders /\ Holders' = Holders \cup {r}
  BY <1>2, HoldersMove DEF Holding
<1>5. last_node'[r] = m.node /\ \A q \in Holders : last_node'[q] = last_node[q]
  BY <1>2, <1>4 DEF WellFormed, Holders
<1>6. Books(m.tree, Holders, last_node, evictable_size, protected_size)
  BY <1>3, BooksSplit DEF Matches, BooksRight
<1>7. Books(IncLock(m.tree, m.node), Holders \cup {r}, last_node',
            evictable_size - Toggled(m.tree, m.node, 0), protected_size + Toggled(m.tree, m.node, 0))
  BY <1>3, <1>4, <1>5, <1>6, BooksInc
<1> QED
  BY <1>2, <1>3, <1>4, <1>7, Zenon DEF BooksRight

(* An allocation evicts unlocked nodes.                                    *)
LEMMA AllocBooks ==
  ASSUME WellFormed, BooksRight, NEW n, NEW E, NEW new, Allocates(n, E, new), AllocTokens(n, E),
         UNCHANGED last_node, Holders' = Holders
  PROVE  BooksRight'
<1>1. Deletes(tree, tree', E) /\ E \subseteq DOMAIN tree /\ \A p \in E : tree[p].lock_ref = 0
  BY DEF Allocates
<1>2. evictable_size' = evictable_size - SizeOf(tree, E) /\ protected_size' = protected_size
  BY DEF AllocTokens
<1>3. Books(tree', Holders, last_node, evictable_size - SizeOf(tree, E), protected_size)
  BY <1>1, BooksDelete DEF BooksRight
<1> QED
  BY <1>2, <1>3, Zenon DEF BooksRight

(* A retraction gives up the lock and evicts.                              *)
LEMMA RetractBooks ==
  ASSUME WellFormed, BooksRight, NEW r \in Reqs, NEW n, Retract(r, n)
  PROVE  BooksRight'
<1>1. PICK t, E : Retracts(r, t, E)
  BY RetractMeans
<1>2. /\ phase[r] = "batch" /\ phase' = [phase EXCEPT ![r] = "waiting"]
      /\ protected_size' = protected_size - Toggled(tree, last_node[r], 1)
      /\ last_node' = [last_node EXCEPT ![r] = <<>>]
  BY DEF Retract, ReleaseRow
<1>3. r \in Holders /\ Holders' = Holders \ {r}
  <2>1. "waiting" \notin Holding /\ phase[r] \in Holding
    BY <1>2 DEF Holding
  <2> QED
    BY <1>2, <2>1, HoldersMove
<1>4. \A q \in Holders \ {r} : last_node'[q] = last_node[q]
  BY <1>2 DEF WellFormed, Holders
<1> DEFINE down == Toggled(tree, last_node[r], 1)
           a == evictable_size
           b == SizeOf(tree, E)
           pr == protected_size - down
<1>5. Books(DecLock(tree, last_node[r]), Holders \ {r}, last_node, a + down, pr)
  BY <1>3, BooksDec DEF BooksRight
<1>6. /\ t = DecLock(tree, last_node[r]) /\ SameEdges(tree, t) /\ TreeShape(t)
      /\ E \subseteq DOMAIN tree /\ (\A p \in E : t[p].lock_ref = 0) /\ Deletes(t, tree', E)
      /\ evictable_size' = evictable_size + down - b
  BY <1>1 DEF Retracts
<1>7. Books(t, Holders \ {r}, last_node, a + down, pr)
  BY <1>5, <1>6, Zenon
<1>8. E \subseteq DOMAIN t /\ \A p \in E : t[p].value = tree[p].value
  BY <1>6 DEF SameEdges
<1>9. TreeShape(tree)
  BY DEF WellFormed
<1>10. SizeOf(t, E) = b /\ b \in Nat
  BY <1>6, <1>8, <1>9, SizeSame, SizeMeans
<1> HIDE DEF b
<1>11. Books(tree', Holders \ {r}, last_node, (a + down) - SizeOf(t, E), pr)
  BY <1>6, <1>7, <1>8, BooksDelete
<1>12. (a + down) - SizeOf(t, E) = evictable_size'
  <2>1. a \in Nat /\ down \in Nat
    BY <1>9, BooksType, ToggledType DEF BooksRight
  <2>2. evictable_size' = a + (down - b)
    BY <1>6
  <2> HIDE DEF a, down
  <2> QED
    BY <1>10, <2>1, <2>2
<1>13. Books(tree', Holders \ {r}, last_node', evictable_size', protected_size')
  <2>1. pr = protected_size'
    BY <1>2
  <2> HIDE DEF pr, a, down
  <2>2. Books(tree', Holders \ {r}, last_node, evictable_size', protected_size')
    BY <1>11, <1>12, <2>1, Zenon
  <2> QED
    BY <1>4, <2>2, BooksCong
<1> QED
  BY <1>3, <1>13, Zenon DEF BooksRight

(* The steps that hand KV to the cache.                                    *)
LEMMA HandoverBooks ==
  ASSUME WellFormed, BooksRight, NEW r \in Reqs,
         \/ StashChunk(r)
         \/ \E t \in Tokens : ProcessPrefill(r, t)
         \/ ProcessLast(r)
  PROVE  BooksRight'
<1>1. CASE StashChunk(r)
  <2>1. phase[r] = "chunk" /\ phase' = [phase EXCEPT ![r] = "chunked"] /\ CacheUnfinished(r)
    BY <1>1 DEF StashChunk
  <2>2. 0 < fill_len[r] /\ fill_len[r] <= Len(ids[r]) /\ fill_len[r] <= Len(row[r])
    <3>1. RequestOK(phase[r], ids[r], fill_len[r], prefix_indices[r], last_node[r], row[r], results[r])
      BY FieldsMean
    <3>2. 0 < fill_len[r] /\ fill_len[r] <= Len(ids[r]) /\ Len(row[r]) = fill_len[r]
      BY <2>1, <3>1 DEF RequestOK
    <3> QED
      BY <3>2, FieldsMean
  <2>3. r \in Holders /\ Holders' = Holders
    BY <2>1, HoldersMove DEF Holding
  <2>4. Books(tree', Holders, last_node', evictable_size', protected_size')
    BY <2>1, <2>2, <2>3, UnfinishedBooks
  <2> QED
    BY <2>3, <2>4, Zenon DEF BooksRight
<1>2. ASSUME NEW t \in Tokens, ProcessPrefill(r, t) PROVE BooksRight'
  <2>1. phase[r] = "batch" /\ phase' = phase /\ CacheUnfinished(r) /\ results[r] # <<>>
    BY <1>2 DEF ProcessPrefill
  <2>2. 0 < fill_len[r] /\ fill_len[r] <= Len(ids[r]) /\ fill_len[r] <= Len(row[r])
    BY <2>1, BatchFields
  <2>3. r \in Holders /\ Holders' = Holders
    BY <2>1 DEF Holders
  <2>4. Books(tree', Holders, last_node', evictable_size', protected_size')
    BY <2>1, <2>2, <2>3, UnfinishedBooks
  <2> QED
    BY <2>3, <2>4, Zenon DEF BooksRight
<1>3. CASE ProcessLast(r)
  <2>1. /\ phase[r] = "batch" /\ CacheFinished(r) /\ results[r] # <<>>
        /\ phase' = [phase EXCEPT ![r] = IF Len(results[r]) > 1 THEN "finished" ELSE "done"]
    BY <1>3 DEF ProcessLast
  <2>2. 0 < Len(ids[r]) /\ Len(ids[r]) <= Len(row[r])
    <3>1. 0 < fill_len[r] /\ fill_len[r] <= Len(ids[r]) /\ Len(ids[r]) <= Len(row[r])
      BY <2>1, BatchFields
    <3> QED
      BY <3>1, FieldsMean
  <2>3. r \in Holders /\ Holders' = Holders \ {r}
    <3>1. PICK x : x \in {"finished", "done"} /\ phase' = [phase EXCEPT ![r] = x]
      BY <2>1
    <3>2. x \notin Holding /\ phase[r] \in Holding
      BY <2>1, <3>1 DEF Holding
    <3> QED
      BY <3>1, <3>2, HoldersMove
  <2>4. Books(tree', Holders \ {r}, last_node', evictable_size', protected_size')
    BY <2>1, <2>2, <2>3, FinishedBooks
  <2> QED
    BY <2>3, <2>4, Zenon DEF BooksRight
<1> QED
  BY <1>1, <1>2, <1>3

(* Every step.                                                             *)
LEMMA BooksNext ==
  ASSUME WellFormed, BooksRight, [Next]_vars
  PROVE  BooksRight'
<1>1. ASSUME NEW r \in Reqs, NEW prompt \in Prompts, Receive(r, prompt) PROVE BooksRight'
  <2>1. /\ phase[r] = "idle" /\ phase' = [phase EXCEPT ![r] = "waiting"]
        /\ UNCHANGED <<tree, evictable_size, protected_size, last_node>>
    BY <1>1 DEF Receive, cacheVars
  <2>2. Holders' = Holders
    <3>1. "waiting" \notin Holding /\ phase[r] \notin Holding
      BY <2>1 DEF Holding
    <3> QED
      BY <2>1, <3>1, HoldersMove
  <2> QED
    BY <2>1, <2>2, BooksStay
<1>2. ASSUME NEW r \in Reqs, Peek(r) PROVE BooksRight'
  <2>1. PICK u : SplitsNode(tree, tree', u)
    BY <1>2, PeekMeans
  <2>2. UNCHANGED <<evictable_size, protected_size, last_node>> /\ Holders' = Holders
    BY <1>2 DEF Peek, Holders
  <2>3. Books(tree', Holders, last_node, evictable_size, protected_size)
    BY <2>1, BooksSplit DEF BooksRight
  <2> QED
    BY <2>2, <2>3, Zenon DEF BooksRight
<1>3. ASSUME NEW r \in Reqs, NEW n \in 1..ChunkSize, Admit(r, n) PROVE BooksRight'
  BY <1>3, AdmitBooks
<1>4. ASSUME NEW r \in Reqs, NEW n \in 1..ChunkSize, AddChunked(r, n) PROVE BooksRight'
  <2>1. /\ phase[r] = "chunked" /\ phase' = [phase EXCEPT ![r] = "admitted"]
        /\ UNCHANGED <<tree, evictable_size, protected_size, last_node>>
    BY <1>4 DEF AddChunked, cacheVars
  <2>2. Holders' = Holders
    BY <2>1, HoldersMove DEF Holding
  <2> QED
    BY <2>1, <2>2, BooksStay
<1>5. ASSUME NEW r \in Reqs, PrepareForExtend(r) PROVE BooksRight'
  <2>1. PICK n, E, new : Allocates(n, E, new) /\ AllocTokens(n, E)
    BY <1>5, ExtendMeans
  <2>2. /\ phase[r] = "admitted" /\ UNCHANGED last_node
        /\ phase' = [phase EXCEPT ![r] = IF fill_len[r] = Len(ids[r]) THEN "batch" ELSE "chunk"]
    BY <1>5 DEF PrepareForExtend
  <2>3. Holders' = Holders
    <3>1. PICK x : x \in {"chunk", "batch"} /\ phase' = [phase EXCEPT ![r] = x]
      BY <2>2
    <3>2. x \in Holding /\ phase[r] \in Holding
      BY <2>2, <3>1 DEF Holding
    <3> QED
      BY <3>1, <3>2, HoldersMove
  <2> QED
    BY <2>1, <2>2, <2>3, AllocBooks
<1>6. ASSUME NEW r \in Reqs, PrepareForDecode(r) PROVE BooksRight'
  <2>1. PICK E, new : Allocates(1, E, new) /\ AllocTokens(1, E)
    BY <1>6, DecodeMeans
  <2>2. UNCHANGED last_node /\ Holders' = Holders
    BY <1>6 DEF PrepareForDecode, Holders
  <2> QED
    BY <2>1, <2>2, AllocBooks
<1>7. ASSUME NEW r \in Reqs, StashChunk(r) PROVE BooksRight'
  BY <1>7, HandoverBooks
<1>8. ASSUME NEW r \in Reqs, ProcessLast(r) PROVE BooksRight'
  BY <1>8, HandoverBooks
<1>9. ASSUME NEW r \in Reqs, NEW t \in Tokens, ProcessPrefill(r, t) PROVE BooksRight'
  BY <1>9, HandoverBooks
<1>10. ASSUME NEW r \in Reqs, NEW t \in Tokens, ProcessDecode(r, t) PROVE BooksRight'
  <2>1. UNCHANGED <<tree, evictable_size, protected_size, last_node>> /\ Holders' = Holders
    BY <1>10 DEF ProcessDecode, cacheVars, Holders
  <2> QED
    BY <2>1, BooksStay
<1>11. ASSUME NEW r \in Reqs, FreeDelayed(r) PROVE BooksRight'
  <2>1. /\ phase[r] = "finished" /\ phase' = [phase EXCEPT ![r] = "done"]
        /\ UNCHANGED <<tree, evictable_size, protected_size, last_node>>
    BY <1>11 DEF FreeDelayed, cacheVars
  <2>2. Holders' = Holders
    <3>1. "done" \notin Holding /\ phase[r] \notin Holding
      BY <2>1 DEF Holding
    <3> QED
      BY <2>1, <3>1, HoldersMove
  <2> QED
    BY <2>1, <2>2, BooksStay
<1>12. ASSUME NEW r \in Reqs, NEW n \in 0..NumSlots, Retract(r, n) PROVE BooksRight'
  BY <1>12, RetractBooks
<1>13. CASE CheckDecodeMem
  <2>1. PICK E : /\ E \subseteq DOMAIN tree /\ \A p \in E : tree[p].lock_ref = 0
                 /\ Deletes(tree, tree', E) /\ evictable_size' = evictable_size - SizeOf(tree, E)
    BY <1>13, CheckMemMeans
  <2>2. UNCHANGED <<protected_size, last_node>> /\ Holders' = Holders
    BY <1>13 DEF CheckDecodeMem, Holders
  <2>3. Books(tree', Holders, last_node, evictable_size - SizeOf(tree, E), protected_size)
    BY <2>1, BooksDelete DEF BooksRight
  <2> QED
    BY <2>1, <2>2, <2>3, Zenon DEF BooksRight
<1>14. CASE FlushCache
  <2>1. /\ tree' = EmptyTree /\ evictable_size' = 0 /\ protected_size' = 0 /\ UNCHANGED last_node
        /\ \A r \in Reqs : phase'[r] \in {"idle", "done"}
    BY <1>14 DEF FlushCache
  <2>2. Holders' = {}
    BY <2>1 DEF Holders
  <2>3. Books(tree', Holders', last_node', 0, 0)
    BY <2>1, <2>2, BooksEmpty
  <2> QED
    BY <2>1, <2>3, Zenon DEF BooksRight
<1>15. CASE UNCHANGED vars
  <2>1. UNCHANGED <<tree, evictable_size, protected_size, last_node>> /\ Holders' = Holders
    BY <1>15 DEF vars, Holders
  <2> QED
    BY <2>1, BooksStay
<1> QED
  BY <1>1, <1>2, <1>3, <1>4, <1>5, <1>6, <1>7, <1>8, <1>9, <1>10, <1>11, <1>12, <1>13, <1>14, <1>15 DEF Next

(* The invariant is inductive.                                             *)
THEOREM BooksKept == Spec => [](WellFormed /\ BooksRight)
<1>1. Init => WellFormed /\ BooksRight
  BY WellFormedInit, BooksInit
<1>2. WellFormed /\ BooksRight /\ [Next]_vars => WellFormed' /\ BooksRight'
  BY WellFormedNext, BooksNext
<1> QED
  BY <1>1, <1>2, PTL DEF Spec

(* The variables have their types.                                         *)
LEMMA BooksTypes ==
  ASSUME WellFormed, BooksRight
  PROVE  TypeOK
<1>1. evictable_size \in Nat /\ protected_size \in Nat /\ \A p \in DOMAIN tree : tree[p].lock_ref \in Nat
  BY BooksType DEF BooksRight
<1>2. TreeShape(tree) /\ DOMAIN tree \subseteq Names \ {<<>>}
  BY DEF WellFormed, TreeShape, NodesBranch
<1>3. \A p \in DOMAIN tree : tree[p] \in [value : Seq(Slots), lock_ref : Nat]
  BY <1>1, <1>2 DEF TreeShape
<1>4. ASSUME NEW r \in Reqs PROVE Len(results[r]) <= 2
  <2>1. RequestOK(phase[r], ids[r], fill_len[r], prefix_indices[r], last_node[r], row[r], results[r])
    BY <1>4, FieldsMean
  <2> QED
    BY <2>1 DEF RequestOK
<1> QED
  BY <1>1, <1>2, <1>3, <1>4 DEF TypeOK, WellFormed, Names, Results

(* The variables keep their types: in particular no lock count and neither *)
(* of the two sizes ever goes below zero, and at most two results of a     *)
(* request are pending.                                                    *)
THEOREM TypeCorrect == Spec => []TypeOK
<1>1. WellFormed /\ BooksRight => TypeOK
  BY BooksTypes
<1> QED
  BY <1>1, BooksKept, PTL

(* The lock count of a node is the number of requests that hold a node     *)
(* below it, whatever splits, insertions, evictions and retractions did.   *)
THEOREM NoLockLeaked == Spec => []LockRefExact
<1>1. WellFormed /\ BooksRight => LockRefExact
  BY DEF BooksRight, Books, LocksExact, LockRefExact
<1> QED
  BY <1>1, BooksKept, PTL

(* evictable_size and protected_size are the sizes of the unlocked and the *)
(* locked part of the tree.                                                *)
THEOREM CountersExact == Spec => []SizesExact
<1>1. WellFormed /\ BooksRight => SizesExact
  BY DEF BooksRight, Books, SizesAre, SizesExact, Unlocked
<1> QED
  BY <1>1, BooksKept, PTL

-----------------------------------------------------------------------------
(* What a request reads of the cache.                                      *)

(* pre holds the slots on the path to node.                                *)
ReadsPath(t, node, pre) ==
  /\ node \in Names /\ (node = <<>> \/ node \in DOMAIN t)
  /\ pre \in Seq(Slots) /\ Len(pre) = Len(node)
  /\ \A q : IsPosition(t, q) /\ IsPrefix(q, node) => SlotOf(t, q) = pre[Len(q)]

(* A row in use starts with what is read.                                  *)
RowReads(ph, pre, rw) ==
  ph \in {"chunk", "batch"} => Len(pre) <= Len(rw) /\ \A i \in 1..Len(pre) : rw[i] = pre[i]

RequestReads(t, ph, i, pre, node, rw) ==
  ReadsPath(t, node, pre) /\ IsPrefix(node, i) /\ RowReads(ph, pre, rw)

ReadsRight ==
  \A r \in Reqs : RequestReads(tree, phase[r], ids[r], prefix_indices[r], last_node[r], row[r])

(* The path to p is the same in both trees.                                *)
KeepsPath(t, t2, p) ==
  /\ p \in DOMAIN t => p \in DOMAIN t2
  /\ \A q : IsPosition(t, q) /\ IsPrefix(q, p) => IsPosition(t2, q) /\ SlotOf(t2, q) = SlotOf(t, q)

(* A nonempty prefix of a node is a position.                              *)
LEMMA NodePositions ==
  ASSUME NEW t, TreeShape(t), NEW p \in DOMAIN t
  PROVE  /\ p \in Names /\ p # <<>> /\ IsPosition(t, p)
         /\ \A q \in Names : q # <<>> /\ IsPrefix(q, p) => IsPosition(t, q)
<1>1. p \in Names /\ p # <<>>
  BY DEF TreeShape, NodesBranch
<1>2. IsPrefix(p, p)
  BY <1>1, PrefixOrder
<1> QED
  BY <1>1, <1>2 DEF IsPosition

(* What PathSlots returns is the path.                                     *)
LEMMA PathReads ==
  ASSUME NEW t, TreeShape(t), NEW node \in Names, node = <<>> \/ node \in DOMAIN t
  PROVE  /\ ReadsPath(t, node, PathSlots(t, node))
         /\ \A pre : ReadsPath(t, node, pre) => pre = PathSlots(t, node)
<1>1. node = <<>> \/ IsPosition(t, node)
  BY NodePositions
<1>2. /\ PathSlots(t, node) \in Seq(Slots) /\ Len(PathSlots(t, node)) = Len(node)
      /\ \A i \in 1..Len(node) : /\ PathSlots(t, node)[i] = SlotOf(t, SubSeq(node, 1, i))
                                 /\ IsPosition(t, SubSeq(node, 1, i))
  BY <1>1, PathMeans
<1>3. Len(node) \in Nat
  BY PrefixOrder
<1>4. ASSUME NEW q, IsPosition(t, q), IsPrefix(q, node) PROVE SlotOf(t, q) = PathSlots(t, node)[Len(q)]
  <2>1. q \in Names /\ q # <<>>
    BY <1>4 DEF IsPosition
  <2>2. Len(q) \in 1..Len(node) /\ Len(q) \in 0..Len(node)
    BY <1>3, <1>4, <2>1, PrefixOrder
  <2>3. q = SubSeq(node, 1, Len(q))
    BY <1>4, <2>1, <2>2, Cuts
  <2> QED
    BY <1>2, <2>2, <2>3
<1>5. ASSUME NEW pre, ReadsPath(t, node, pre) PROVE pre = PathSlots(t, node)
  <2>1. pre \in Seq(Slots) /\ Len(pre) = Len(node)
    BY <1>5 DEF ReadsPath
  <2>2. ASSUME NEW i \in 1..Len(node) PROVE pre[i] = PathSlots(t, node)[i]
    <3>1. i \in 0..Len(node)
      BY <1>3
    <3>2. Len(SubSeq(node, 1, i)) = i /\ IsPrefix(SubSeq(node, 1, i), node)
      BY <3>1, Cuts
    <3> QED
      BY <1>2, <1>5, <2>2, <3>2 DEF ReadsPath
  <2> QED
    BY <1>2, <2>1, <2>2, SeqEqual
<1> QED
  BY <1>2, <1>4, <1>5 DEF ReadsPath

(* A request goes on reading a path that is kept.                          *)
LEMMA ReadsKept ==
  ASSUME NEW t, NEW t2, TreeShape(t), NEW node, NEW pre, ReadsPath(t, node, pre), KeepsPath(t, t2, node)
  PROVE  ReadsPath(t2, node, pre)
<1>1. node \in Names /\ (node = <<>> \/ node \in DOMAIN t) /\ pre \in Seq(Slots) /\ Len(pre) = Len(node)
  BY DEF ReadsPath
<1>2. ASSUME NEW q, IsPosition(t2, q), IsPrefix(q, node) PROVE SlotOf(t2, q) = pre[Len(q)]
  <2>1. q \in Names /\ q # <<>>
    BY <1>2 DEF IsPosition
  <2>2. node # <<>>
    <3>1. SUFFICES ASSUME node = <<>> PROVE FALSE
      OBVIOUS
    <3>2. Len(q) = 0
      BY <1>2, <2>1, <3>1, PrefixOrder
    <3> QED
      BY <2>1, <3>2, PrefixOrder
  <2>3. IsPosition(t, q)
    BY <1>1, <1>2, <2>1, <2>2, NodePositions
  <2> QED
    BY <1>2, <2>3 DEF KeepsPath, ReadsPath
<1> QED
  BY <1>1, <1>2 DEF ReadsPath, KeepsPath

(* A path kept twice.                                                      *)
LEMMA KeptTwice ==
  ASSUME NEW t, NEW t1, NEW t2, NEW p, KeepsPath(t, t1, p), KeepsPath(t1, t2, p)
  PROVE  KeepsPath(t, t2, p)
BY DEF KeepsPath

(* Splits, locks and insertions keep every path.                           *)
LEMMA AllKept ==
  ASSUME NEW t, NEW t2, NEW p
  PROVE  /\ (\E u : SplitsNode(t, t2, u)) => KeepsPath(t, t2, p)
         /\ SameEdges(t, t2) /\ SameSlots(t, t2) => KeepsPath(t, t2, p)
         /\ t2 = t => KeepsPath(t, t2, p)
<1>1. ASSUME NEW u, SplitsNode(t, t2, u) PROVE KeepsPath(t, t2, p)
  BY <1>1 DEF SplitsNode, SameSlots, KeepsPath
<1>2. ASSUME SameEdges(t, t2), SameSlots(t, t2) PROVE KeepsPath(t, t2, p)
  BY <1>2 DEF SameEdges, SameSlots, KeepsPath
<1>3. t2 = t => KeepsPath(t, t2, p)
  BY DEF KeepsPath
<1> QED
  BY <1>1, <1>2, <1>3

(* So does what cache_unfinished_req and cache_finished_req do.            *)
LEMMA CachesKeeps ==
  ASSUME NEW r, NEW key, NEW value, NEW t, NEW n, Caches(r, key, value, t, n), NEW p
  PROVE  KeepsPath(tree, t, p) /\ KeepsPath(tree, tree', p)
<1>1. Inserts(tree, t, key, value, n) /\ SameEdges(t, tree') /\ SameSlots(t, tree')
  BY DEF Caches
<1>2. DOMAIN tree \subseteq DOMAIN t
  <2>1. PICK t1, u : SplitsNode(tree, t1, u) /\ AddsLeaf(t1, t, key, Len(key) - n)
    BY DEF Caches
  <2> QED
    BY <2>1 DEF SplitsNode, AddsLeaf
<1>3. KeepsPath(tree, t, p)
  BY <1>1, <1>2 DEF Inserts, KeepsPath
<1> QED
  BY <1>1, <1>3, AllKept, KeptTwice

(* A deletion keeps the paths to the nodes that stay.                      *)
LEMMA DeleteKeeps ==
  ASSUME NEW t, TreeShape(t), NEW t2, NEW E, Deletes(t, t2, E), NEW p, p = <<>> \/ p \in DOMAIN t \ E
  PROVE  KeepsPath(t, t2, p)
<1>1. TreeShape(t2) /\ DOMAIN t2 = DOMAIN t \ E
  BY DEF Deletes
<1>2. ASSUME NEW q, IsPosition(t, q), IsPrefix(q, p) PROVE IsPosition(t2, q)
  <2>1. q \in Names /\ q # <<>>
    BY <1>2 DEF IsPosition
  <2>2. p # <<>>
    <3>1. SUFFICES ASSUME p = <<>> PROVE FALSE
      OBVIOUS
    <3>2. Len(q) = 0
      BY <1>2, <2>1, <3>1, PrefixOrder
    <3> QED
      BY <2>1, <3>2, PrefixOrder
  <2> QED
    BY <1>1, <1>2, <2>1, <2>2, NodePositions
<1>3. p \in DOMAIN t => p \in DOMAIN t2
  BY <1>1 DEF TreeShape, NodesBranch
<1> QED
  BY <1>2, <1>3 DEF Deletes, KeepsPath

(* A holder's node is not evicted.                                         *)
LEMMA EvictionKeeps ==
  ASSUME NEW t, NEW H, NEW last, LocksExact(t, H, last), TreeShape(t),
         NEW t2, NEW E, Deletes(t, t2, E), \A p \in E : t[p].lock_ref = 0,
         NEW p, p = <<>> \/ \E r \in H : p = last[r]
  PROVE  KeepsPath(t, t2, p)
<1>1. CASE p = <<>>
  BY <1>1, DeleteKeeps
<1>2. CASE p # <<>>
  <2>1. PICK r \in H : p = last[r]
    BY <1>2
  <2>2. p \in Names /\ p \in DOMAIN t
    BY <1>2, <2>1 DEF LocksExact
  <2>3. IsPrefix(p, last[r])
    BY <2>1, <2>2, PrefixOrder
  <2>4. t[p].lock_ref >= 1
    BY <2>2, <2>3, LockCounts
  <2>5. p \notin E
    BY <2>4
  <2> QED
    BY <2>2, <2>5, DeleteKeeps
<1> QED
  BY <1>1, <1>2

(* A request that reads nothing.                                           *)
LEMMA ReadsNothing ==
  ASSUME NEW t, NEW ph, ph \notin {"chunk", "batch"}, NEW i \in Names, NEW rw
  PROVE  RequestReads(t, ph, i, <<>>, <<>>, rw)
<1>1. <<>> \in Names /\ <<>> \in Seq(Slots) /\ Len(<<>>) = 0 /\ IsPrefix(<<>>, i)
  BY PrefixOrder, EmptySeq
<1>2. ASSUME NEW q, IsPosition(t, q), IsPrefix(q, <<>>) PROVE FALSE
  <2>1. q \in Names /\ q # <<>>
    BY <1>2 DEF IsPosition
  <2>2. Len(q) <= 0 /\ Len(q) \in Nat
    BY <1>1, <1>2, <2>1, PrefixOrder
  <2> QED
    BY <2>1, <2>2, PrefixOrder
<1> QED
  BY <1>1, <1>2 DEF RequestReads, ReadsPath, RowReads

(* The step of r leaves the fields of the others alone.                    *)
OthersSame(r) ==
  \A q \in Reqs \ {r} :
    /\ phase'[q] = phase[q] /\ ids'[q] = ids[q] /\ results'[q] = results[q]
    /\ prefix_indices'[q] = prefix_indices[q] /\ last_node'[q] = last_node[q] /\ row'[q] = row[q]

(* It keeps their paths.                                                   *)
KeepsOthers(r) == \A q \in Reqs \ {r} : KeepsPath(tree, tree', last_node[q])

(* Who holds no lock reads nothing.                                        *)
LEMMA NothingHeld ==
  ASSUME WellFormed, NEW r \in Reqs
  PROVE  /\ r \in Holders \/ last_node[r] = <<>>
         /\ phase[r] \in {"idle", "waiting", "finished", "done"} =>
              prefix_indices[r] = <<>> /\ last_node[r] = <<>> /\ row[r] = <<>>
<1>1. /\ RequestOK(phase[r], ids[r], fill_len[r], prefix_indices[r], last_node[r], row[r], results[r])
      /\ phase[r] \in Phases
  BY FieldsMean
<1>2. phase[r] \in {"idle", "waiting", "finished", "done"} =>
        prefix_indices[r] = <<>> /\ last_node[r] = <<>> /\ row[r] = <<>>
  BY <1>1 DEF RequestOK
<1>3. phase[r] \in {"idle", "waiting", "finished", "done"} \/ r \in Holders
  BY <1>1 DEF Phases, Holders
<1> QED
  BY <1>2, <1>3

(* It is enough to look at the request that takes the step.                *)
LEMMA ReadsFrame ==
  ASSUME WellFormed, ReadsRight, NEW r \in Reqs, OthersSame(r), KeepsOthers(r),
         RequestReads(tree', phase'[r], ids'[r], prefix_indices'[r], last_node'[r], row'[r])
  PROVE  ReadsRight'
<1>1. ASSUME NEW q \in Reqs, q # r
      PROVE  RequestReads(tree', phase'[q], ids'[q], prefix_indices'[q], last_node'[q], row'[q])
  <2>1. RequestReads(tree, phase[q], ids[q], prefix_indices[q], last_node[q], row[q])
    BY DEF ReadsRight
  <2>2. KeepsPath(tree, tree', last_node[q]) /\ TreeShape(tree)
    BY <1>1 DEF KeepsOthers, WellFormed
  <2>3. ReadsPath(tree', last_node[q], prefix_indices[q])
    BY <2>1, <2>2, ReadsKept DEF RequestReads
  <2>4. RequestReads(tree', phase[q], ids[q], prefix_indices[q], last_node[q], row[q])
    BY <2>1, <2>3 DEF RequestReads
  <2>5. /\ phase'[q] = phase[q] /\ ids'[q] = ids[q] /\ prefix_indices'[q] = prefix_indices[q]
        /\ last_node'[q] = last_node[q] /\ row'[q] = row[q]
    BY <1>1 DEF OthersSame
  <2> QED
    BY <2>4, <2>5, Zenon
<1>2. \A q \in Reqs : RequestReads(tree', phase'[q], ids'[q], prefix_indices'[q], last_node'[q], row'[q])
  BY <1>1
<1> QED
  BY <1>2 DEF ReadsRight

(* What becomes of the fields of r.                                        *)
OneStep(r) ==
  \/ \E prompt \in Prompts : Receive(r, prompt)
  \/ Peek(r)
  \/ \E n \in 1..ChunkSize : Admit(r, n) \/ AddChunked(r, n)
  \/ PrepareForExtend(r)
  \/ PrepareForDecode(r)
  \/ StashChunk(r)
  \/ ProcessLast(r)
  \/ \E t \in Tokens : ProcessPrefill(r, t) \/ ProcessDecode(r, t)
  \/ FreeDelayed(r)
  \/ \E n \in 0..NumSlots : Retract(r, n)

(* No step touches the fields of another request.                          *)
LEMMA OthersAlone ==
  ASSUME WellFormed, NEW r \in Reqs, OneStep(r)
  PROVE  OthersSame(r)
<1> USE DEF OthersSame, WellFormed
<1>1. ASSUME NEW prompt \in Prompts, Receive(r, prompt) PROVE OthersSame(r)
  BY <1>1 DEF Receive
<1>2. ASSUME Peek(r) PROVE OthersSame(r)
  BY <1>2 DEF Peek
<1>3. ASSUME NEW n, Admit(r, n) PROVE OthersSame(r)
  BY <1>3 DEF Admit
<1>4. ASSUME NEW n, AddChunked(r, n) PROVE OthersSame(r)
  BY <1>4 DEF AddChunked
<1>5. ASSUME PrepareForExtend(r) PROVE OthersSame(r)
  BY <1>5 DEF PrepareForExtend
<1>6. ASSUME PrepareForDecode(r) PROVE OthersSame(r)
  BY <1>6 DEF PrepareForDecode
<1>7. ASSUME StashChunk(r) PROVE OthersSame(r)
  BY <1>7 DEF StashChunk, CacheUnfinished
<1>8. ASSUME ProcessLast(r) PROVE OthersSame(r)
  BY <1>8 DEF ProcessLast, CacheFinished, ReleaseRow
<1>9. ASSUME NEW t, ProcessPrefill(r, t) PROVE OthersSame(r)
  BY <1>9 DEF ProcessPrefill, CacheUnfinished, RewriteRow
<1>10. ASSUME NEW t, ProcessDecode(r, t) PROVE OthersSame(r)
  BY <1>10 DEF ProcessDecode
<1>11. ASSUME FreeDelayed(r) PROVE OthersSame(r)
  BY <1>11 DEF FreeDelayed
<1>12. ASSUME NEW n, Retract(r, n) PROVE OthersSame(r)
  BY <1>12 DEF Retract, ReleaseRow
<1> QED
  BY <1>1, <1>2, <1>3, <1>4, <1>5, <1>6, <1>7, <1>8, <1>9, <1>10, <1>11, <1>12 DEF OneStep

(* What cache_unfinished_req does: n of the tokens were cached.            *)
Publishes(r, f, key, value, t, n) == Hands(r, f, key, value) /\ Caches(r, key, value, t, n)

(* It leaves r reading the path to its key.                                *)
LEMMA UnfinishedReads ==
  ASSUME WellFormed, NEW r \in Reqs, CacheUnfinished(r),
         0 < fill_len[r], fill_len[r] <= Len(ids[r]), fill_len[r] <= Len(row[r])
  PROVE  \E key, value, t, n :
           /\ Publishes(r, fill_len[r], key, value, t, n)
           /\ last_node'[r] = key /\ ReadsPath(tree', key, prefix_indices'[r])
           /\ Len(prefix_indices'[r]) = fill_len[r]
<1>1. PICK key, value : CutTo(key, ids[r], fill_len[r]) /\ CutTo(value, row[r], fill_len[r])
  BY DEF CutTo
<1>2. PICK ins : ins = Insert(tree, key, value)
  OBVIOUS
<1>3. Hands(r, fill_len[r], key, value)
  BY <1>1, <1>2, CacheUnfinishedMeans
<1>4. Caches(r, key, value, ins.tree, ins.prefix_len)
  BY <1>1, <1>2, CacheUnfinishedMeans
<1>5. prefix_indices' = [prefix_indices EXCEPT ![r] = PathSlots(ins.tree, key)]
  BY <1>1, <1>2, CacheUnfinishedMeans, ZenonT(90)
<1>6. last_node' = [last_node EXCEPT ![r] = key]
  BY <1>1, <1>2, CacheUnfinishedMeans
<1>7. last_node'[r] = key /\ prefix_indices'[r] = PathSlots(ins.tree, key)
  BY <1>5, <1>6 DEF WellFormed
<1>8. /\ TreeShape(ins.tree) /\ key \in Names /\ key \in DOMAIN ins.tree /\ Len(key) = fill_len[r]
      /\ SameEdges(ins.tree, tree') /\ SameSlots(ins.tree, tree')
  BY <1>3, <1>4 DEF Hands, Caches, Inserts
<1>9. ReadsPath(ins.tree, key, prefix_indices'[r])
  <2>1. ReadsPath(ins.tree, key, PathSlots(ins.tree, key))
    BY <1>8, PathReads
  <2> QED
    BY <1>7, <2>1, Zenon
<1>10. KeepsPath(ins.tree, tree', key)
  BY <1>8, AllKept
<1>11. ReadsPath(tree', key, prefix_indices'[r])
  BY <1>8, <1>9, <1>10, ReadsKept
<1>12. Len(prefix_indices'[r]) = fill_len[r]
  BY <1>8, <1>11 DEF ReadsPath
<1>13. Publishes(r, fill_len[r], key, value, ins.tree, ins.prefix_len)
  BY <1>3, <1>4 DEF Publishes
<1> QED
  BY <1>7, <1>11, <1>12, <1>13

(* What cache_finished_req does.                                           *)
LEMMA FinishedPublishes ==
  ASSUME WellFormed, NEW r \in Reqs, CacheFinished(r), 0 < Len(ids[r]), Len(ids[r]) <= Len(row[r])
  PROVE  \E key, value, t, n : Publishes(r, Len(ids[r]), key, value, t, n)
<1>1. PICK key, value : key = ids[r] /\ CutTo(value, row[r], Len(ids[r]))
  BY DEF CutTo
<1>2. PICK ins : ins = Insert(tree, key, value)
  OBVIOUS
<1>3. Hands(r, Len(ids[r]), key, value)
  BY <1>1, <1>2, CacheFinishedMeans
<1>4. Caches(r, key, value, ins.tree, ins.prefix_len)
  BY <1>1, <1>2, CacheFinishedMeans
<1> QED
  BY <1>3, <1>4 DEF Publishes

(* An eviction keeps what is read.                                         *)
LEMMA UnlockedKeeps ==
  ASSUME WellFormed, BooksRight, NEW E, Deletes(tree, tree', E), \A p \in E : tree[p].lock_ref = 0,
         NEW r \in Reqs
  PROVE  KeepsPath(tree, tree', last_node[r])
<1>1. LocksExact(tree, Holders, last_node) /\ TreeShape(tree)
  BY DEF BooksRight, Books
<1>2. last_node[r] = <<>> \/ \E q \in Holders : last_node[r] = last_node[q]
  BY NothingHeld
<1> QED
  BY <1>1, <1>2, EvictionKeeps

(* A retraction keeps what the others read.                                *)
LEMMA RetractKeeps ==
  ASSUME WellFormed, BooksRight, NEW r \in Reqs, NEW n, Retract(r, n)
  PROVE  KeepsOthers(r)
<1>1. PICK t, E : Retracts(r, t, E)
  BY RetractMeans
<1>2. /\ t = DecLock(tree, last_node[r]) /\ SameEdges(tree, t) /\ SameSlots(tree, t) /\ TreeShape(t)
      /\ Deletes(t, tree', E) /\ \A p \in E : t[p].lock_ref = 0
  BY <1>1 DEF Retracts
<1>3. r \in Holders
  BY DEF Retract, Holders
<1>4. \E ev, pr : Books(t, Holders \ {r}, last_node, ev, pr)
  BY <1>2, <1>3, BooksDec DEF BooksRight
<1>5. LocksExact(t, Holders \ {r}, last_node)
  BY <1>4 DEF Books
<1>6. ASSUME NEW q \in Reqs \ {r} PROVE KeepsPath(tree, tree', last_node[q])
  <2>1. last_node[q] = <<>> \/ \E x \in Holders \ {r} : last_node[q] = last_node[x]
    BY <1>6, NothingHeld
  <2>2. KeepsPath(t, tree', last_node[q])
    BY <1>2, <1>5, <2>1, EvictionKeeps
  <2>3. KeepsPath(tree, t, last_node[q])
    BY <1>2, AllKept
  <2> QED
    BY <2>2, <2>3, KeptTwice
<1> QED
  BY <1>6 DEF KeepsOthers

(* What the acting request reads after its step.                           *)
ReadsAfter(r) ==
  KeepsOthers(r) /\ RequestReads(tree', phase'[r], ids'[r], prefix_indices'[r], last_node'[r], row'[r])

(* A request that reads nothing after its step.                            *)
LEMMA EndsReading ==
  ASSUME NEW r \in Reqs, KeepsOthers(r), phase'[r] \notin {"chunk", "batch"}, ids'[r] \in Names,
         prefix_indices'[r] = <<>>, last_node'[r] = <<>>
  PROVE  ReadsAfter(r)
<1>1. PICK ph : ph = phase'[r]
  OBVIOUS
<1>2. PICK i \in Names : i = ids'[r]
  OBVIOUS
<1>3. RequestReads(tree', ph, i, <<>>, <<>>, row'[r])
  BY <1>1, ReadsNothing
<1> QED
  BY <1>1, <1>2, <1>3, Zenon DEF ReadsAfter

(* The steps of r before it runs.                                          *)
LEMMA ReadsBefore ==
  ASSUME WellFormed, ReadsRight, NEW r \in Reqs,
         \/ \E prompt \in Prompts : Receive(r, prompt)
         \/ Peek(r)
         \/ \E n \in 1..ChunkSize : Admit(r, n) \/ AddChunked(r, n)
  PROVE  ReadsAfter(r)
<1>0. RequestReads(tree, phase[r], ids[r], prefix_indices[r], last_node[r], row[r])
  BY DEF ReadsRight
<1>1. ASSUME NEW prompt \in Prompts, Receive(r, prompt) PROVE ReadsAfter(r)
  <2>1. KeepsOthers(r)
    BY <1>1, AllKept DEF Receive, cacheVars, KeepsOthers
  <2>2. prefix_indices[r] = <<>> /\ last_node[r] = <<>>
    BY <1>1, NothingHeld DEF Receive
  <2>3. phase'[r] = "waiting" /\ ids'[r] \in Names /\ prefix_indices'[r] = <<>> /\ last_node'[r] = <<>>
    BY <1>1, <2>2, PromptsAssumption DEF Receive, WellFormed, Names
  <2> QED
    BY <2>1, <2>3, EndsReading
<1>2. ASSUME Peek(r) PROVE ReadsAfter(r)
  <2>1. \A p : KeepsPath(tree, tree', p)
    BY <1>2, PeekMeans, AllKept
  <2>2. ReadsPath(tree', last_node[r], prefix_indices[r])
    BY <1>0, <2>1, ReadsKept DEF RequestReads, WellFormed
  <2>3. RequestReads(tree', phase[r], ids[r], prefix_indices[r], last_node[r], row[r])
    BY <1>0, <2>2 DEF RequestReads
  <2>4. UNCHANGED <<phase, ids, prefix_indices, last_node, row>>
    BY <1>2 DEF Peek
  <2> QED
    BY <2>1, <2>3, <2>4 DEF ReadsAfter, KeepsOthers
<1>3. ASSUME NEW n \in 1..ChunkSize, Admit(r, n) PROVE ReadsAfter(r)
  <2>1. PICK m : m = MatchPrefix(tree, MaxPrefixIds(r))
    OBVIOUS
  <2>2. /\ Matches(tree, MaxPrefixIds(r), m) /\ IsPrefix(m.node, ids[r])
        /\ SameEdges(m.tree, tree') /\ SameSlots(m.tree, tree') /\ TreeShape(m.tree)
        /\ m.node \in Names /\ (m.node = <<>> \/ m.node \in DOMAIN m.tree)
    BY <1>3, <2>1, AdmitMeans
  <2>3. ASSUME NEW p PROVE KeepsPath(tree, tree', p)
    <3>1. KeepsPath(tree, m.tree, p)
      BY <2>2, AllKept DEF Matches
    <3>2. KeepsPath(m.tree, tree', p)
      BY <2>2, AllKept
    <3> QED
      BY <3>1, <3>2, KeptTwice
  <2>4. ReadsPath(m.tree, m.node, m.value)
    BY <2>2, PathReads DEF Matches
  <2>5. ReadsPath(tree', m.node, m.value)
    BY <2>2, <2>4, AllKept, ReadsKept
  <2>6. /\ phase'[r] = "admitted" /\ ids' = ids
        /\ prefix_indices'[r] = m.value /\ last_node'[r] = m.node
    BY <1>3, <2>1 DEF Admit, WellFormed
  <2>7. RequestReads(tree', "admitted", ids[r], m.value, m.node, row'[r])
    BY <2>2, <2>5 DEF RequestReads, RowReads
  <2>8. RequestReads(tree', phase'[r], ids'[r], prefix_indices'[r], last_node'[r], row'[r])
    BY <2>6, <2>7, Zenon
  <2> QED
    BY <2>3, <2>8 DEF ReadsAfter, KeepsOthers
<1>4. ASSUME NEW n \in 1..ChunkSize, AddChunked(r, n) PROVE ReadsAfter(r)
  <2>1. tree' = tree /\ phase'[r] = "admitted" /\ UNCHANGED <<ids, prefix_indices, last_node, row>>
    BY <1>4 DEF AddChunked, cacheVars, WellFormed
  <2>2. RequestReads(tree, "admitted", ids[r], prefix_indices[r], last_node[r], row[r])
    BY <1>0 DEF RequestReads, RowReads
  <2>3. RequestReads(tree', phase'[r], ids'[r], prefix_indices'[r], last_node'[r], row'[r])
    BY <2>1, <2>2, Zenon
  <2>4. KeepsOthers(r)
    BY <2>1, AllKept DEF KeepsOthers
  <2> QED
    BY <2>3, <2>4 DEF ReadsAfter
<1> QED
  BY <1>1, <1>2, <1>3, <1>4

(* A request that starts its forward pass.                                 *)
LEMMA ReadsExtend ==
  ASSUME WellFormed, BooksRight, ReadsRight, NEW r \in Reqs, PrepareForExtend(r)
  PROVE  ReadsAfter(r)
<1>0. RequestReads(tree, phase[r], ids[r], prefix_indices[r], last_node[r], row[r])
  BY DEF ReadsRight
<1>1. PICK n, E, new : Allocates(n, E, new) /\ Extends(r, n, new)
  BY ExtendMeans
<1>2. \A q \in Reqs : KeepsPath(tree, tree', last_node[q])
  BY <1>1, UnlockedKeeps DEF Allocates
<1>3. ReadsPath(tree', last_node[r], prefix_indices[r])
  BY <1>0, <1>2, ReadsKept DEF RequestReads, WellFormed
<1>4. PICK pre \in Seq(Slots) : pre = prefix_indices[r]
  BY DEF WellFormed
<1>5. /\ UNCHANGED <<ids, prefix_indices, last_node>>
      /\ row' = [row EXCEPT ![r] = prefix_indices[r] \o new]
  BY <1>1 DEF PrepareForExtend, Extends
<1>6. PICK u : Joins(u, pre, new) /\ row'[r] = u
  BY <1>4, <1>5 DEF Joins, WellFormed
<1>7. PICK x \in Nat : Len(pre) = x
  BY <1>4, LenProperties
<1>8. new \in Seq(Slots) /\ n \in Nat /\ Len(new) = n
  BY <1>1 DEF Allocates, Extends
<1>9. Len(u) = x + n /\ \A k \in 1..x + n : u[k] = IF k <= x THEN pre[k] ELSE new[k - x]
  BY <1>4, <1>6, <1>7, <1>8, Concatenated
<1>10. Len(pre) <= Len(u) /\ \A i \in 1..Len(pre) : u[i] = pre[i]
  BY <1>7, <1>8, <1>9
<1>11. RowReads(phase'[r], pre, u)
  BY <1>10 DEF RowReads
<1>12. RequestReads(tree', phase'[r], ids[r], pre, last_node[r], u)
  BY <1>0, <1>3, <1>4, <1>11 DEF RequestReads
<1>13. RequestReads(tree', phase'[r], ids'[r], prefix_indices'[r], last_node'[r], row'[r])
  BY <1>4, <1>5, <1>6, <1>12, Zenon
<1> QED
  BY <1>2, <1>13 DEF ReadsAfter, KeepsOthers

(* One more slot.                                                          *)
LEMMA RowReadsMore ==
  ASSUME NEW ph, NEW pre \in Seq(Slots), NEW rw \in Seq(Slots), NEW x \in Slots, NEW u, Appends(u, rw, x),
         ph \in {"chunk", "batch"}, RowReads(ph, pre, rw)
  PROVE  RowReads(ph, pre, u)
<1>1. PICK n \in Nat : Len(rw) = n
  BY LenProperties
<1>2. Len(u) = n + 1 /\ \A i \in 1..n : u[i] = rw[i]
  BY <1>1, Appended
<1>3. PICK m \in Nat : Len(pre) = m
  BY LenProperties
<1>4. m <= n /\ \A i \in 1..m : rw[i] = pre[i]
  BY <1>1, <1>3 DEF RowReads
<1>5. Len(pre) <= Len(u) /\ \A i \in 1..Len(pre) : u[i] = pre[i]
  BY <1>2, <1>3, <1>4
<1> QED
  BY <1>5 DEF RowReads

(* A request that decodes.                                                 *)
LEMMA ReadsDecode ==
  ASSUME WellFormed, BooksRight, ReadsRight, NEW r \in Reqs, PrepareForDecode(r)
  PROVE  ReadsAfter(r)
<1>0. RequestReads(tree, phase[r], ids[r], prefix_indices[r], last_node[r], row[r])
  BY DEF ReadsRight
<1>1. PICK E, new : Allocates(1, E, new) /\ Decodes(r, new[1])
  BY DecodeMeans
<1>2. \A q \in Reqs : KeepsPath(tree, tree', last_node[q])
  BY <1>1, UnlockedKeeps DEF Allocates
<1>3. ReadsPath(tree', last_node[r], prefix_indices[r])
  BY <1>0, <1>2, ReadsKept DEF RequestReads, WellFormed
<1>4. PICK slot : slot = new[1]
  OBVIOUS
<1>5. slot \in Slots /\ row' = [row EXCEPT ![r] = Append(@, slot)]
  BY <1>1, <1>4 DEF Decodes
<1>6. PICK u : Appends(u, row[r], slot) /\ row'[r] = u
  BY <1>5 DEF Appends, WellFormed
<1>7. prefix_indices[r] \in Seq(Slots) /\ row[r] \in Seq(Slots)
  BY FieldsMean
<1>8. phase[r] = "batch" /\ UNCHANGED <<phase, ids, prefix_indices, last_node>>
  BY DEF PrepareForDecode
<1>9. RowReads(phase[r], prefix_indices[r], u)
  BY <1>0, <1>5, <1>6, <1>7, <1>8, RowReadsMore DEF RequestReads
<1>10. RequestReads(tree', phase[r], ids[r], prefix_indices[r], last_node[r], u)
  BY <1>0, <1>3, <1>9 DEF RequestReads
<1>11. RequestReads(tree', phase'[r], ids'[r], prefix_indices'[r], last_node'[r], row'[r])
  BY <1>6, <1>8, <1>10, Zenon
<1> QED
  BY <1>2, <1>11 DEF ReadsAfter, KeepsOthers

(* What is handed over at the end of a chunk or of the prompt.             *)
LEMMA ComputedPart ==
  ASSUME WellFormed, NEW r \in Reqs, phase[r] = "chunk" \/ (phase[r] = "batch" /\ results[r] # <<>>)
  PROVE  /\ 0 < fill_len[r] /\ fill_len[r] <= Len(ids[r]) /\ fill_len[r] <= Len(row[r])
         /\ Len(prefix_indices[r]) <= fill_len[r]
         /\ fill_len[r] \in Nat /\ Len(ids[r]) \in Nat /\ Len(row[r]) \in Nat
         /\ phase[r] = "chunk" => Len(row[r]) = fill_len[r]
<1>1. fill_len[r] \in Nat /\ Len(ids[r]) \in Nat /\ Len(row[r]) \in Nat
  BY FieldsMean
<1>2. CASE phase[r] = "chunk"
  <2>1. RequestOK(phase[r], ids[r], fill_len[r], prefix_indices[r], last_node[r], row[r], results[r])
    BY FieldsMean
  <2> QED
    BY <1>1, <1>2, <2>1 DEF RequestOK
<1>3. CASE phase[r] = "batch" /\ results[r] # <<>>
  BY <1>1, <1>3, BatchFields
<1> QED
  BY <1>2, <1>3

(* A chunk that is cached.                                                 *)
LEMMA ReadsStash ==
  ASSUME WellFormed, ReadsRight, NEW r \in Reqs, StashChunk(r)
  PROVE  ReadsAfter(r)
<1>1. phase[r] = "chunk" /\ phase' = [phase EXCEPT ![r] = "chunked"] /\ CacheUnfinished(r) /\ ids' = ids
  BY DEF StashChunk
<1>2. PICK key, value, t, n :
        /\ Publishes(r, fill_len[r], key, value, t, n)
        /\ last_node'[r] = key /\ ReadsPath(tree', key, prefix_indices'[r])
  BY <1>1, ComputedPart, UnfinishedReads
<1>3. KeepsOthers(r)
  BY <1>2, CachesKeeps DEF Publishes, KeepsOthers
<1>4. IsPrefix(key, ids[r])
  BY <1>2 DEF Publishes, Hands
<1>5. phase'[r] = "chunked"
  BY <1>1 DEF WellFormed
<1>6. RequestReads(tree', phase'[r], ids[r], prefix_indices'[r], key, row'[r])
  BY <1>2, <1>4, <1>5 DEF RequestReads, RowReads
<1>7. RequestReads(tree', phase'[r], ids'[r], prefix_indices'[r], last_node'[r], row'[r])
  BY <1>1, <1>2, <1>6, Zenon
<1> QED
  BY <1>3, <1>7 DEF ReadsAfter

(* One more token.                                                         *)
LEMMA PrefixOfMore ==
  ASSUME NEW i \in Names, NEW t \in Tokens, NEW p \in Names, IsPrefix(p, i)
  PROVE  IsPrefix(p, Append(i, t)) /\ Append(i, t) \in Names
<1>1. PICK u : Appends(u, i, t)
  BY DEF Appends
<1>2. PICK n \in Nat : Len(i) = n
  BY PrefixOrder
<1>3. u \in Names /\ Len(u) = n + 1 /\ \A k \in 1..n : u[k] = i[k]
  BY <1>1, <1>2, Appended DEF Names
<1>4. IsPrefix(i, u)
  BY <1>2, <1>3, PrefixMeans DEF Names
<1>5. IsPrefix(p, u)
  BY <1>3, <1>4, PrefixOrder
<1> QED
  BY <1>1, <1>3, <1>5 DEF Appends

(* The result of a prefill.                                                *)
LEMMA ReadsPrefill ==
  ASSUME WellFormed, ReadsRight, NEW r \in Reqs, NEW token \in Tokens, ProcessPrefill(r, token)
  PROVE  ReadsAfter(r)
<1>1. /\ phase[r] = "batch" /\ phase' = phase /\ CacheUnfinished(r) /\ results[r] # <<>>
      /\ ids' = [ids EXCEPT ![r] = Append(@, token)]
      /\ row' = [row EXCEPT ![r] = prefix_indices'[r] \o SubSeq(@, Len(prefix_indices'[r]) + 1, Len(@))]
  BY DEF ProcessPrefill, RewriteRow
<1>2. PICK key, value, t, n :
        /\ Publishes(r, fill_len[r], key, value, t, n)
        /\ last_node'[r] = key /\ ReadsPath(tree', key, prefix_indices'[r])
        /\ Len(prefix_indices'[r]) = fill_len[r]
  BY <1>1, ComputedPart, UnfinishedReads
<1>3. KeepsOthers(r)
  BY <1>2, CachesKeeps DEF Publishes, KeepsOthers
<1>4. IsPrefix(key, ids[r]) /\ key \in Names /\ ids[r] \in Names
  BY <1>2, FieldsMean DEF Publishes, Hands
<1>5. PICK i2 : i2 = Append(ids[r], token) /\ ids'[r] = i2
  BY <1>1 DEF WellFormed
<1>6. IsPrefix(key, i2)
  BY <1>4, <1>5, PrefixOfMore
<1>7. PICK pre \in Seq(Slots) : pre = prefix_indices'[r]
  BY <1>2 DEF ReadsPath
<1>8. PICK rw2 : Rereads(rw2, pre, row[r]) /\ row'[r] = rw2
  BY <1>1, <1>7 DEF Rereads, WellFormed
<1>9. PICK f \in Nat : f = fill_len[r]
  BY FieldsMean
<1>10. PICK x \in Nat : x = Len(row[r])
  BY FieldsMean
<1>11. row[r] \in Seq(Slots) /\ Len(pre) = f /\ f <= x
  BY <1>1, <1>2, <1>7, <1>9, <1>10, ComputedPart, FieldsMean
<1>12. Len(rw2) = x /\ \A j \in 1..f : rw2[j] = pre[j]
  BY <1>8, <1>10, <1>11, RewriteMeans
<1>13. RowReads(phase[r], pre, rw2)
  BY <1>11, <1>12 DEF RowReads
<1>14. RequestReads(tree', phase[r], i2, pre, key, rw2)
  BY <1>2, <1>6, <1>7, <1>13 DEF RequestReads
<1>15. RequestReads(tree', phase'[r], ids'[r], prefix_indices'[r], last_node'[r], row'[r])
  BY <1>1, <1>2, <1>5, <1>7, <1>8, <1>14, Zenon
<1> QED
  BY <1>3, <1>15 DEF ReadsAfter

(* The result of a decode step.                                            *)
LEMMA ReadsResult ==
  ASSUME WellFormed, ReadsRight, NEW r \in Reqs, NEW token \in Tokens, ProcessDecode(r, token)
  PROVE  ReadsAfter(r)
<1>0. RequestReads(tree, phase[r], ids[r], prefix_indices[r], last_node[r], row[r])
  BY DEF ReadsRight
<1>1. /\ tree' = tree /\ UNCHANGED <<phase, prefix_indices, last_node, row>>
      /\ ids' = [ids EXCEPT ![r] = Append(@, token)]
  BY DEF ProcessDecode, cacheVars
<1>2. PICK i2 : i2 = Append(ids[r], token) /\ ids'[r] = i2
  BY <1>1 DEF WellFormed
<1>3. IsPrefix(last_node[r], i2)
  BY <1>0, <1>2, FieldsMean, PrefixOfMore DEF RequestReads
<1>4. RequestReads(tree, phase[r], i2, prefix_indices[r], last_node[r], row[r])
  BY <1>0, <1>3 DEF RequestReads
<1>5. RequestReads(tree', phase'[r], ids'[r], prefix_indices'[r], last_node'[r], row'[r])
  BY <1>1, <1>2, <1>4, Zenon
<1>6. KeepsOthers(r)
  BY <1>1, AllKept DEF KeepsOthers
<1> QED
  BY <1>5, <1>6 DEF ReadsAfter

(* The steps that end what r reads.                                        *)
LEMMA ReadsNoMore ==
  ASSUME WellFormed, BooksRight, NEW r \in Reqs,
         ProcessLast(r) \/ FreeDelayed(r) \/ \E n \in 0..NumSlots : Retract(r, n)
  PROVE  ReadsAfter(r)
<1>0. ids[r] \in Names /\ <<>> \in Names
  BY FieldsMean, PrefixOrder
<1>1. ASSUME ProcessLast(r) PROVE ReadsAfter(r)
  <2>1. /\ phase[r] = "batch" /\ CacheFinished(r) /\ results[r] # <<>>
        /\ ids' = [ids EXCEPT ![r] = <<>>]
        /\ phase' = [phase EXCEPT ![r] = IF Len(results[r]) > 1 THEN "finished" ELSE "done"]
    BY <1>1 DEF ProcessLast
  <2>2. 0 < Len(ids[r]) /\ Len(ids[r]) <= Len(row[r])
    <3>1. 0 < fill_len[r] /\ fill_len[r] <= Len(ids[r]) /\ Len(ids[r]) <= Len(row[r])
      BY <2>1, BatchFields
    <3> QED
      BY <3>1, FieldsMean
  <2>3. PICK key, value, t, n : Publishes(r, Len(ids[r]), key, value, t, n)
    BY <2>1, <2>2, FinishedPublishes
  <2>4. KeepsOthers(r)
    BY <2>3, CachesKeeps DEF Publishes, KeepsOthers
  <2>5. /\ phase'[r] \in {"finished", "done"} /\ ids'[r] = <<>>
        /\ prefix_indices'[r] = <<>> /\ last_node'[r] = <<>>
    BY <2>1 DEF CacheFinished, ReleaseRow, WellFormed
  <2> QED
    BY <1>0, <2>4, <2>5, EndsReading
<1>2. ASSUME FreeDelayed(r) PROVE ReadsAfter(r)
  <2>1. /\ tree' = tree /\ UNCHANGED <<ids, prefix_indices, last_node>>
        /\ phase[r] = "finished" /\ phase'[r] = "done"
    BY <1>2 DEF FreeDelayed, cacheVars, WellFormed
  <2>2. prefix_indices[r] = <<>> /\ last_node[r] = <<>>
    BY <2>1, NothingHeld
  <2>3. KeepsOthers(r)
    BY <2>1, AllKept DEF KeepsOthers
  <2> QED
    BY <1>0, <2>1, <2>2, <2>3, EndsReading
<1>3. ASSUME NEW n \in 0..NumSlots, Retract(r, n) PROVE ReadsAfter(r)
  <2>1. KeepsOthers(r)
    BY <1>3, RetractKeeps
  <2>2. /\ phase'[r] = "waiting" /\ ids' = ids /\ prefix_indices'[r] = <<>> /\ last_node'[r] = <<>>
    BY <1>3 DEF Retract, ReleaseRow, WellFormed
  <2> QED
    BY <1>0, <2>1, <2>2, EndsReading
<1> QED
  BY <1>1, <1>2, <1>3

(* What requests read stays right.                                         *)
LEMMA ReadsNext ==
  ASSUME WellFormed, BooksRight, ReadsRight, [Next]_vars
  PROVE  ReadsRight'
<1>1. ASSUME NEW r \in Reqs, OneStep(r) PROVE ReadsRight'
  <2>1. ReadsAfter(r)
    BY <1>1, ReadsBefore, ReadsExtend, ReadsDecode, ReadsStash, ReadsPrefill, ReadsResult, ReadsNoMore
       DEF OneStep
  <2> QED
    BY <1>1, <2>1, OthersAlone, ReadsFrame DEF ReadsAfter
<1>2. ASSUME \A r \in Reqs : KeepsPath(tree, tree', last_node[r]),
             UNCHANGED <<phase, ids, prefix_indices, last_node, row>>
      PROVE  ReadsRight'
  <2>1. ASSUME NEW r \in Reqs
        PROVE  RequestReads(tree', phase[r], ids[r], prefix_indices[r], last_node[r], row[r])
    <3>1. RequestReads(tree, phase[r], ids[r], prefix_indices[r], last_node[r], row[r])
      BY DEF ReadsRight
    <3> QED
      BY <1>2, <3>1, ReadsKept DEF RequestReads, WellFormed
  <2> QED
    BY <1>2, <2>1, Zenon DEF ReadsRight
<1>3. CASE CheckDecodeMem
  <2>1. UNCHANGED <<phase, ids, prefix_indices, last_node, row>>
    BY <1>3 DEF CheckDecodeMem
  <2>2. \A r \in Reqs : KeepsPath(tree, tree', last_node[r])
    BY <1>3, CheckMemMeans, UnlockedKeeps
  <2> QED
    BY <1>2, <2>1, <2>2
<1>4. CASE FlushCache
  <2>1. /\ UNCHANGED <<phase, ids, prefix_indices, last_node, row>>
        /\ \A r \in Reqs : phase[r] \in {"idle", "done"}
    BY <1>4 DEF FlushCache
  <2>2. ASSUME NEW r \in Reqs PROVE RequestReads(tree', phase[r], ids[r], prefix_indices[r], last_node[r], row[r])
    <3>1. prefix_indices[r] = <<>> /\ last_node[r] = <<>> /\ phase[r] \notin {"chunk", "batch"}
      BY <2>1, NothingHeld
    <3>2. RequestReads(tree', phase[r], ids[r], <<>>, <<>>, row[r])
      BY <3>1, FieldsMean, ReadsNothing
    <3> QED
      BY <3>1, <3>2, Zenon
  <2> QED
    BY <2>1, <2>2, Zenon DEF ReadsRight
<1>5. CASE UNCHANGED vars
  BY <1>2, <1>5, AllKept DEF vars
<1> QED
  BY <1>1, <1>3, <1>4, <1>5 DEF Next, OneStep

(* Nothing is read at the start.                                           *)
LEMMA ReadsInit == Init => ReadsRight
<1> SUFFICES ASSUME Init, NEW r \in Reqs
             PROVE  RequestReads(tree, phase[r], ids[r], prefix_indices[r], last_node[r], row[r])
  BY DEF ReadsRight
<1>1. /\ phase[r] = "idle" /\ ids[r] = <<>> /\ prefix_indices[r] = <<>> /\ last_node[r] = <<>>
  BY DEF Init
<1>2. RequestReads(tree, "idle", <<>>, <<>>, <<>>, row[r])
  BY ReadsNothing, PrefixOrder
<1> QED
  BY <1>1, <1>2, Zenon

(* What a request reads is the path to its node.                           *)
LEMMA ReadsMean ==
  ASSUME WellFormed, ReadsRight
  PROVE  PrefixIsCached
<1> SUFFICES ASSUME NEW r \in Holders
             PROVE  /\ last_node[r] = <<>> \/ last_node[r] \in DOMAIN tree
                    /\ prefix_indices[r] = PathSlots(tree, last_node[r])
                    /\ IsPrefix(last_node[r], ids[r])
                    /\ row[r] = <<>> \/ IsPrefix(prefix_indices[r], row[r])
  BY DEF PrefixIsCached
<1>1. /\ r \in Reqs /\ phase[r] \in {"admitted", "chunk", "chunked", "batch"}
      /\ RequestReads(tree, phase[r], ids[r], prefix_indices[r], last_node[r], row[r])
  BY DEF Holders, ReadsRight
<1>2. /\ RequestOK(phase[r], ids[r], fill_len[r], prefix_indices[r], last_node[r], row[r], results[r])
      /\ prefix_indices[r] \in Seq(Slots) /\ row[r] \in Seq(Slots) /\ TreeShape(tree)
  BY <1>1, FieldsMean
<1>3. prefix_indices[r] = PathSlots(tree, last_node[r])
  BY <1>1, <1>2, PathReads DEF RequestReads, ReadsPath
<1>4. CASE phase[r] \in {"chunk", "batch"}
  <2>1. IsPrefix(prefix_indices[r], row[r])
    BY <1>1, <1>2, <1>4, PrefixMeans DEF RequestReads, RowReads
  <2> QED
    BY <1>1, <1>3, <2>1 DEF RequestReads, ReadsPath
<1>5. CASE phase[r] \in {"admitted", "chunked"}
  <2>1. row[r] = <<>>
    BY <1>2, <1>5 DEF RequestOK
  <2> QED
    BY <1>1, <1>3, <2>1 DEF RequestReads, ReadsPath
<1> QED
  BY <1>1, <1>4, <1>5


-----------------------------------------------------------------------------
(* Who owns which slot.                                                    *)

(* The cache's slots.                                                      *)
TreeSet(t) == {s \in Slots : \E q : IsPosition(t, q) /\ SlotOf(t, q) = s}

(* The slots of a row from position a + 1 to b.                            *)
Part(rw, a, b) == {s \in Slots : \E i \in a+1..b : s = rw[i]}

(* A request's own slots, by its phase, prefix, row and results.           *)
Own(ph, pre, rw, res) ==
  Part(rw, Len(pre), Len(rw)) \cup {s \in Slots : ph = "finished" /\ s = res[1].loc}

Owned == [r \in Reqs |-> Own(phase[r], prefix_indices[r], row[r], results[r])]

(* Each slot is free, or the cache's, or one request's own.                *)
Partition(F, C, U) ==
  /\ F \subseteq Slots /\ C \subseteq Slots /\ F \cap C = {}
  /\ \A r \in Reqs : U[r] \subseteq Slots /\ U[r] \cap F = {} /\ U[r] \cap C = {}
  /\ \A r, q \in Reqs : r # q => U[r] \cap U[q] = {}
  /\ \A s \in Slots : s \in F \/ s \in C \/ \E r \in Reqs : s \in U[r]

(* The cache's slots hold the KV of their positions.                       *)
KVTree(t, k) == \A q : IsPosition(t, q) => k[SlotOf(t, q)] = q

(* A request's slots hold the KV of its tokens, or none yet.               *)
KVRow(k, i, pre, rw) ==
  \A j \in Len(pre)+1..Len(rw) : k[rw[j]] = IF j <= Len(i) THEN SubSeq(i, 1, j) ELSE <<>>

MemoryRight ==
  /\ Partition(free_slots, TreeSet(tree), Owned)
  /\ KVTree(tree, kv)
  /\ \A r \in Reqs : KVRow(kv, ids[r], prefix_indices[r], row[r])

(* The slot of a position is a slot.                                       *)
LEMMA SlotTyped ==
  ASSUME NEW t, TreeShape(t), NEW q, IsPosition(t, q)
  PROVE  SlotOf(t, q) \in Slots
BY CutChildMeans, SlotOfMeans DEF TreeShape

(* Splits and locks move no slot.                                          *)
LEMMA SetSame ==
  ASSUME NEW t, NEW t2, SameSlots(t, t2)
  PROVE  /\ TreeSet(t2) = TreeSet(t)
         /\ \A k : KVTree(t, k) => KVTree(t2, k)
<1>1. ASSUME NEW s PROVE (\E q : IsPosition(t, q) /\ SlotOf(t, q) = s) <=> \E q : IsPosition(t2, q) /\ SlotOf(t2, q) = s
  BY DEF SameSlots
<1> QED
  BY <1>1 DEF SameSlots, KVTree, TreeSet

(* A deletion takes the slots of its nodes.                                *)
LEMMA SetDeleted ==
  ASSUME NEW t, TreeShape(t), NEW t2, NEW E, Deletes(t, t2, E), NEW k, KVTree(t, k)
  PROVE  /\ TreeSet(t2) = TreeSet(t) \ NodeSlots(t, E)
         /\ NodeSlots(t, E) \subseteq TreeSet(t)
         /\ KVTree(t2, k)
<1>1. \A q : IsPosition(t2, q) => IsPosition(t, q) /\ SlotOf(t2, q) = SlotOf(t, q)
  BY DEF Deletes
<1>2. \A s : s \in NodeSlots(t, E) <=> \E q : IsPosition(t, q) /\ ~IsPosition(t2, q) /\ SlotOf(t, q) = s
  BY DEF Deletes
<1>3. \A q, p : IsPosition(t, q) /\ IsPosition(t, p) /\ SlotOf(t, q) = SlotOf(t, p) => q = p
  BY DEF KVTree
<1>4. ASSUME NEW s PROVE s \in TreeSet(t2) <=> s \in TreeSet(t) \ NodeSlots(t, E)
  <2>1. ASSUME s \in TreeSet(t2) PROVE s \in TreeSet(t) \ NodeSlots(t, E)
    <3>1. PICK q : s \in Slots /\ IsPosition(t2, q) /\ SlotOf(t2, q) = s
      BY <2>1 DEF TreeSet
    <3>2. IsPosition(t, q) /\ SlotOf(t, q) = s
      BY <1>1, <3>1
    <3>3. s \notin NodeSlots(t, E)
      BY <1>2, <1>3, <3>1, <3>2
    <3> QED
      BY <3>1, <3>2, <3>3 DEF TreeSet
  <2>2. ASSUME s \in TreeSet(t) \ NodeSlots(t, E) PROVE s \in TreeSet(t2)
    <3>1. PICK q : s \in Slots /\ IsPosition(t, q) /\ SlotOf(t, q) = s
      BY <2>2 DEF TreeSet
    <3>2. IsPosition(t2, q)
      BY <1>2, <2>2, <3>1
    <3> QED
      BY <1>1, <3>1, <3>2 DEF TreeSet
  <2> QED
    BY <2>1, <2>2
<1>5. NodeSlots(t, E) \subseteq TreeSet(t)
  BY <1>2, SlotTyped DEF TreeSet
<1>6. KVTree(t2, k)
  BY <1>1 DEF KVTree
<1> QED
  BY <1>4, <1>5, <1>6

(* X is made of A and B.                                                   *)
IsUnion(X, A, B) == X = A \cup B

(* An insertion adds the slots of its new tokens.                          *)
LEMMA SetInserted ==
  ASSUME NEW t, NEW t2, NEW key \in Names, NEW value \in Seq(Slots), Len(value) = Len(key),
         NEW n \in Nat, Inserts(t, t2, key, value, n)
  PROVE  IsUnion(TreeSet(t2), TreeSet(t), Part(value, n, Len(key)))
<1>1. /\ \A q : IsPosition(t2, q) <=> \/ IsPosition(t, q)
                                      \/ q \in Names /\ IsPrefix(q, key) /\ Len(q) > n
      /\ \A q : IsPosition(t, q) => SlotOf(t2, q) = SlotOf(t, q)
      /\ \A q \in Names : IsPrefix(q, key) /\ Len(q) > n => SlotOf(t2, q) = value[Len(q)]
  BY DEF Inserts
<1>2. Len(key) \in Nat /\ \A q \in Names : Len(q) \in Nat /\ (IsPrefix(q, key) => Len(q) <= Len(key))
  BY PrefixOrder
<1>3. ASSUME NEW s \in TreeSet(t2) PROVE s \in TreeSet(t) \cup Part(value, n, Len(key))
  <2>1. PICK q : s \in Slots /\ IsPosition(t2, q) /\ SlotOf(t2, q) = s
    BY DEF TreeSet
  <2>2. CASE IsPosition(t, q)
    BY <1>1, <2>1, <2>2 DEF TreeSet
  <2>3. CASE q \in Names /\ IsPrefix(q, key) /\ Len(q) > n
    <3>1. Len(q) \in n+1..Len(key) /\ s = value[Len(q)]
      BY <1>1, <1>2, <2>1, <2>3
    <3> QED
      BY <2>1, <3>1 DEF Part
  <2> QED
    BY <1>1, <2>1, <2>2, <2>3
<1>4. ASSUME NEW s \in Part(value, n, Len(key)) PROVE s \in TreeSet(t2)
  <2>1. PICK i \in n+1..Len(key) : s = value[i] /\ s \in Slots
    BY DEF Part
  <2>2. i \in 0..Len(key) /\ i > n
    BY <1>2
  <2>3. PICK q : q \in Names /\ Len(q) = i /\ IsPrefix(q, key)
    BY <2>2, Cuts
  <2>4. IsPosition(t2, q) /\ SlotOf(t2, q) = s
    BY <1>1, <2>1, <2>2, <2>3
  <2> QED
    BY <2>1, <2>4 DEF TreeSet
<1>5. ASSUME NEW s \in TreeSet(t) PROVE s \in TreeSet(t2)
  BY <1>1 DEF TreeSet
<1> QED
  BY <1>3, <1>4, <1>5 DEF IsUnion

(* The slots of a row from position a + 1 to b are different.              *)
Distinct(rw, a, b) == \A i, j \in a+1..b : rw[i] = rw[j] => i = j

(* A part of a row is the union of two shorter ones.                       *)
LEMMA PartsOf ==
  ASSUME NEW rw, NEW a \in Nat, NEW b \in Nat, NEW c \in Nat, a <= b, b <= c
  PROVE  /\ IsUnion(Part(rw, a, c), Part(rw, a, b), Part(rw, b, c))
         /\ Distinct(rw, a, c) => Distinct(rw, b, c) /\ Part(rw, a, b) \cap Part(rw, b, c) = {}
<1>1. a+1..c = (a+1..b) \cup (b+1..c) /\ (a+1..b) \cap (b+1..c) = {}
  OBVIOUS
<1>2. Part(rw, a, c) = Part(rw, a, b) \cup Part(rw, b, c)
  BY <1>1 DEF Part
<1>3. ASSUME Distinct(rw, a, c), NEW s, s \in Part(rw, a, b), s \in Part(rw, b, c)
      PROVE  FALSE
  <2>1. PICK i \in a+1..b : s = rw[i]
    BY <1>3 DEF Part
  <2>2. PICK j \in b+1..c : s = rw[j]
    BY <1>3 DEF Part
  <2> QED
    BY <1>1, <1>3, <2>1, <2>2 DEF Distinct
<1>4. Distinct(rw, a, c) => Distinct(rw, b, c)
  BY <1>1 DEF Distinct
<1> QED
  BY <1>2, <1>3, <1>4 DEF IsUnion

(* A row's own slots are different: so is the KV in them.                  *)
LEMMA KVRowDistinct ==
  ASSUME NEW k, NEW i \in Names, NEW pre, Len(pre) \in Nat, NEW rw, Len(rw) \in Nat, Len(rw) <= Len(i) + 1,
         KVRow(k, i, pre, rw)
  PROVE  Distinct(rw, Len(pre), Len(rw))
<1>1. Len(i) \in Nat
  BY PrefixOrder
<1>2. ASSUME NEW x \in Len(pre)+1..Len(rw) PROVE Len(k[rw[x]]) = IF x <= Len(i) THEN x ELSE 0
  <2>1. CASE x <= Len(i)
    <3>1. x \in 0..Len(i)
      BY <1>1, <2>1
    <3>2. Len(SubSeq(i, 1, x)) = x
      BY <3>1, Cuts
    <3>3. k[rw[x]] = SubSeq(i, 1, x)
      BY <2>1 DEF KVRow
    <3> QED
      BY <2>1, <3>2, <3>3
  <2>2. CASE ~(x <= Len(i))
    <3>1. k[rw[x]] = <<>> /\ Len(<<>>) = 0
      BY <2>2, EmptySeq DEF KVRow
    <3> QED
      BY <2>2, <3>1
  <2> QED
    BY <2>1, <2>2
<1>3. ASSUME NEW x \in Len(pre)+1..Len(rw), NEW y \in Len(pre)+1..Len(rw), rw[x] = rw[y] PROVE x = y
  <2>1. (IF x <= Len(i) THEN x ELSE 0) = IF y <= Len(i) THEN y ELSE 0
    BY <1>2, <1>3
  <2> QED
    BY <1>1, <2>1
<1> QED
  BY <1>3 DEF Distinct

(* A step moves slots between the free list, the cache and one request.    *)
LEMMA Repartition ==
  ASSUME NEW F, NEW C, NEW U, Partition(F, C, U), NEW F2, NEW C2, NEW U2, NEW r \in Reqs,
         \A q \in Reqs \ {r} : U2[q] = U[q],
         F2 \cap C2 = {}, F2 \cap U2[r] = {}, C2 \cap U2[r] = {},
         F2 \cup C2 \cup U2[r] = F \cup C \cup U[r]
  PROVE  Partition(F2, C2, U2)
<1> DEFINE all == F \cup C \cup U[r]
<1>1. all \subseteq Slots /\ F2 \subseteq all /\ C2 \subseteq all /\ U2[r] \subseteq all
  BY DEF Partition
<1>2. ASSUME NEW q \in Reqs \ {r} PROVE U2[q] \subseteq Slots /\ U2[q] \cap all = {}
  <2>1. U2[q] = U[q] /\ U[q] \cap F = {} /\ U[q] \cap C = {} /\ U[q] \cap U[r] = {} /\ U[q] \subseteq Slots
    BY <1>2 DEF Partition
  <2> QED
    BY <2>1
<1>3. ASSUME NEW s \in Slots PROVE s \in F2 \/ s \in C2 \/ \E q \in Reqs : s \in U2[q]
  <2>1. s \in F \/ s \in C \/ \E q \in Reqs : s \in U[q]
    BY DEF Partition
  <2>2. CASE s \in all
    BY <2>2
  <2>3. CASE s \notin all
    <3>1. PICK q \in Reqs \ {r} : s \in U[q]
      BY <2>1, <2>3
    <3> QED
      BY <3>1
  <2> QED
    BY <2>2, <2>3
<1>4. ASSUME NEW x \in Reqs, NEW q \in Reqs, x # q PROVE U2[x] \cap U2[q] = {}
  <2>1. CASE x # r /\ q # r
    BY <1>4, <2>1 DEF Partition
  <2>2. CASE x = r
    BY <1>1, <1>2, <1>4, <2>2
  <2>3. CASE q = r
    BY <1>1, <1>2, <1>4, <2>3
  <2> QED
    BY <2>1, <2>2, <2>3
<1>5. ASSUME NEW q \in Reqs PROVE U2[q] \subseteq Slots /\ U2[q] \cap F2 = {} /\ U2[q] \cap C2 = {}
  <2>1. CASE q = r
    BY <1>1, <2>1
  <2>2. CASE q # r
    BY <1>1, <1>2, <2>2
  <2> QED
    BY <2>1, <2>2
<1> QED
  BY <1>1, <1>3, <1>4, <1>5 DEF Partition

(* The step of r leaves the slots V to r, F2 free and C2 to the cache, and *)
(* changes no KV but that of r's own and of free slots.                    *)
Leaves(r, F2, C2, V) ==
  /\ free_slots' = F2 /\ TreeSet(tree') = C2
  /\ Own(phase'[r], prefix_indices'[r], row'[r], results'[r]) = V
  /\ F2 \cap C2 = {} /\ F2 \cap V = {} /\ C2 \cap V = {}
  /\ F2 \cup C2 \cup V = free_slots \cup TreeSet(tree) \cup Owned[r]
  /\ \A s \in Slots : s \notin F2 /\ s \notin V => kv'[s] = kv[s]

(* The own slots of a request in its row.                                  *)
LEMMA RowOwned ==
  ASSUME NEW ph, NEW pre, NEW rw \in Seq(Slots), NEW res, Len(pre) \in Nat,
         NEW j \in Len(pre)+1..Len(rw)
  PROVE  rw[j] \in Slots /\ rw[j] \in Own(ph, pre, rw, res)
<1>1. Len(rw) \in Nat
  BY LenProperties
<1>2. j \in 1..Len(rw)
  BY <1>1
<1>3. rw[j] \in Slots
  BY <1>2, ElementOfSeq
<1> QED
  BY <1>3 DEF Own, Part

(* It is enough to look at the slots of the request that takes the step.   *)
LEMMA MemoryFrame ==
  ASSUME WellFormed, MemoryRight, NEW r \in Reqs, OthersSame(r),
         NEW F2, NEW C2, NEW V, Leaves(r, F2, C2, V),
         TreeShape(tree'), KVTree(tree', kv), KVRow(kv', ids'[r], prefix_indices'[r], row'[r])
  PROVE  MemoryRight'
<1> DEFINE U == [q \in Reqs |-> Own(phase'[q], prefix_indices'[q], row'[q], results'[q])]
<1>1. U[r] = V /\ \A q \in Reqs \ {r} : U[q] = Owned[q]
  <2>1. ASSUME NEW q \in Reqs \ {r} PROVE U[q] = Owned[q]
    <3>1. /\ phase'[q] = phase[q] /\ results'[q] = results[q] /\ prefix_indices'[q] = prefix_indices[q]
          /\ row'[q] = row[q]
      BY <2>1 DEF OthersSame
    <3>2. U[q] = Own(phase[q], prefix_indices[q], row[q], results[q])
      BY <3>1, Zenon
    <3> QED
      BY <3>2, Zenon DEF Owned
  <2> QED
    BY <2>1, Zenon DEF Leaves
<1>2. Partition(F2, C2, U)
  <2>1. /\ Partition(free_slots, TreeSet(tree), Owned)
        /\ F2 \cap C2 = {} /\ F2 \cap V = {} /\ C2 \cap V = {}
        /\ F2 \cup C2 \cup V = free_slots \cup TreeSet(tree) \cup Owned[r]
    BY DEF MemoryRight, Leaves
  <2> HIDE DEF U
  <2>2. /\ F2 \cap U[r] = {} /\ C2 \cap U[r] = {}
        /\ F2 \cup C2 \cup U[r] = free_slots \cup TreeSet(tree) \cup Owned[r]
    BY <1>1, <2>1, Zenon
  <2> QED
    BY <1>1, <2>1, <2>2, Repartition
<1>3. KVTree(tree', kv')
  <2>1. ASSUME NEW q, IsPosition(tree', q) PROVE kv'[SlotOf(tree', q)] = q
    <3>1. kv[SlotOf(tree', q)] = q /\ SlotOf(tree', q) \in Slots
      BY <2>1, SlotTyped DEF KVTree
    <3>2. SlotOf(tree', q) \in C2
      BY <2>1, <3>1 DEF TreeSet, Leaves
    <3> QED
      BY <3>1, <3>2 DEF Leaves
  <2> QED
    BY <2>1 DEF KVTree
<1>4. ASSUME NEW q \in Reqs PROVE KVRow(kv', ids'[q], prefix_indices'[q], row'[q])
  <2>1. CASE q = r
    BY <2>1
  <2>2. CASE q # r
    <3>1. ids'[q] = ids[q] /\ prefix_indices'[q] = prefix_indices[q] /\ row'[q] = row[q]
      BY <2>2 DEF OthersSame
    <3>2. ASSUME NEW j \in Len(prefix_indices[q])+1..Len(row[q]) PROVE kv'[row[q][j]] = kv[row[q][j]]
      <4>1. row[q] \in Seq(Slots) /\ Len(prefix_indices[q]) \in Nat
        BY FieldsMean
      <4>2. row[q][j] \in Slots /\ row[q][j] \in Owned[q]
        BY <3>2, <4>1, RowOwned DEF Owned
      <4>3. row[q][j] \notin F2 /\ row[q][j] \notin V
        BY <1>1, <1>2, <2>2, <4>2 DEF Partition
      <4> QED
        BY <4>2, <4>3 DEF Leaves
    <3>3. KVRow(kv, ids[q], prefix_indices[q], row[q])
      BY DEF MemoryRight
    <3>4. KVRow(kv', ids[q], prefix_indices[q], row[q])
      BY <3>2, <3>3 DEF KVRow
    <3> QED
      BY <3>1, <3>4, Zenon
  <2> QED
    BY <2>1, <2>2
<1>5. Partition(free_slots', TreeSet(tree'), U)
  BY <1>2, Zenon DEF Leaves
<1> QED
  BY <1>3, <1>4, <1>5 DEF MemoryRight, Owned

(* A request without a row owns nothing.                                   *)
LEMMA NoRow ==
  ASSUME NEW ph, NEW pre, Len(pre) \in Nat, NEW res, NEW k, NEW i
  PROVE  /\ ph # "finished" => Own(ph, pre, <<>>, res) = {}
         /\ KVRow(k, i, pre, <<>>)
<1>1. Len(<<>>) = 0
  BY EmptySeq
<1>2. Len(pre)+1..Len(<<>>) = {}
  BY <1>1
<1> QED
  BY <1>2 DEF Own, Part, KVRow

(* The disjoint parts.                                                     *)
LEMMA Disjoint ==
  ASSUME MemoryRight, NEW r \in Reqs
  PROVE  /\ free_slots \cap TreeSet(tree) = {} /\ free_slots \cap Owned[r] = {}
         /\ TreeSet(tree) \cap Owned[r] = {} /\ Owned[r] \subseteq Slots
         /\ free_slots \subseteq Slots /\ TreeSet(tree) \subseteq Slots
         /\ KVTree(tree, kv) /\ KVRow(kv, ids[r], prefix_indices[r], row[r])
BY DEF MemoryRight, Partition

(* A step that moves no slot and computes no KV.                           *)
LEMMA MemoryQuiet ==
  ASSUME WellFormed, MemoryRight, NEW r \in Reqs, OthersSame(r),
         TreeShape(tree'), SameSlots(tree, tree'), UNCHANGED <<free_slots, kv>>,
         Own(phase'[r], prefix_indices'[r], row'[r], results'[r]) = Owned[r],
         KVRow(kv, ids'[r], prefix_indices'[r], row'[r])
  PROVE  MemoryRight'
<1>1. TreeSet(tree') = TreeSet(tree) /\ KVTree(tree', kv)
  BY Disjoint, SetSame
<1>2. Leaves(r, free_slots, TreeSet(tree), Owned[r])
  BY <1>1, Disjoint DEF Leaves
<1>3. KVRow(kv', ids'[r], prefix_indices'[r], row'[r])
  BY Zenon
<1> QED
  BY <1>1, <1>2, <1>3, MemoryFrame

(* The same for a request that has no row yet.                             *)
LEMMA MemoryIdle ==
  ASSUME WellFormed, MemoryRight, NEW r \in Reqs, OthersSame(r),
         TreeShape(tree'), SameSlots(tree, tree'), UNCHANGED <<free_slots, kv>>,
         row[r] = <<>>, row'[r] = <<>>, phase[r] # "finished", phase'[r] # "finished",
         Len(prefix_indices'[r]) \in Nat
  PROVE  MemoryRight'
<1>1. Len(prefix_indices[r]) \in Nat
  BY FieldsMean
<1>2. Owned[r] = {}
  BY <1>1, NoRow DEF Owned
<1>3. PICK ph, i, pre, res : ph = phase'[r] /\ i = ids'[r] /\ pre = prefix_indices'[r] /\ res = results'[r]
  OBVIOUS
<1>4. Own(ph, pre, <<>>, res) = {} /\ KVRow(kv, i, pre, <<>>)
  BY <1>3, NoRow
<1>5. /\ Own(phase'[r], prefix_indices'[r], row'[r], results'[r]) = Owned[r]
      /\ KVRow(kv, ids'[r], prefix_indices'[r], row'[r])
  BY <1>2, <1>3, <1>4, Zenon
<1> QED
  BY <1>5, MemoryQuiet

(* The steps of r before it runs.                                          *)
LEMMA MemoryBefore ==
  ASSUME WellFormed, WellFormed', MemoryRight, NEW r \in Reqs,
         \/ \E prompt \in Prompts : Receive(r, prompt)
         \/ Peek(r)
         \/ \E n \in 1..ChunkSize : Admit(r, n) \/ AddChunked(r, n)
  PROVE  MemoryRight'
<1>0. /\ OthersSame(r) /\ TreeShape(tree') /\ Len(prefix_indices'[r]) \in Nat
      /\ RequestOK(phase[r], ids[r], fill_len[r], prefix_indices[r], last_node[r], row[r], results[r])
  <2>1. OthersSame(r)
    BY OthersAlone DEF OneStep
  <2>2. TreeShape(tree') /\ prefix_indices'[r] \in Seq(Slots)
    BY DEF WellFormed
  <2> QED
    BY <2>1, <2>2, FieldsMean, LenProperties
<1>s. SameSlots(tree, tree)
  BY DEF SameSlots
<1>1. ASSUME NEW prompt \in Prompts, Receive(r, prompt) PROVE MemoryRight'
  <2>1. /\ UNCHANGED <<tree, free_slots, kv, row>> /\ phase[r] = "idle" /\ phase'[r] = "waiting"
    BY <1>1 DEF Receive, cacheVars, WellFormed
  <2>2. row[r] = <<>>
    BY <1>0, <2>1 DEF RequestOK
  <2> QED
    BY <1>0, <1>s, <2>1, <2>2, MemoryIdle
<1>2. ASSUME Peek(r) PROVE MemoryRight'
  <2>1. UNCHANGED <<free_slots, kv, row, phase, ids, prefix_indices, results>>
    BY <1>2 DEF Peek
  <2>2. SameSlots(tree, tree')
    BY <1>2, PeekMeans DEF SplitsNode
  <2>3. Own(phase[r], prefix_indices[r], row[r], results[r]) = Owned[r]
    BY DEF Owned
  <2>4. /\ Own(phase'[r], prefix_indices'[r], row'[r], results'[r]) = Owned[r]
        /\ KVRow(kv, ids'[r], prefix_indices'[r], row'[r])
    BY <2>1, <2>3, Disjoint, Zenon
  <2> QED
    BY <1>0, <2>1, <2>2, <2>4, MemoryQuiet
<1>3. ASSUME NEW n \in 1..ChunkSize, Admit(r, n) PROVE MemoryRight'
  <2>1. UNCHANGED <<free_slots, kv, row>> /\ phase[r] = "waiting" /\ phase'[r] = "admitted"
    BY <1>3 DEF Admit, WellFormed
  <2>2. PICK m : m = MatchPrefix(tree, MaxPrefixIds(r))
    OBVIOUS
  <2>3. Matches(tree, MaxPrefixIds(r), m) /\ SameSlots(m.tree, tree')
    BY <1>3, <2>2, AdmitMeans
  <2>4. SameSlots(tree, tree')
    BY <2>3 DEF Matches, SplitsNode, SameSlots
  <2>5. row[r] = <<>>
    BY <1>0, <2>1 DEF RequestOK
  <2> QED
    BY <1>0, <2>1, <2>4, <2>5, MemoryIdle
<1>4. ASSUME NEW n \in 1..ChunkSize, AddChunked(r, n) PROVE MemoryRight'
  <2>1. UNCHANGED <<tree, free_slots, kv, row>> /\ phase[r] = "chunked" /\ phase'[r] = "admitted"
    BY <1>4 DEF AddChunked, cacheVars, WellFormed
  <2>2. row[r] = <<>>
    BY <1>0, <2>1 DEF RequestOK
  <2> QED
    BY <1>0, <1>s, <2>1, <2>2, MemoryIdle
<1> QED
  BY <1>1, <1>2, <1>3, <1>4

(* What an allocation takes is of the free and of the evicted slots.       *)
LEMMA AllocMoves ==
  ASSUME WellFormed, WellFormed', MemoryRight, NEW n \in Nat, NEW E, NEW new, Allocates(n, E, new), NEW r \in Reqs
  PROVE  LET N == Part(new, 0, n)
         IN  /\ free_slots' \cap TreeSet(tree') = {} /\ free_slots' \cap N = {} /\ TreeSet(tree') \cap N = {}
             /\ free_slots' \cup TreeSet(tree') \cup N = free_slots \cup TreeSet(tree)
             /\ Owned[r] \cap free_slots' = {} /\ Owned[r] \cap TreeSet(tree') = {} /\ Owned[r] \cap N = {}
             /\ KVTree(tree', kv)
<1> DEFINE N == Part(new, 0, n)
           NS == NodeSlots(tree, E)
           C == TreeSet(tree)
<1>1. /\ Deletes(tree, tree', E)
      /\ new \in Seq(Slots) /\ Len(new) = n
      /\ \A i \in 1..n : new[i] \in free_slots \cup NS
      /\ \A s : s \in free_slots' <=> s \in free_slots \cup NS /\ \A i \in 1..n : s # new[i]
  BY DEF Allocates
<1>2. TreeSet(tree') = C \ NS /\ NS \subseteq C /\ KVTree(tree', kv)
  BY <1>1, Disjoint, SetDeleted DEF WellFormed
<1>3. free_slots \cap C = {} /\ Owned[r] \cap free_slots = {} /\ Owned[r] \cap C = {}
  BY Disjoint
<1>4. \A i \in 1..n : new[i] \in Slots
  BY <1>1, ElementOfSeq
<1>5. \A s : s \in N <=> \E i \in 1..n : s = new[i]
  BY <1>4 DEF Part
<1>6. N \subseteq free_slots \cup NS /\ free_slots' = (free_slots \cup NS) \ N
  <2> HIDE DEF NS, N
  <2> QED
    BY <1>1, <1>5
<1> HIDE DEF N, NS, C
<1>7. /\ free_slots' \cap TreeSet(tree') = {} /\ free_slots' \cap N = {} /\ TreeSet(tree') \cap N = {}
  BY <1>2, <1>3, <1>6
<1>8. free_slots' \cup TreeSet(tree') \cup N = free_slots \cup C
  BY <1>2, <1>3, <1>6
<1>9. Owned[r] \cap free_slots' = {} /\ Owned[r] \cap TreeSet(tree') = {} /\ Owned[r] \cap N = {}
  BY <1>2, <1>3, <1>6
<1> QED
  BY <1>2, <1>7, <1>8, <1>9 DEF N, C

(* Parts of a concatenation.                                               *)
LEMMA PartShifted ==
  ASSUME NEW pre, NEW new, NEW u, NEW x \in Nat, NEW n \in Nat,
         \A k \in 1..x+n : u[k] = IF k <= x THEN pre[k] ELSE new[k - x]
  PROVE  Part(u, x, x + n) = Part(new, 0, n)
<1>1. ASSUME NEW s, NEW k \in x+1..x+n, s = u[k] PROVE \E i \in 1..n : s = new[i]
  <2>1. k - x \in 1..n /\ u[k] = new[k - x]
    OBVIOUS
  <2> QED
    BY <1>1, <2>1
<1>2. ASSUME NEW s, NEW i \in 1..n, s = new[i] PROVE \E k \in x+1..x+n : s = u[k]
  <2>1. x + i \in x+1..x+n /\ u[x + i] = new[(x + i) - x] /\ (x + i) - x = i
    OBVIOUS
  <2> QED
    BY <1>2, <2>1
<1>3. \A s : (\E k \in x+1..x+n : s = u[k]) <=> \E i \in 1..n : s = new[i]
  BY <1>1, <1>2
<1>4. 0+1..n = 1..n
  OBVIOUS
<1> QED
  BY <1>3, <1>4 DEF Part

(* prepare_for_extend takes new slots for r.                               *)
LEMMA MemoryExtend ==
  ASSUME WellFormed, WellFormed', MemoryRight, NEW r \in Reqs, PrepareForExtend(r)
  PROVE  MemoryRight'
<1>1. PICK n, E, new : Allocates(n, E, new) /\ Extends(r, n, new)
  BY ExtendMeans
<1>2. 0 < fill_len[r] /\ Len(prefix_indices[r]) <= fill_len[r] /\ fill_len[r] <= Len(ids[r])
  BY ExtendMeans
<1>3. PICK pre \in Seq(Slots) : pre = prefix_indices[r]
  BY FieldsMean
<1>4. PICK x \in Nat : x = Len(pre)
  BY <1>3, LenProperties
<1>5. PICK i \in Names : i = ids[r]
  BY FieldsMean
<1>6. /\ n \in Nat /\ n = fill_len[r] - x /\ fill_len[r] \in Nat /\ Len(i) \in Nat
      /\ row' = [row EXCEPT ![r] = pre \o new]
      /\ \A j \in 1..n : \A q : CutTo(q, i, x + j) => kv'[new[j]] = q
      /\ \A s \in Slots : s \notin free_slots' /\ (\A j \in 1..n : s # new[j]) => kv'[s] = kv[s]
  BY <1>1, <1>3, <1>4, <1>5, FieldsMean DEF Extends
<1>7. PICK u : Joins(u, pre, new) /\ row'[r] = u
  BY <1>6 DEF Joins, WellFormed
<1>8. new \in Seq(Slots) /\ Len(new) = n
  BY <1>1 DEF Allocates
<1>9. u \in Seq(Slots) /\ Len(u) = x + n /\ \A k \in 1..x+n : u[k] = IF k <= x THEN pre[k] ELSE new[k - x]
  <2>1. Joins(u, pre, new) /\ Len(pre) = x /\ n \in Nat /\ new \in Seq(Slots) /\ Len(new) = n
    BY <1>4, <1>6, <1>7, <1>8
  <2> QED
    BY <1>3, <1>4, <2>1, Concatenated, SMTT(30)
<1>10. Part(u, x, x + n) = Part(new, 0, n)
  <2>1. n \in Nat /\ \A k \in 1..x+n : u[k] = IF k <= x THEN pre[k] ELSE new[k - x]
    BY <1>6, <1>9
  <2> QED
    BY <2>1, PartShifted, SMTT(30)
<1>11. /\ phase[r] = "admitted" /\ phase'[r] \in {"chunk", "batch"}
       /\ UNCHANGED <<ids, prefix_indices>>
  BY DEF PrepareForExtend, WellFormed
<1>12. Owned[r] = {}
  <2>1. row[r] = <<>>
    BY <1>11, FieldsMean DEF RequestOK
  <2>2. Len(prefix_indices[r]) \in Nat
    BY FieldsMean
  <2> QED
    BY <1>11, <2>1, <2>2, NoRow DEF Owned
<1> DEFINE N == Part(new, 0, n)
<1>13. Own(phase'[r], pre, u, results'[r]) = N
  BY <1>4, <1>9, <1>10, <1>11 DEF Own
<1>14. /\ free_slots' \cap TreeSet(tree') = {} /\ free_slots' \cap N = {} /\ TreeSet(tree') \cap N = {}
       /\ free_slots' \cup TreeSet(tree') \cup N = free_slots \cup TreeSet(tree)
       /\ KVTree(tree', kv)
  BY <1>1, <1>6, AllocMoves
<1>15. \A s \in Slots : s \notin free_slots' /\ s \notin N => kv'[s] = kv[s]
  <2>1. \A s \in Slots : s \notin N => \A j \in 1..n : s # new[j]
    BY DEF Part
  <2> QED
    BY <1>6, <2>1
<1>16. Leaves(r, free_slots', TreeSet(tree'), N)
  <2>1. Own(phase'[r], prefix_indices'[r], row'[r], results'[r]) = N
    BY <1>3, <1>7, <1>11, <1>13, Zenon
  <2>2. free_slots' \cup TreeSet(tree') \cup N = free_slots \cup TreeSet(tree) \cup Owned[r]
    BY <1>12, <1>14
  <2> QED
    BY <1>14, <1>15, <2>1, <2>2 DEF Leaves
<1>17. KVRow(kv', i, pre, u)
  <2>1. ASSUME NEW j \in Len(pre)+1..Len(u) PROVE kv'[u[j]] = IF j <= Len(i) THEN SubSeq(i, 1, j) ELSE <<>>
    <3>0. j \in x+1..x+n /\ n \in Nat /\ x + n <= Len(i) /\ Len(i) \in Nat
      <4>1. Len(pre) = x /\ Len(u) = x + n
        BY <1>4, <1>9
      <4>2. fill_len[r] <= Len(i) /\ fill_len[r] \in Nat /\ Len(i) \in Nat /\ n \in Nat /\ n = fill_len[r] - x
        BY <1>2, <1>5, <1>6
      <4> QED
        BY <2>1, <4>1, <4>2
    <3>1. /\ j - x \in 1..n /\ u[j] = new[j - x] /\ j <= Len(i) /\ x + (j - x) = j
      <4>1. j - x \in 1..n /\ j \in 1..x+n /\ ~(j <= x) /\ j <= Len(i) /\ x + (j - x) = j
        BY <3>0
      <4> QED
        BY <1>9, <4>1
    <3>2. CutTo(SubSeq(i, 1, j), i, x + (j - x))
      BY <3>1 DEF CutTo
    <3> QED
      BY <1>6, <3>1, <3>2
  <2> QED
    BY <2>1 DEF KVRow
<1>18. KVRow(kv', ids'[r], prefix_indices'[r], row'[r])
  BY <1>3, <1>5, <1>7, <1>11, <1>17, Zenon
<1>19. OthersSame(r) /\ TreeShape(tree')
  BY OthersAlone DEF OneStep, WellFormed
<1> QED
  BY <1>14, <1>16, <1>18, <1>19, MemoryFrame

(* u is the row rw of x slots and one more.                                *)
Grows(u, rw, x, slot) == Len(rw) = x /\ Len(u) = x + 1 /\ u[x + 1] = slot /\ \A j \in 1..x : u[j] = rw[j]

(* A row and its own slots, with one more.                                 *)
LEMMA RowGrows ==
  ASSUME NEW ph, ph # "finished", NEW pre, NEW rw, NEW x \in Nat, NEW a \in Nat, Len(pre) = a, a <= x,
         NEW slot \in Slots, NEW u, Grows(u, rw, x, slot), NEW res, NEW res2
  PROVE  Own(ph, pre, u, res2) = Own(ph, pre, rw, res) \cup {slot}
<1>1. \A s : (\E i \in a+1..x+1 : s = u[i]) <=> (\E i \in a+1..x : s = rw[i]) \/ s = slot
  <2>1. \A i \in a+1..x : u[i] = rw[i] /\ i \in a+1..x+1
    BY DEF Grows
  <2>2. \A i \in a+1..x+1 : i \in a+1..x \/ i = x + 1
    OBVIOUS
  <2>3. x + 1 \in a+1..x+1
    OBVIOUS
  <2> QED
    BY <2>1, <2>2, <2>3 DEF Grows
<1> QED
  BY <1>1 DEF Own, Part, Grows

(* prepare_for_decode takes one new slot for r.                            *)
LEMMA MemoryDecode ==
  ASSUME WellFormed, WellFormed', MemoryRight, ReadsRight, NEW r \in Reqs, PrepareForDecode(r)
  PROVE  MemoryRight'
<1>1. PICK E, new : Allocates(1, E, new) /\ Decodes(r, new[1])
  BY DecodeMeans
<1>2. PICK slot \in Slots : slot = new[1]
  BY <1>1 DEF Decodes
<1>3. /\ slot \notin free_slots'
      /\ row' = [row EXCEPT ![r] = Append(@, slot)]
      /\ kv'[slot] = IF results[r] = <<>> THEN ids[r] ELSE <<>>
      /\ \A s \in Slots : s \notin free_slots' /\ s # slot => kv'[s] = kv[s]
  BY <1>1, <1>2 DEF Decodes
<1>4. /\ phase[r] = "batch" /\ phase' = phase /\ ids' = ids /\ prefix_indices' = prefix_indices
      /\ Len(results[r]) <= 1
  BY OverlapBoolean, FieldsMean DEF PrepareForDecode
<1>5. PICK rw \in Seq(Slots), x \in Nat : rw = row[r] /\ x = Len(rw)
  BY FieldsMean
<1>6. PICK u : Appends(u, rw, slot) /\ row'[r] = u
  BY <1>3, <1>5 DEF Appends, WellFormed
<1>7. u \in Seq(Slots) /\ Len(u) = x + 1 /\ u[x + 1] = slot /\ \A j \in 1..x : u[j] = rw[j]
  BY <1>5, <1>6, Appended
<1>8. PICK pre \in Seq(Slots), a \in Nat : pre = prefix_indices[r] /\ a = Len(pre)
  BY FieldsMean
<1>9. PICK i \in Names, l \in Nat : i = ids[r] /\ l = Len(i)
  BY FieldsMean
<1>10. a <= x
  <2>1. RowReads("batch", pre, rw)
    BY <1>4, <1>5, <1>8, Zenon DEF ReadsRight, RequestReads
  <2> QED
    BY <1>5, <1>8, <2>1 DEF RowReads
<1>11. PICK y \in Nat : y = Len(results[r])
  BY FieldsMean
<1>12. x = (l - 1) + y
  BY <1>4, <1>5, <1>9, <1>11, BatchFields
<1>13. Owned[r] = Own("batch", pre, rw, results[r])
  BY <1>4, <1>5, <1>8, Zenon DEF Owned
<1>14. Own("batch", pre, u, results'[r]) = Owned[r] \cup {slot}
  <2>1. "batch" # "finished" /\ Len(pre) = a /\ a <= x /\ Grows(u, rw, x, slot)
    BY <1>5, <1>7, <1>8, <1>10 DEF Grows
  <2>2. Own("batch", pre, u, results'[r]) = Own("batch", pre, rw, results[r]) \cup {slot}
    BY <2>1, RowGrows
  <2> QED
    BY <1>13, <2>2, Zenon
<1> DEFINE N == Part(new, 0, 1)
<1>15. N = {slot}
  <2>1. \A k \in 0+1..1 : k = 1
    OBVIOUS
  <2>2. 1 \in 0+1..1
    OBVIOUS
  <2> QED
    BY <1>2, <2>1, <2>2 DEF Part
<1>16. /\ free_slots' \cap TreeSet(tree') = {} /\ free_slots' \cap N = {} /\ TreeSet(tree') \cap N = {}
       /\ free_slots' \cup TreeSet(tree') \cup N = free_slots \cup TreeSet(tree)
       /\ Owned[r] \cap free_slots' = {} /\ Owned[r] \cap TreeSet(tree') = {} /\ Owned[r] \cap N = {}
       /\ KVTree(tree', kv)
  BY <1>1, AllocMoves
<1> HIDE DEF N
<1>17. PICK V : V = Owned[r] \cup {slot}
  OBVIOUS
<1>18. Leaves(r, free_slots', TreeSet(tree'), V)
  <2>1. Own(phase'[r], prefix_indices'[r], row'[r], results'[r]) = V
    BY <1>4, <1>6, <1>8, <1>14, <1>17, Zenon
  <2>2. /\ free_slots' \cap V = {} /\ TreeSet(tree') \cap V = {}
        /\ free_slots' \cup TreeSet(tree') \cup V = free_slots \cup TreeSet(tree) \cup Owned[r]
    BY <1>15, <1>16, <1>17
  <2>3. \A s \in Slots : s \notin free_slots' /\ s \notin V => kv'[s] = kv[s]
    BY <1>3, <1>17
  <2> QED
    BY <1>16, <2>1, <2>2, <2>3 DEF Leaves
<1>19. KVRow(kv', i, pre, u)
  <2>1. ASSUME NEW j \in Len(pre)+1..Len(u) PROVE kv'[u[j]] = IF j <= Len(i) THEN SubSeq(i, 1, j) ELSE <<>>
    <3>0. j \in a+1..x+1 /\ Len(i) = l
      BY <1>7, <1>8, <1>9, <2>1
    <3>1. CASE j <= x
      <4>1. j \in a+1..x /\ j \in 1..x
        BY <3>0, <3>1
      <4>2. u[j] = rw[j]
        BY <1>7, <4>1
      <4>3. KVRow(kv, i, pre, rw)
        BY <1>5, <1>8, <1>9, Disjoint, Zenon
      <4>4. j \in Len(pre)+1..Len(rw)
        BY <1>5, <1>8, <4>1
      <4>5. kv[rw[j]] = IF j <= Len(i) THEN SubSeq(i, 1, j) ELSE <<>>
        BY <4>3, <4>4 DEF KVRow
      <4>6. rw[j] \in Slots /\ rw[j] \in Owned[r]
        <5>1. Len(pre) \in Nat
          BY <1>8
        <5>2. rw[j] \in Slots /\ rw[j] \in Own("batch", pre, rw, results[r])
          BY <4>4, <5>1, RowOwned
        <5> QED
          BY <1>13, <5>2
      <4>7. rw[j] \notin free_slots' /\ rw[j] # slot
        BY <1>15, <1>16, <4>6
      <4>8. kv'[rw[j]] = kv[rw[j]]
        BY <1>3, <4>6, <4>7
      <4> QED
        BY <4>2, <4>5, <4>8
    <3>2. CASE j = x + 1 /\ y = 0
      <4>1. results[r] = <<>> /\ j = l /\ j <= Len(i)
        <5>1. results[r] \in Seq(Results) /\ Len(results[r]) = 0
          BY <1>11, <3>2, FieldsMean
        <5>2. results[r] = <<>>
          BY <5>1, LenProperties, EmptySeq
        <5> QED
          BY <1>12, <3>0, <3>2, <5>2
      <4>2. kv'[u[j]] = i
        BY <1>3, <1>7, <1>9, <3>2, <4>1
      <4>3. SubSeq(i, 1, j) = i
        <5>1. j \in 0..Len(i) /\ IsPrefix(i, i) /\ Len(i) = j
          BY <1>9, <4>1, PrefixOrder
        <5> QED
          BY <5>1, Cuts, Zenon
      <4> QED
        BY <4>1, <4>2, <4>3
    <3>3. CASE j = x + 1 /\ y # 0
      <4>1. results[r] # <<>>
        BY <1>11, <3>3, EmptySeq
      <4>2. ~(j <= Len(i))
        BY <1>12, <3>0, <3>3
      <4> QED
        BY <1>3, <1>7, <3>3, <4>1, <4>2
    <3> QED
      BY <3>0, <3>1, <3>2, <3>3
  <2> QED
    BY <2>1 DEF KVRow
<1>20. KVRow(kv', ids'[r], prefix_indices'[r], row'[r])
  BY <1>4, <1>6, <1>8, <1>9, <1>19, Zenon
<1>21. OthersSame(r) /\ TreeShape(tree')
  BY OthersAlone DEF OneStep, WellFormed
<1> QED
  BY <1>16, <1>18, <1>20, <1>21, MemoryFrame

(* Before r publishes the first f tokens of its row.                       *)
Publishing(r, f, key, value, t, n) ==
  /\ phase[r] \in {"chunk", "batch"} /\ f \in Nat
  /\ Len(prefix_indices[r]) <= f /\ f <= Len(ids[r]) /\ f <= Len(row[r]) /\ Len(row[r]) <= Len(ids[r]) + 1
  /\ Publishes(r, f, key, value, t, n)

(* The cache already has the prefix that r reads.                          *)
LEMMA PrefixPublished ==
  ASSUME WellFormed, ReadsRight, NEW r \in Reqs, NEW f, NEW key, NEW value, NEW t, NEW n,
         Publishing(r, f, key, value, t, n)
  PROVE  n \in Nat /\ Len(prefix_indices[r]) <= n /\ n <= f /\ f \in Nat
<1>1. /\ key \in Names /\ Len(key) = f /\ IsPrefix(key, ids[r]) /\ n \in 0..Len(key) /\ f \in Nat
      /\ \A q : IsPosition(tree, q) /\ IsPrefix(q, key) => Len(q) <= n
  BY DEF Publishing, Publishes, Hands, Caches, Inserts
<1>2. PICK node \in Names : node = last_node[r]
  BY FieldsMean
<1>3. ReadsPath(tree, node, prefix_indices[r]) /\ IsPrefix(node, ids[r])
  BY <1>2, Zenon DEF ReadsRight, RequestReads
<1>4. Len(prefix_indices[r]) = Len(node) /\ (node = <<>> \/ node \in DOMAIN tree)
  BY <1>3 DEF ReadsPath
<1>5. IsPrefix(node, key)
  <2>1. ids[r] \in Names /\ Len(node) <= Len(key)
    BY <1>1, <1>4, FieldsMean DEF Publishing
  <2> QED
    BY <1>1, <1>2, <1>3, <2>1, PrefixOrder
<1>6. CASE node = <<>>
  BY <1>1, <1>4, <1>6, EmptySeq
<1>7. CASE node \in DOMAIN tree
  <2>1. IsPosition(tree, node)
    BY <1>7, NodePositions DEF WellFormed
  <2> QED
    BY <1>1, <1>4, <1>5, <2>1
<1> QED
  BY <1>4, <1>6, <1>7

(* Of the slots r owned, those of tokens the cache already had are freed,  *)
(* those up to f become the cache's, and the rest stays in the row.        *)
LEMMA PublishMoves ==
  ASSUME WellFormed, MemoryRight, ReadsRight, NEW r \in Reqs, NEW f, NEW key, NEW value, NEW t, NEW n,
         Publishing(r, f, key, value, t, n), NEW rest, rest = Part(row[r], f, Len(row[r]))
  PROVE  /\ free_slots' \cap TreeSet(tree') = {} /\ free_slots' \cap rest = {} /\ TreeSet(tree') \cap rest = {}
         /\ free_slots' \cup TreeSet(tree') \cup rest = free_slots \cup TreeSet(tree) \cup Owned[r]
         /\ KVTree(tree', kv) /\ rest \subseteq Owned[r] /\ rest \subseteq Slots
<1>1. n \in Nat /\ Len(prefix_indices[r]) <= n /\ n <= f /\ f \in Nat
  BY PrefixPublished
<1>2. PICK rw \in Seq(Slots), x \in Nat : rw = row[r] /\ x = Len(rw)
  BY FieldsMean
<1>3. PICK pre \in Seq(Slots), a \in Nat : pre = prefix_indices[r] /\ a = Len(pre)
  BY FieldsMean
<1>4. PICK i \in Names, l \in Nat : i = ids[r] /\ l = Len(i)
  BY FieldsMean
<1>5. a <= n /\ n <= f /\ f <= x /\ f <= l /\ x <= l + 1
  BY <1>1, <1>2, <1>3, <1>4 DEF Publishing
<1>6. /\ key \in Names /\ Len(key) = f /\ IsPrefix(key, i)
      /\ value \in Seq(Slots) /\ Len(value) = f /\ \A j \in 1..f : value[j] = rw[j]
      /\ Inserts(tree, t, key, value, n) /\ SameSlots(t, tree')
      /\ free_slots' = free_slots \cup Duplicates(r, n)
  BY <1>2, <1>4 DEF Publishing, Publishes, Hands, Caches
<1> DEFINE A == Part(rw, a, n)
           B == Part(rw, n, f)
           C == TreeSet(tree)
<1>7. KVRow(kv, i, pre, rw) /\ KVTree(tree, kv)
  BY <1>2, <1>3, <1>4, Disjoint, Zenon
<1>8. /\ Part(rw, a, x) = A \cup Part(rw, n, x) /\ A \cap Part(rw, n, x) = {}
      /\ Part(rw, n, x) = B \cup rest /\ B \cap rest = {}
  <2>0. rest = Part(rw, f, x)
    BY <1>2
  <2>1. Distinct(rw, a, x)
    <3>1. Len(pre) \in Nat /\ Len(rw) \in Nat /\ Len(rw) <= Len(i) + 1
      BY <1>2, <1>3, <1>4, <1>5
    <3>2. Distinct(rw, Len(pre), Len(rw))
      BY <1>7, <3>1, KVRowDistinct
    <3> QED
      BY <1>2, <1>3, <3>2, Zenon
  <2>2. n <= x
    BY <1>1, <1>5
  <2>3. /\ IsUnion(Part(rw, a, x), Part(rw, a, n), Part(rw, n, x))
        /\ Distinct(rw, n, x) /\ Part(rw, a, n) \cap Part(rw, n, x) = {}
    BY <1>1, <1>5, <2>1, <2>2, PartsOf
  <2>4. IsUnion(Part(rw, n, x), Part(rw, n, f), Part(rw, f, x)) /\ Part(rw, n, f) \cap Part(rw, f, x) = {}
    BY <1>1, <1>5, <2>2, <2>3, PartsOf
  <2> QED
    BY <2>0, <2>3, <2>4, Zenon DEF IsUnion
<1>9. Owned[r] = Part(rw, a, x)
  <2>1. phase[r] # "finished"
    BY DEF Publishing
  <2>2. Owned[r] = Own(phase[r], pre, rw, results[r])
    BY <1>2, <1>3, Zenon DEF Owned
  <2> QED
    BY <1>2, <1>3, <2>1, <2>2 DEF Own
<1>10. Duplicates(r, n) = A
  <2>1. \A s : s \in Duplicates(r, n) <=> \E j \in a+1..n : s = rw[j]
    BY <1>1, <1>2, <1>3, <1>5, DuplicatesMeans
  <2>2. Duplicates(r, n) \subseteq Slots
    BY <1>1, <1>2, <1>5, DuplicatesMeans
  <2> QED
    BY <2>1, <2>2 DEF Part
<1>11. TreeSet(tree') = C \cup B
  <2>1. IsUnion(TreeSet(t), TreeSet(tree), Part(value, n, Len(key)))
    BY <1>1, <1>6, SetInserted
  <2>2. Part(value, n, f) = B
    <3>1. \A j \in n+1..f : value[j] = rw[j]
      BY <1>1, <1>6
    <3> QED
      BY <3>1 DEF Part
  <2>3. TreeSet(tree') = TreeSet(t)
    BY <1>6, SetSame
  <2> QED
    BY <1>6, <2>1, <2>2, <2>3, Zenon DEF IsUnion
<1>12. KVTree(t, kv)
  <2>1. ASSUME NEW q, IsPosition(t, q) PROVE kv[SlotOf(t, q)] = q
    <3>1. CASE IsPosition(tree, q)
      <4>1. SlotOf(t, q) = SlotOf(tree, q)
        BY <1>6, <3>1 DEF Inserts
      <4> QED
        BY <1>7, <3>1, <4>1 DEF KVTree
    <3>2. CASE ~IsPosition(tree, q)
      <4>1. q \in Names /\ IsPrefix(q, key) /\ Len(q) > n /\ SlotOf(t, q) = value[Len(q)]
        BY <1>6, <2>1, <3>2 DEF Inserts
      <4>2. Len(q) \in Nat /\ Len(q) <= f /\ IsPrefix(q, i)
        BY <1>6, <4>1, PrefixOrder
      <4>3. Len(q) \in 1..f /\ Len(q) \in a+1..x /\ Len(q) <= l /\ Len(q) \in 0..l
        BY <1>1, <1>5, <4>1, <4>2
      <4>4. q = SubSeq(i, 1, Len(q))
        BY <1>4, <4>1, <4>2, <4>3, Cuts
      <4>5. kv[rw[Len(q)]] = SubSeq(i, 1, Len(q))
        BY <1>2, <1>3, <1>4, <1>7, <4>3 DEF KVRow
      <4> QED
        BY <1>6, <4>1, <4>3, <4>4, <4>5
    <3> QED
      BY <3>1, <3>2
  <2> QED
    BY <2>1 DEF KVTree
<1>13. KVTree(tree', kv)
  BY <1>6, <1>12, SetSame
<1>14. /\ free_slots \cap C = {} /\ free_slots \cap Owned[r] = {} /\ C \cap Owned[r] = {}
       /\ Owned[r] \subseteq Slots
  BY Disjoint
<1> HIDE DEF A, B, C
<1>15. Owned[r] = A \cup B \cup rest /\ A \cap B = {} /\ A \cap rest = {} /\ B \cap rest = {}
  BY <1>8, <1>9
<1>16. free_slots' = free_slots \cup A
  BY <1>6, <1>10
<1>17. /\ free_slots' \cap TreeSet(tree') = {} /\ free_slots' \cap rest = {} /\ TreeSet(tree') \cap rest = {}
  BY <1>11, <1>14, <1>15, <1>16
<1>18. free_slots' \cup TreeSet(tree') \cup rest = free_slots \cup C \cup Owned[r]
  BY <1>11, <1>15, <1>16
<1> QED
  BY <1>13, <1>14, <1>15, <1>17, <1>18 DEF C

(* The KV of rows depends on their own slots only.                         *)
LEMMA KVRowSame ==
  ASSUME NEW k, NEW i, NEW pre, NEW rw, KVRow(k, i, pre, rw),
         NEW k2, \A j \in Len(pre)+1..Len(rw) : k2[rw[j]] = k[rw[j]]
  PROVE  KVRow(k2, i, pre, rw)
BY DEF KVRow

(* The lengths of a request whose result comes.                            *)
LEMMA BatchLengths ==
  ASSUME WellFormed, NEW r \in Reqs, phase[r] = "batch", results[r] # <<>>
  PROVE  /\ Len(prefix_indices[r]) <= Len(ids[r]) /\ Len(row[r]) <= Len(ids[r]) + 1
         /\ Len(prefix_indices[r]) <= fill_len[r] /\ fill_len[r] <= Len(ids[r]) /\ fill_len[r] <= Len(row[r])
<1>1. PICK a, f, l, x, y \in Nat : /\ a = Len(prefix_indices[r]) /\ f = fill_len[r] /\ l = Len(ids[r])
                                   /\ x = Len(row[r]) /\ y = Len(results[r])
  BY FieldsMean
<1>2. a <= f /\ f <= l /\ x = (l - 1) + y /\ y <= 2 /\ f <= x
  BY <1>1, BatchFields
<1>3. a <= l /\ x <= l + 1
  BY <1>2
<1> QED
  BY <1>1, <1>2, <1>3

(* r, with a result to process, reads f slots after the step that samples  *)
(* token, and keeps the rest of its row in u.                              *)
Lands(r, token, f, pre, u, i2, g) ==
  /\ phase[r] = "batch" /\ results[r] # <<>>
  /\ Len(prefix_indices[r]) <= f /\ f <= Len(ids[r]) /\ Len(pre) = f
  /\ Len(u) = Len(row[r]) /\ \A j \in f+1..Len(row[r]) : u[j] = row[r][j]
  /\ Appends(i2, ids[r], token) /\ g = Landed(r, token)

(* A token gives the KV of a step launched before it its meaning.          *)
LEMMA LandedRow ==
  ASSUME WellFormed, MemoryRight, NEW r \in Reqs, NEW token \in Tokens, NEW f \in Nat,
         NEW pre, NEW u, NEW i2, NEW g, Lands(r, token, f, pre, u, i2, g)
  PROVE  /\ KVRow(g, i2, pre, u)
         /\ \A s \in Slots : s \notin Part(row[r], f, Len(row[r])) => g[s] = kv[s]
<1>1. PICK rw \in Seq(Slots), x \in Nat : rw = row[r] /\ x = Len(rw)
  BY FieldsMean
<1>2. PICK old \in Seq(Slots), a \in Nat : old = prefix_indices[r] /\ a = Len(old)
  BY FieldsMean
<1>3. PICK i \in Names, l \in Nat : i = ids[r] /\ l = Len(i)
  BY FieldsMean
<1>4. a <= f /\ f <= l /\ x <= l + 1 /\ Len(u) = x /\ \A j \in f+1..x : u[j] = rw[j]
  BY <1>1, <1>2, <1>3, BatchLengths DEF Lands
<1>5. KVRow(kv, i, old, rw)
  BY <1>1, <1>2, <1>3, Disjoint, Zenon
<1>6. \A y, z \in a+1..x : rw[y] = rw[z] => y = z
  <2>1. Len(old) \in Nat /\ Len(rw) \in Nat /\ Len(rw) <= Len(i) + 1
    BY <1>1, <1>2, <1>3, <1>4
  <2>2. Distinct(rw, Len(old), Len(rw))
    BY <1>5, <2>1, KVRowDistinct
  <2> QED
    BY <1>1, <1>2, <2>2, Zenon DEF Distinct
<1>7. i2 \in Names /\ Len(i2) = l + 1 /\ IsPrefix(i, i2)
  <2>1. i2 = Append(i, token) /\ IsPrefix(i, i)
    BY <1>3, PrefixOrder DEF Appends, Lands
  <2>2. IsPrefix(i, Append(i, token))
    BY <1>3, <2>1, PrefixOfMore
  <2>3. Appends(i2, i, token)
    BY <1>3 DEF Lands
  <2>4. i2 \in Seq(Tokens) /\ Len(i2) = l + 1
    <3>1. i \in Seq(Tokens) /\ Len(i) = l
      BY <1>3 DEF Names
    <3> QED
      BY <2>3, <3>1, Appended
  <2> QED
    BY <2>1, <2>2, <2>4, Zenon DEF Names
<1>8. g = IF x >= l + 1 THEN [kv EXCEPT ![rw[l + 1]] = i2] ELSE kv
  BY <1>1, <1>3 DEF Landed, Appends, Lands
<1>9. x >= l + 1 => x = l + 1 /\ l + 1 \in f+1..x /\ l + 1 \in a+1..x /\ l + 1 \in 1..x
  BY <1>4
<1>10. x >= l + 1 => rw[l + 1] \in Slots
  BY <1>1, <1>9, ElementOfSeq
<1>11. kv \in [Slots -> Names]
  BY FieldsMean
<1> HIDE DEF Slots
<1>12. ASSUME NEW s \in Slots, s \notin Part(rw, f, x) PROVE g[s] = kv[s]
  <2>1. CASE x >= l + 1
    <3>1. s # rw[l + 1]
      BY <1>9, <1>12, <2>1 DEF Part
    <3> QED
      BY <1>8, <1>11, <2>1, <3>1
  <2>2. CASE ~(x >= l + 1)
    BY <1>8, <2>2
  <2> QED
    BY <2>1, <2>2
<1>a. Len(pre) = f
  BY DEF Lands
<1>13. ASSUME NEW j \in Len(pre)+1..Len(u) PROVE g[u[j]] = IF j <= Len(i2) THEN SubSeq(i2, 1, j) ELSE <<>>
  <2>1. j \in f+1..x
    BY <1>4, <1>13, <1>a
  <2>2. j \in Nat /\ j \in a+1..x /\ j \in 1..x /\ j <= l + 1 /\ j \in 0..l+1
    BY <1>4, <2>1
  <2>3. u[j] = rw[j] /\ rw[j] \in Slots
    BY <1>1, <1>4, <2>1, <2>2, ElementOfSeq
  <2>4. CASE j <= l
    <3>1. kv[rw[j]] = SubSeq(i, 1, j)
      BY <1>1, <1>2, <1>3, <1>5, <2>2, <2>4 DEF KVRow
    <3>2. g[rw[j]] = kv[rw[j]]
      <4>1. CASE x >= l + 1
        <5>1. rw[j] # rw[l + 1]
          <6>1. j # l + 1
            BY <2>4
          <6> QED
            BY <1>6, <1>9, <2>2, <4>1, <6>1
        <5> QED
          BY <1>8, <1>11, <2>3, <4>1, <5>1
      <4>2. CASE ~(x >= l + 1)
        BY <1>8, <4>2
      <4> QED
        BY <4>1, <4>2
    <3>3. SubSeq(i, 1, j) = SubSeq(i2, 1, j)
      <4>1. j \in 0..Len(i) /\ j \in 0..Len(i2)
        BY <1>3, <1>7, <2>2, <2>4
      <4>2. PICK q : q = SubSeq(i, 1, j)
        OBVIOUS
      <4>3. q \in Names /\ Len(q) = j /\ IsPrefix(q, i)
        BY <4>1, <4>2, Cuts
      <4>4. IsPrefix(q, i2)
        BY <1>7, <4>3, PrefixOrder
      <4>5. q = SubSeq(i2, 1, j)
        BY <1>7, <4>1, <4>3, <4>4, Cuts
      <4> QED
        BY <4>2, <4>5, Zenon
    <3> QED
      BY <1>7, <2>2, <2>3, <3>1, <3>2, <3>3
  <2>5. CASE j = l + 1
    <3>1. g[rw[j]] = i2
      BY <1>8, <1>11, <2>2, <2>3, <2>5
    <3>2. SubSeq(i2, 1, j) = i2
      <4>1. j \in 0..Len(i2) /\ Len(i2) = j /\ IsPrefix(i2, i2)
        BY <1>7, <2>2, <2>5, PrefixOrder
      <4> QED
        BY <1>7, <4>1, Cuts, Zenon
    <3> QED
      BY <1>7, <2>3, <2>5, <3>1, <3>2
  <2> QED
    BY <2>2, <2>4, <2>5
<1> QED
  BY <1>1, <1>12, <1>13 DEF KVRow

(* The chunk that ran is published, and its row given back.                *)
LEMMA MemoryStash ==
  ASSUME WellFormed, WellFormed', MemoryRight, ReadsRight, NEW r \in Reqs, StashChunk(r)
  PROVE  MemoryRight'
<1>1. /\ phase[r] = "chunk" /\ phase'[r] = "chunked" /\ CacheUnfinished(r) /\ KVBecomes(kv) /\ row'[r] = <<>>
  BY DEF StashChunk, WellFormed
<1>2. PICK key, value, t, n : Publishes(r, fill_len[r], key, value, t, n)
  BY <1>1, ComputedPart, UnfinishedReads
<1>3. PICK f, l, x \in Nat : f = fill_len[r] /\ l = Len(ids[r]) /\ x = Len(row[r])
  BY FieldsMean
<1>4. Publishing(r, f, key, value, t, n) /\ f = x
  <2>1. x = f /\ f <= l /\ Len(prefix_indices[r]) <= f
    BY <1>1, <1>3, ComputedPart
  <2> QED
    BY <1>1, <1>2, <1>3, <2>1 DEF Publishing
<1>5. Part(row[r], f, Len(row[r])) = {}
  <2>1. f+1..x = {}
    BY <1>4
  <2> QED
    BY <1>3, <2>1 DEF Part
<1>6. /\ free_slots' \cap TreeSet(tree') = {}
      /\ free_slots' \cup TreeSet(tree') = free_slots \cup TreeSet(tree) \cup Owned[r]
      /\ KVTree(tree', kv)
  <2>1. PICK rest : rest = Part(row[r], f, Len(row[r]))
    OBVIOUS
  <2>2. /\ free_slots' \cap TreeSet(tree') = {} /\ KVTree(tree', kv)
        /\ free_slots' \cup TreeSet(tree') \cup rest = free_slots \cup TreeSet(tree) \cup Owned[r]
    BY <1>4, <2>1, PublishMoves
  <2> QED
    BY <1>5, <2>1, <2>2
<1>7. Own(phase'[r], prefix_indices'[r], row'[r], results'[r]) = {} /\ KVRow(kv', ids'[r], prefix_indices'[r], row'[r])
  <2>1. PICK ph, i, pre, res : ph = phase'[r] /\ i = ids'[r] /\ pre = prefix_indices'[r] /\ res = results'[r]
    OBVIOUS
  <2>2. Len(pre) \in Nat /\ ph # "finished"
    BY <1>1, <2>1, LenProperties DEF WellFormed
  <2>3. Own(ph, pre, <<>>, res) = {} /\ KVRow(kv', i, pre, <<>>)
    BY <2>2, NoRow
  <2> QED
    BY <1>1, <2>1, <2>3, Zenon
<1>8. Leaves(r, free_slots', TreeSet(tree'), {})
  <2>1. \A s \in Slots : s \notin free_slots' => kv'[s] = kv[s]
    BY <1>1 DEF KVBecomes
  <2> QED
    BY <1>6, <1>7, <2>1 DEF Leaves
<1>9. OthersSame(r) /\ TreeShape(tree')
  BY OthersAlone DEF OneStep, WellFormed
<1> QED
  BY <1>6, <1>7, <1>8, <1>9, MemoryFrame

(* The result of a prefill.                                                *)
LEMMA MemoryPrefill ==
  ASSUME WellFormed, WellFormed', MemoryRight, ReadsRight, NEW r \in Reqs, NEW token \in Tokens,
         ProcessPrefill(r, token)
  PROVE  MemoryRight'
<1>1. /\ phase[r] = "batch" /\ phase' = phase /\ CacheUnfinished(r) /\ results[r] # <<>>
      /\ KVBecomes(Landed(r, token))
      /\ ids' = [ids EXCEPT ![r] = Append(@, token)]
      /\ row' = [row EXCEPT ![r] = prefix_indices'[r] \o SubSeq(@, Len(prefix_indices'[r]) + 1, Len(@))]
  BY DEF ProcessPrefill, RewriteRow
<1>2. PICK key, value, t, n :
        /\ Publishes(r, fill_len[r], key, value, t, n)
        /\ Len(prefix_indices'[r]) = fill_len[r] /\ prefix_indices'[r] \in Seq(Slots)
  BY <1>1, ComputedPart, UnfinishedReads DEF ReadsPath
<1>3. PICK f \in Nat : f = fill_len[r]
  BY FieldsMean
<1>4. PICK pre \in Seq(Slots) : pre = prefix_indices'[r] /\ Len(pre) = f
  BY <1>2, <1>3
<1>5. PICK rw \in Seq(Slots), x \in Nat : rw = row[r] /\ x = Len(rw)
  BY FieldsMean
<1>6. /\ Len(prefix_indices[r]) <= f /\ f <= Len(ids[r]) /\ f <= x /\ x <= Len(ids[r]) + 1
  BY <1>1, <1>3, <1>5, BatchLengths
<1>7. Publishing(r, f, key, value, t, n)
  BY <1>1, <1>2, <1>3, <1>5, <1>6 DEF Publishing
<1>8. PICK rest : rest = Part(rw, f, x)
  OBVIOUS
<1>9. /\ free_slots' \cap TreeSet(tree') = {} /\ free_slots' \cap rest = {} /\ TreeSet(tree') \cap rest = {}
      /\ free_slots' \cup TreeSet(tree') \cup rest = free_slots \cup TreeSet(tree) \cup Owned[r]
      /\ KVTree(tree', kv)
  <2>1. rest = Part(row[r], f, Len(row[r]))
    BY <1>5, <1>8, Zenon
  <2> QED
    BY <1>7, <2>1, PublishMoves
<1>10. PICK u : Rereads(u, pre, rw) /\ row'[r] = u
  BY <1>1, <1>4, <1>5 DEF Rereads, WellFormed
<1>11. u \in Seq(Slots) /\ Len(u) = x /\ \A j \in f+1..x : u[j] = rw[j]
  BY <1>4, <1>5, <1>6, <1>10, RewriteMeans
<1>12. PICK i2 : Appends(i2, ids[r], token) /\ ids'[r] = i2
  BY <1>1 DEF Appends, WellFormed
<1>13. PICK g : g = Landed(r, token)
  OBVIOUS
<1>14. KVRow(g, i2, pre, u) /\ \A s \in Slots : s \notin rest => g[s] = kv[s]
  <2>1. Lands(r, token, f, pre, u, i2, g)
    BY <1>1, <1>4, <1>5, <1>6, <1>11, <1>12, <1>13 DEF Lands
  <2>2. KVRow(g, i2, pre, u) /\ \A s \in Slots : s \notin Part(row[r], f, Len(row[r])) => g[s] = kv[s]
    BY <2>1, LandedRow
  <2> QED
    BY <1>5, <1>8, <2>2, Zenon
<1>15. \A s \in Slots : s \notin free_slots' => kv'[s] = g[s]
  BY <1>1, <1>13 DEF KVBecomes
<1>16. Part(u, f, x) = rest
  BY <1>8, <1>11 DEF Part
<1>17. Own(phase'[r], prefix_indices'[r], row'[r], results'[r]) = rest
  <2>1. PICK res : res = results'[r]
    OBVIOUS
  <2>2. Own("batch", pre, u, res) = rest
    BY <1>4, <1>11, <1>16 DEF Own
  <2> QED
    BY <1>1, <1>4, <1>10, <2>1, <2>2, Zenon
<1>18. KVRow(kv', i2, pre, u)
  <2>1. ASSUME NEW j \in Len(pre)+1..Len(u) PROVE kv'[u[j]] = g[u[j]]
    <3>1. Len(pre) \in Nat
      BY <1>4
    <3>2. u[j] \in Slots /\ u[j] \in Own("batch", pre, u, results'[r])
      BY <1>11, <2>1, <3>1, RowOwned
    <3>3. u[j] \in rest
      BY <1>1, <1>4, <1>10, <1>17, <3>2, Zenon
    <3> QED
      BY <1>9, <1>15, <3>2, <3>3
  <2> QED
    BY <1>14, <2>1, KVRowSame
<1>19. Leaves(r, free_slots', TreeSet(tree'), rest)
  <2>1. \A s \in Slots : s \notin free_slots' /\ s \notin rest => kv'[s] = kv[s]
    BY <1>14, <1>15
  <2> QED
    BY <1>9, <1>17, <2>1 DEF Leaves
<1>20. KVRow(kv', ids'[r], prefix_indices'[r], row'[r])
  BY <1>4, <1>10, <1>12, <1>18, Zenon
<1>21. OthersSame(r) /\ TreeShape(tree')
  BY OthersAlone DEF OneStep, WellFormed
<1> QED
  BY <1>9, <1>19, <1>20, <1>21, MemoryFrame

(* The result of a decode step.                                            *)
LEMMA MemoryResult ==
  ASSUME WellFormed, WellFormed', MemoryRight, NEW r \in Reqs, NEW token \in Tokens, ProcessDecode(r, token)
  PROVE  MemoryRight'
<1>1. /\ phase[r] = "batch" /\ results[r] # <<>> /\ KVBecomes(Landed(r, token))
      /\ ids' = [ids EXCEPT ![r] = Append(@, token)]
      /\ UNCHANGED <<tree, free_slots, phase, prefix_indices, row>>
  BY DEF ProcessDecode, cacheVars
<1>2. PICK pre \in Seq(Slots), a \in Nat : pre = prefix_indices[r] /\ Len(pre) = a
  BY FieldsMean
<1>3. PICK rw \in Seq(Slots), x \in Nat : rw = row[r] /\ x = Len(rw)
  BY FieldsMean
<1>4. a <= Len(ids[r])
  BY <1>1, <1>2, BatchLengths
<1>5. PICK i2 : Appends(i2, ids[r], token) /\ ids'[r] = i2
  BY <1>1 DEF Appends, WellFormed
<1>6. PICK g : g = Landed(r, token)
  OBVIOUS
<1>7. KVRow(g, i2, pre, rw) /\ \A s \in Slots : s \notin Part(rw, a, x) => g[s] = kv[s]
  <2>1. Lands(r, token, a, pre, rw, i2, g)
    BY <1>1, <1>2, <1>3, <1>4, <1>5, <1>6 DEF Lands
  <2>2. KVRow(g, i2, pre, rw) /\ \A s \in Slots : s \notin Part(row[r], a, Len(row[r])) => g[s] = kv[s]
    BY <2>1, LandedRow
  <2> QED
    BY <1>3, <2>2, Zenon
<1>8. PICK V : V = Owned[r]
  OBVIOUS
<1>9. Part(rw, a, x) = V
  <2>1. Owned[r] = Own("batch", pre, rw, results[r])
    BY <1>1, <1>2, <1>3, Zenon DEF Owned
  <2>2. Own("batch", pre, rw, results[r]) = Part(rw, a, x)
    BY <1>2, <1>3 DEF Own
  <2> QED
    BY <1>8, <2>1, <2>2, Zenon
<1>10. Own(phase'[r], prefix_indices'[r], row'[r], results'[r]) = V
  <2>1. PICK res : res = results'[r]
    OBVIOUS
  <2>2. Own("batch", pre, rw, res) = V
    BY <1>2, <1>3, <1>9 DEF Own
  <2> QED
    BY <1>1, <1>2, <1>3, <2>1, <2>2, Zenon
<1>11. /\ free_slots \cap TreeSet(tree) = {} /\ free_slots \cap V = {} /\ TreeSet(tree) \cap V = {}
       /\ KVTree(tree, kv)
  BY <1>8, Disjoint, Zenon
<1>12. \A s \in Slots : s \notin free_slots => kv'[s] = g[s]
  BY <1>1, <1>6 DEF KVBecomes
<1>13. TreeSet(tree') = TreeSet(tree) /\ KVTree(tree', kv)
  BY <1>1, <1>11, Zenon
<1>14. Leaves(r, free_slots, TreeSet(tree), V)
  <2>1. \A s \in Slots : s \notin free_slots /\ s \notin V => kv'[s] = kv[s]
    BY <1>7, <1>9, <1>12
  <2>2. free_slots' = free_slots /\ free_slots \cup TreeSet(tree) \cup V = free_slots \cup TreeSet(tree) \cup Owned[r]
    BY <1>1, <1>8, Zenon
  <2> QED
    BY <1>10, <1>11, <1>13, <2>1, <2>2 DEF Leaves
<1>15. KVRow(kv', i2, pre, rw)
  <2>1. ASSUME NEW j \in Len(pre)+1..Len(rw) PROVE kv'[rw[j]] = g[rw[j]]
    <3>1. Len(pre) \in Nat
      BY <1>2
    <3>2. rw[j] \in Slots /\ rw[j] \in Own("batch", pre, rw, results[r])
      BY <2>1, <3>1, RowOwned
    <3>3. rw[j] \in V
      BY <1>1, <1>2, <1>3, <1>8, <3>2, Zenon DEF Owned
    <3> QED
      BY <1>11, <1>12, <3>2, <3>3
  <2> QED
    BY <1>7, <2>1, KVRowSame
<1>16. KVRow(kv', ids'[r], prefix_indices'[r], row'[r])
  BY <1>1, <1>2, <1>3, <1>5, <1>15, Zenon
<1>17. OthersSame(r) /\ TreeShape(tree')
  BY OthersAlone DEF OneStep, WellFormed
<1> QED
  BY <1>13, <1>14, <1>16, <1>17, MemoryFrame

(* A request that finishes publishes its row, but for the slot of the step *)
(* that runs while it finishes, which is its own until the result comes.   *)
LEMMA MemoryLast ==
  ASSUME WellFormed, WellFormed', MemoryRight, ReadsRight, NEW r \in Reqs, ProcessLast(r)
  PROVE  MemoryRight'
<1>1. /\ phase[r] = "batch" /\ results[r] # <<>> /\ CacheFinished(r) /\ KVBecomes(kv)
      /\ phase'[r] = IF Len(results[r]) > 1 THEN "finished" ELSE "done"
      /\ prefix_indices'[r] = <<>> /\ row'[r] = <<>> /\ TailOf(results'[r], results[r])
  BY DEF ProcessLast, CacheFinished, ReleaseRow, WellFormed, TailOf
<1>2. PICK rw \in Seq(Slots), x \in Nat : rw = row[r] /\ x = Len(rw)
  BY FieldsMean
<1>3. PICK l \in Nat, y \in Nat : l = Len(ids[r]) /\ y = Len(results[r])
  BY FieldsMean
<1>4. /\ 0 < l /\ l <= x /\ x = (l - 1) + y /\ y <= 2 /\ 0 < y /\ Len(prefix_indices[r]) <= l /\ x <= l + 1
      /\ \A j \in 1..y : IF results[r][j].kind = "prefill" THEN j = 1
                         ELSE results[r][j].loc = rw[(l - 1) + j]
  <2>1. PICK f \in Nat : f = fill_len[r]
    BY FieldsMean
  <2>2. 0 < f /\ f <= l /\ x = (l - 1) + y /\ y <= 2 /\ y > 0 /\ l <= x
    BY <1>1, <1>2, <1>3, <2>1, BatchFields
  <2>3. Len(prefix_indices[r]) <= l /\ x <= l + 1
    BY <1>1, <1>2, <1>3, BatchLengths
  <2>4. \A j \in 1..y : IF results[r][j].kind = "prefill" THEN j = 1
                        ELSE results[r][j].loc = rw[(l - 1) + j]
    BY <1>1, <1>2, <1>3, BatchFields
  <2> QED
    BY <2>2, <2>3, <2>4
<1>5. PICK key, value, t, n : Publishes(r, l, key, value, t, n)
  BY <1>1, <1>2, <1>3, <1>4, FinishedPublishes
<1>6. Publishing(r, l, key, value, t, n)
  BY <1>1, <1>2, <1>3, <1>4, <1>5 DEF Publishing
<1>7. PICK rest : rest = Part(rw, l, x)
  OBVIOUS
<1>8. /\ free_slots' \cap TreeSet(tree') = {} /\ free_slots' \cap rest = {} /\ TreeSet(tree') \cap rest = {}
      /\ free_slots' \cup TreeSet(tree') \cup rest = free_slots \cup TreeSet(tree) \cup Owned[r]
      /\ KVTree(tree', kv)
  <2>1. rest = Part(row[r], l, Len(row[r]))
    BY <1>2, <1>7, Zenon
  <2> QED
    BY <1>6, <2>1, PublishMoves
<1>9. PICK res, ph : res = results'[r] /\ ph = phase'[r]
  OBVIOUS
<1>10. Own(ph, <<>>, <<>>, res) = rest
  <2>1. Part(<<>>, Len(<<>>), Len(<<>>)) = {}
    <3>1. Len(<<>>)+1..Len(<<>>) = {}
      BY EmptySeq
    <3> QED
      BY <3>1 DEF Part
  <2>2. CASE y = 2
    <3>1. ph = "finished" /\ x = l + 1
      BY <1>1, <1>3, <1>4, <1>9, <2>2
    <3>2. res[1] = results[r][2]
      <4>1. results[r] \in Seq(Results) /\ TailOf(res, results[r]) /\ 1 \in 1..y-1 /\ Len(results[r]) = y /\ 1 + 1 = 2
        BY <1>1, <1>3, <1>9, <2>2, FieldsMean
      <4>2. \A j \in 1..y-1 : res[j] = results[r][j + 1]
        BY <1>1, <4>1, TailMeans
      <4> QED
        BY <4>1, <4>2
    <3>3. results[r][2].loc = rw[l + 1]
      <4>1. 2 \in 1..y /\ 2 # 1 /\ (l - 1) + 2 = l + 1
        BY <2>2
      <4> QED
        BY <1>4, <4>1
    <3>4. rest = {s \in Slots : s = rw[l + 1]}
      <4>1. l+1..x = {l + 1}
        BY <3>1
      <4> QED
        BY <1>7, <4>1 DEF Part
    <3>5. res[1].loc = rw[l + 1]
      BY <3>2, <3>3, Zenon
    <3> HIDE DEF Slots
    <3>6. Own(ph, <<>>, <<>>, res) = {s \in Slots : s = res[1].loc}
      BY <2>1, <3>1 DEF Own
    <3> QED
      BY <3>4, <3>5, <3>6
  <2>3. CASE y # 2
    <3>1. y = 1 /\ x = l
      BY <1>4, <2>3
    <3>2. ph = "done"
      BY <1>1, <1>3, <1>9, <3>1
    <3>3. rest = {}
      <4>1. l+1..x = {}
        BY <3>1
      <4> QED
        BY <1>7, <4>1 DEF Part
    <3> QED
      BY <2>1, <3>2, <3>3 DEF Own
  <2> QED
    BY <2>2, <2>3
<1>11. Own(phase'[r], prefix_indices'[r], row'[r], results'[r]) = rest
  BY <1>1, <1>9, <1>10, Zenon
<1>12. KVRow(kv', ids'[r], prefix_indices'[r], row'[r])
  <2>1. PICK i : i = ids'[r]
    OBVIOUS
  <2>2. KVRow(kv', i, <<>>, <<>>)
    BY NoRow, EmptySeq
  <2> QED
    BY <1>1, <2>1, <2>2, Zenon
<1>13. Leaves(r, free_slots', TreeSet(tree'), rest)
  <2>1. \A s \in Slots : s \notin free_slots' /\ s \notin rest => kv'[s] = kv[s]
    BY <1>1 DEF KVBecomes
  <2> QED
    BY <1>8, <1>11, <2>1 DEF Leaves
<1>14. OthersSame(r) /\ TreeShape(tree')
  BY OthersAlone DEF OneStep, WellFormed
<1> QED
  BY <1>8, <1>12, <1>13, <1>14, MemoryFrame

(* A request that ends or is retracted and keeps no slot.                  *)
LEMMA MemoryReleased ==
  ASSUME WellFormed, WellFormed', MemoryRight, NEW r \in Reqs, OthersSame(r), KVBecomes(kv),
         phase'[r] # "finished", row'[r] = <<>>,
         free_slots' \cap TreeSet(tree') = {}, KVTree(tree', kv),
         free_slots' \cup TreeSet(tree') = free_slots \cup TreeSet(tree) \cup Owned[r]
  PROVE  MemoryRight'
<1>1. Own(phase'[r], prefix_indices'[r], row'[r], results'[r]) = {} /\ KVRow(kv', ids'[r], prefix_indices'[r], row'[r])
  <2>1. PICK ph, i, pre, res : ph = phase'[r] /\ i = ids'[r] /\ pre = prefix_indices'[r] /\ res = results'[r]
    OBVIOUS
  <2>2. Len(pre) \in Nat /\ ph # "finished"
    BY <2>1, LenProperties DEF WellFormed
  <2>3. Own(ph, pre, <<>>, res) = {} /\ KVRow(kv', i, pre, <<>>)
    BY <2>2, NoRow
  <2> QED
    BY <2>1, <2>3, Zenon
<1>2. Leaves(r, free_slots', TreeSet(tree'), {})
  <2>1. \A s \in Slots : s \notin free_slots' => kv'[s] = kv[s]
    BY DEF KVBecomes
  <2> QED
    BY <1>1, <2>1 DEF Leaves
<1>3. TreeShape(tree')
  BY DEF WellFormed
<1> QED
  BY <1>1, <1>2, <1>3, MemoryFrame

(* The delayed slot is freed.                                              *)
LEMMA MemoryDelayed ==
  ASSUME WellFormed, WellFormed', MemoryRight, NEW r \in Reqs, FreeDelayed(r)
  PROVE  MemoryRight'
<1>1. /\ phase[r] = "finished" /\ phase'[r] = "done" /\ KVBecomes(kv)
      /\ free_slots' = free_slots \cup {results[r][1].loc}
      /\ UNCHANGED <<tree, row>>
  BY DEF FreeDelayed, cacheVars, WellFormed
<1>2. row[r] = <<>> /\ prefix_indices[r] = <<>>
  BY <1>1, NothingHeld
<1>3. PICK res, d : res = results[r] /\ d = res[1].loc
  OBVIOUS
<1>4. d \in Slots
  BY <1>3, FreeDelayedWellFormed
<1>5. Owned[r] = {d}
  <2>1. Owned[r] = Own("finished", <<>>, <<>>, res)
    BY <1>1, <1>2, <1>3, Zenon DEF Owned
  <2>2. Part(<<>>, Len(<<>>), Len(<<>>)) = {}
    <3>1. Len(<<>>)+1..Len(<<>>) = {}
      BY EmptySeq
    <3> QED
      BY <3>1 DEF Part
  <2>3. Own("finished", <<>>, <<>>, res) = {s \in Slots : s = d}
    <3> HIDE DEF Slots
    <3> QED
      BY <1>3, <2>2 DEF Own
  <2>4. {s \in Slots : s = d} = {d}
    BY <1>4
  <2> QED
    BY <2>1, <2>3, <2>4, Zenon
<1>6. free_slots' = free_slots \cup {d} /\ TreeSet(tree') = TreeSet(tree) /\ KVTree(tree', kv)
  BY <1>1, <1>3, Disjoint, Zenon
<1>7. /\ free_slots' \cap TreeSet(tree') = {}
      /\ free_slots' \cup TreeSet(tree') = free_slots \cup TreeSet(tree) \cup Owned[r]
  BY <1>5, <1>6, Disjoint
<1>8. OthersSame(r) /\ row'[r] = <<>>
  BY <1>1, <1>2, OthersAlone DEF OneStep
<1> QED
  BY <1>1, <1>6, <1>7, <1>8, MemoryReleased

(* retract_decode frees the own slots of r and the evicted ones.           *)
LEMMA MemoryRetract ==
  ASSUME WellFormed, WellFormed', MemoryRight, NEW r \in Reqs, NEW n \in 0..NumSlots, Retract(r, n)
  PROVE  MemoryRight'
<1>1. phase[r] = "batch" /\ phase'[r] = "waiting" /\ row'[r] = <<>> /\ KVBecomes(kv)
  BY DEF Retract, ReleaseRow, WellFormed
<1>2. PICK t, E : Retracts(r, t, E)
  BY RetractMeans
<1>3. /\ TreeShape(t) /\ SameSlots(tree, t) /\ Deletes(t, tree', E)
      /\ free_slots' = free_slots \cup Uncached(r) \cup NodeSlots(t, E)
  BY <1>2 DEF Retracts
<1>4. TreeSet(t) = TreeSet(tree) /\ KVTree(t, kv)
  BY <1>3, Disjoint, SetSame
<1>5. TreeSet(tree') = TreeSet(t) \ NodeSlots(t, E) /\ NodeSlots(t, E) \subseteq TreeSet(t) /\ KVTree(tree', kv)
  BY <1>3, <1>4, SetDeleted
<1>6. Uncached(r) = Owned[r]
  <2>1. Uncached(r) \subseteq Slots
    BY UncachedMeans
  <2>2. \A s : s \in Uncached(r) <=> \E i \in Len(prefix_indices[r])+1..Len(row[r]) : s = row[r][i]
    BY <1>1, UncachedMeans
  <2>3. phase[r] # "finished"
    BY <1>1
  <2> QED
    BY <2>1, <2>2, <2>3 DEF Owned, Own, Part
<1>7. PICK N : N = NodeSlots(t, E)
  OBVIOUS
<1>8. free_slots' = free_slots \cup Owned[r] \cup N /\ TreeSet(tree') = TreeSet(tree) \ N /\ N \subseteq TreeSet(tree)
  BY <1>3, <1>4, <1>5, <1>6, <1>7, Zenon
<1>9. /\ free_slots' \cap TreeSet(tree') = {}
      /\ free_slots' \cup TreeSet(tree') = free_slots \cup TreeSet(tree) \cup Owned[r]
  BY <1>8, Disjoint
<1>10. OthersSame(r)
  BY OthersAlone DEF OneStep
<1> QED
  BY <1>1, <1>5, <1>9, <1>10, MemoryReleased

(* A step that moves slots between the free list and the cache only.       *)
LEMMA MemoryStays ==
  ASSUME WellFormed, MemoryRight, UNCHANGED <<phase, ids, prefix_indices, row, results>>, TreeShape(tree'),
         free_slots' \cap TreeSet(tree') = {}, KVTree(tree', kv),
         free_slots' \cup TreeSet(tree') = free_slots \cup TreeSet(tree),
         \A s \in Slots : s \notin free_slots' => kv'[s] = kv[s]
  PROVE  MemoryRight'
<1>1. Owned' = Owned
  BY Zenon DEF Owned
<1>2. Partition(free_slots', TreeSet(tree'), Owned)
  <2>1. Partition(free_slots, TreeSet(tree), Owned)
    BY DEF MemoryRight
  <2> QED
    BY <2>1 DEF Partition
<1>3. KVTree(tree', kv')
  <2>1. ASSUME NEW q, IsPosition(tree', q) PROVE kv'[SlotOf(tree', q)] = q
    <3>1. kv[SlotOf(tree', q)] = q /\ SlotOf(tree', q) \in Slots
      BY <2>1, SlotTyped DEF KVTree
    <3>2. SlotOf(tree', q) \in TreeSet(tree')
      BY <2>1, <3>1 DEF TreeSet
    <3> QED
      BY <3>1, <3>2
  <2> QED
    BY <2>1 DEF KVTree
<1>4. ASSUME NEW q \in Reqs PROVE KVRow(kv', ids[q], prefix_indices[q], row[q])
  <2>1. ASSUME NEW j \in Len(prefix_indices[q])+1..Len(row[q]) PROVE kv'[row[q][j]] = kv[row[q][j]]
    <3>1. row[q] \in Seq(Slots) /\ Len(prefix_indices[q]) \in Nat
      BY FieldsMean
    <3>2. row[q][j] \in Slots /\ row[q][j] \in Owned[q]
      BY <2>1, <3>1, RowOwned DEF Owned
    <3>3. row[q][j] \notin free_slots'
      BY <1>2, <3>2 DEF Partition
    <3> QED
      BY <3>2, <3>3
  <2> QED
    BY <2>1, Disjoint, KVRowSame
<1>5. \A q \in Reqs : KVRow(kv', ids'[q], prefix_indices'[q], row'[q])
  BY <1>4, Zenon
<1>6. Partition(free_slots', TreeSet(tree'), Owned')
  BY <1>1, <1>2, Zenon
<1> QED
  BY <1>3, <1>5, <1>6 DEF MemoryRight

(* The steps of one request.                                               *)
LEMMA MemoryStep ==
  ASSUME WellFormed, WellFormed', MemoryRight, ReadsRight, NEW r \in Reqs, OneStep(r)
  PROVE  MemoryRight'
BY MemoryBefore, MemoryExtend, MemoryDecode, MemoryStash, MemoryPrefill, MemoryResult, MemoryLast, MemoryDelayed,
   MemoryRetract DEF OneStep

(* check_decode_mem moves slots of unlocked nodes to the free list.        *)
LEMMA MemoryChecked ==
  ASSUME WellFormed, WellFormed', MemoryRight, CheckDecodeMem
  PROVE  MemoryRight'
<1>1. UNCHANGED <<phase, ids, prefix_indices, row, results>> /\ KVBecomes(kv)
  BY DEF CheckDecodeMem
<1>2. PICK E : Deletes(tree, tree', E) /\ free_slots' = free_slots \cup NodeSlots(tree, E)
  BY CheckMemMeans
<1>3. PICK N : N = NodeSlots(tree, E)
  OBVIOUS
<1>4. TreeSet(tree') = TreeSet(tree) \ NodeSlots(tree, E) /\ NodeSlots(tree, E) \subseteq TreeSet(tree) /\ KVTree(tree', kv)
  BY <1>2, Disjoint, SetDeleted, FieldsMean DEF WellFormed, MemoryRight
<1>5. TreeSet(tree') = TreeSet(tree) \ N /\ N \subseteq TreeSet(tree) /\ free_slots' = free_slots \cup N
  BY <1>2, <1>3, <1>4, Zenon
<1>6. free_slots \cap TreeSet(tree) = {}
  BY DEF MemoryRight, Partition
<1>7. free_slots' \cap TreeSet(tree') = {} /\ free_slots' \cup TreeSet(tree') = free_slots \cup TreeSet(tree)
  BY <1>5, <1>6
<1>8. \A s \in Slots : s \notin free_slots' => kv'[s] = kv[s]
  BY <1>1 DEF KVBecomes
<1>9. TreeShape(tree')
  BY DEF WellFormed
<1> QED
  BY <1>1, <1>4, <1>7, <1>8, <1>9, MemoryStays

(* With no request in the system, nobody owns a slot.                      *)
LEMMA NobodyOwns ==
  ASSUME WellFormed, MemoryRight, \A r \in Reqs : phase[r] \in {"idle", "waiting", "done"}
  PROVE  (\A r \in Reqs : Owned[r] = {}) /\ free_slots \cup TreeSet(tree) = Slots
<1>1. ASSUME NEW r \in Reqs PROVE Owned[r] = {}
  <2>1. row[r] = <<>> /\ phase[r] # "finished" /\ Len(prefix_indices[r]) \in Nat
    BY NothingHeld, FieldsMean
  <2>2. PICK ph, pre, res : ph = phase[r] /\ pre = prefix_indices[r] /\ res = results[r]
    OBVIOUS
  <2>3. Own(ph, pre, <<>>, res) = {}
    BY <2>1, <2>2, NoRow
  <2> QED
    BY <2>1, <2>2, <2>3, Zenon DEF Owned
<1> QED
  BY <1>1 DEF MemoryRight, Partition

(* The empty tree has no position.                                         *)
LEMMA NoPosition ==
  ASSUME NEW t, t = EmptyTree
  PROVE  TreeSet(t) = {} /\ \A k : KVTree(t, k)
<1>1. DOMAIN t = {}
  BY DEF EmptyTree
<1>2. \A q : ~IsPosition(t, q)
  BY <1>1 DEF IsPosition
<1> QED
  BY <1>2 DEF TreeSet, KVTree

(* flush_cache frees everything.                                           *)
LEMMA MemoryFlushed ==
  ASSUME WellFormed, WellFormed', MemoryRight, FlushCache
  PROVE  MemoryRight'
<1>1. /\ UNCHANGED <<phase, ids, prefix_indices, row, results>> /\ KVBecomes(kv)
      /\ tree' = EmptyTree /\ free_slots' = Slots
      /\ \A r \in Reqs : phase[r] \in {"idle", "waiting", "done"}
  BY DEF FlushCache
<1>2. TreeSet(tree') = {} /\ KVTree(tree', kv)
  BY <1>1, NoPosition
<1>3. free_slots \cup TreeSet(tree) = Slots
  BY <1>1, NobodyOwns
<1>4. free_slots' \cap TreeSet(tree') = {} /\ free_slots' \cup TreeSet(tree') = free_slots \cup TreeSet(tree)
  BY <1>1, <1>2, <1>3
<1>5. \A s \in Slots : s \notin free_slots' => kv'[s] = kv[s]
  BY <1>1
<1>6. TreeShape(tree')
  BY DEF WellFormed
<1> QED
  BY <1>1, <1>2, <1>4, <1>5, <1>6, MemoryStays

(* Every step keeps each slot where exactly one use of it is.              *)
LEMMA MemoryNext ==
  ASSUME WellFormed, WellFormed', MemoryRight, ReadsRight, [Next]_vars
  PROVE  MemoryRight'
<1>1. ASSUME NEW r \in Reqs, OneStep(r) PROVE MemoryRight'
  BY <1>1, MemoryStep
<1>2. CASE UNCHANGED vars
  <2>1. UNCHANGED <<tree, free_slots, kv, phase, ids, prefix_indices, row, results>>
    BY <1>2 DEF vars
  <2> QED
    BY <2>1, Zenon DEF MemoryRight, Owned
<1> QED
  BY <1>1, <1>2, MemoryChecked, MemoryFlushed DEF Next, OneStep

(* At the start every slot is free.                                        *)
LEMMA MemoryInit == Init => MemoryRight
<1> SUFFICES ASSUME Init PROVE MemoryRight
  OBVIOUS
<1>1. /\ tree = EmptyTree /\ free_slots = Slots
      /\ \A r \in Reqs : phase[r] = "idle" /\ prefix_indices[r] = <<>> /\ row[r] = <<>>
  BY DEF Init
<1>2. ASSUME NEW r \in Reqs PROVE Owned[r] = {} /\ KVRow(kv, ids[r], prefix_indices[r], row[r])
  <2>1. PICK i, res : i = ids[r] /\ res = results[r]
    OBVIOUS
  <2>2. Own("idle", <<>>, <<>>, res) = {} /\ KVRow(kv, i, <<>>, <<>>)
    BY NoRow, EmptySeq
  <2> QED
    BY <1>1, <2>1, <2>2, Zenon DEF Owned
<1>3. TreeSet(tree) = {} /\ KVTree(tree, kv)
  BY <1>1, NoPosition
<1> QED
  BY <1>1, <1>2, <1>3 DEF MemoryRight, Partition

(* The inductive invariant.                                                *)
THEOREM MemoryKept == Spec => [](WellFormed /\ BooksRight /\ ReadsRight /\ MemoryRight)
<1>1. Init => WellFormed /\ BooksRight /\ ReadsRight /\ MemoryRight
  BY WellFormedInit, BooksInit, ReadsInit, MemoryInit
<1>2. /\ WellFormed /\ BooksRight /\ ReadsRight /\ MemoryRight /\ [Next]_vars
      => WellFormed' /\ BooksRight' /\ ReadsRight' /\ MemoryRight'
  BY WellFormedNext, BooksNext, ReadsNext, MemoryNext
<1> QED
  BY <1>1, <1>2, PTL DEF Spec
-----------------------------------------------------------------------------
(* What this means for the slots.                                          *)

(* The places in the edges of the tree, and the slots in them.             *)
Places(t) == Pairs(EdgeLen(t), DOMAIN t)
SlotAt(t) == [x \in Places(t) |-> t[x[1]].value[x[2]]]

(* The places are finitely many, and are those of the edges.               *)
LEMMA PlacesMean ==
  ASSUME NEW t, TreeShape(t)
  PROVE  /\ IsFiniteSet(Places(t)) /\ SizeOf(t, DOMAIN t) = Cardinality(Places(t))
         /\ \A x : x \in Places(t) <=> \E p \in DOMAIN t : \E i \in 1..Len(t[p].value) : x = <<p, i>>
         /\ \A p \in DOMAIN t : \A i \in 1..Len(t[p].value) : SlotAt(t)[<<p, i>>] = t[p].value[i]
<1>1. /\ SizeOf(t, DOMAIN t) = SumOver(EdgeLen(t), DOMAIN t) /\ IsFiniteSet(DOMAIN t)
      /\ \A p \in DOMAIN t : EdgeLen(t)[p] \in Nat /\ EdgeLen(t)[p] = Len(t[p].value)
  BY SizeMeans
<1>2. IsFiniteSet(Places(t))
  BY <1>1, PairsFinite DEF Places
<1>3. SizeOf(t, DOMAIN t) = Cardinality(Places(t))
  BY <1>1, Zenon DEF Places, SumOver
<1>4. \A x : x \in Places(t) <=> \E p \in DOMAIN t : \E i \in 1..Len(t[p].value) : x = <<p, i>>
  <2>1. \A x : x \in Places(t) <=> \E p \in DOMAIN t : \E i \in 1..EdgeLen(t)[p] : x = <<p, i>>
    BY PairsMember DEF Places
  <2> QED
    BY <1>1, <2>1
<1>5. ASSUME NEW p \in DOMAIN t, NEW i \in 1..Len(t[p].value) PROVE SlotAt(t)[<<p, i>>] = t[p].value[i]
  BY <1>4 DEF SlotAt
<1> QED
  BY <1>2, <1>3, <1>4, <1>5

(* Different places hold different slots, which are those of the cache.    *)
LEMMA PlacesDiffer ==
  ASSUME NEW t, TreeShape(t), NEW k, KVTree(t, k)
  PROVE  Enumerates(SlotAt(t), Places(t), TreeSet(t))
<1>1. ASSUME NEW p \in DOMAIN t, NEW i \in 1..Len(t[p].value)
      PROVE  \E q : IsPosition(t, q) /\ OnEdge(t, q, p) /\ SlotOf(t, q) = t[p].value[i] /\ Len(q) = ParentLen(t, p) + i
  <2>1. PICK q : CutTo(q, p, ParentLen(t, p) + i)
    BY DEF CutTo
  <2> QED
    BY <2>1, EdgePositions
<1>2. ASSUME NEW x \in Places(t), NEW y \in Places(t), SlotAt(t)[x] = SlotAt(t)[y] PROVE x = y
  <2>a. PICK p \in DOMAIN t : \E i \in 1..Len(t[p].value) : x = <<p, i>> /\ SlotAt(t)[x] = t[p].value[i]
    BY PlacesMean
  <2>1. PICK i \in 1..Len(t[p].value) : x = <<p, i>> /\ SlotAt(t)[x] = t[p].value[i]
    BY <2>a
  <2>b. PICK q \in DOMAIN t : \E j \in 1..Len(t[q].value) : y = <<q, j>> /\ SlotAt(t)[y] = t[q].value[j]
    BY PlacesMean
  <2>2. PICK j \in 1..Len(t[q].value) : y = <<q, j>> /\ SlotAt(t)[y] = t[q].value[j]
    BY <2>b
  <2>3. PICK u : IsPosition(t, u) /\ OnEdge(t, u, p) /\ SlotOf(t, u) = t[p].value[i] /\ Len(u) = ParentLen(t, p) + i
    BY <1>1
  <2>4. PICK v : IsPosition(t, v) /\ OnEdge(t, v, q) /\ SlotOf(t, v) = t[q].value[j] /\ Len(v) = ParentLen(t, q) + j
    BY <1>1
  <2>5. u = v
    BY <1>2, <2>1, <2>2, <2>3, <2>4 DEF KVTree
  <2>6. p = q
    BY <2>3, <2>4, <2>5, CutChildMeans DEF TreeShape
  <2>7. i = j
    <3>1. ParentLen(t, p) \in Nat
      BY ParentShorter DEF TreeShape, NodesBranch
    <3> QED
      BY <2>3, <2>4, <2>5, <2>6, <3>1
  <2> QED
    BY <2>1, <2>2, <2>6, <2>7
<1>3. ASSUME NEW s \in TreeSet(t) PROVE \E x \in Places(t) : s = SlotAt(t)[x]
  <2>1. PICK q : IsPosition(t, q) /\ SlotOf(t, q) = s
    BY DEF TreeSet
  <2>2. PICK c : c = CutChild(t, q)
    OBVIOUS
  <2>3. OnEdge(t, q, c)
    BY <2>1, <2>2, CutChildMeans DEF TreeShape
  <2>4. PICK i : i = Len(q) - ParentLen(t, c)
    OBVIOUS
  <2>5. s = t[c].value[i] /\ i \in 1..Len(t[c].value)
    BY <2>1, <2>3, <2>4, SlotOfMeans
  <2>6. c \in DOMAIN t
    BY <2>3 DEF OnEdge
  <2>7. SlotAt(t)[<<c, i>>] = s
    BY <2>5, <2>6, PlacesMean
  <2>8. <<c, i>> \in Places(t)
    BY <2>5, <2>6, PlacesMean
  <2> QED
    BY <2>7, <2>8, Zenon
<1>4. ASSUME NEW x \in Places(t) PROVE SlotAt(t)[x] \in TreeSet(t)
  <2>a. PICK p \in DOMAIN t : \E i \in 1..Len(t[p].value) : SlotAt(t)[x] = t[p].value[i]
    BY PlacesMean
  <2>1. PICK i \in 1..Len(t[p].value) : SlotAt(t)[x] = t[p].value[i]
    BY <2>a
  <2>2. PICK q : IsPosition(t, q) /\ SlotOf(t, q) = t[p].value[i]
    BY <1>1
  <2> QED
    BY <2>1, <2>2, SlotTyped DEF TreeSet
<1> QED
  BY <1>2, <1>3, <1>4 DEF Enumerates

(* The slots of the cache are as many as its size.                         *)
LEMMA TreeCount ==
  ASSUME NEW t, TreeShape(t), NEW k, KVTree(t, k)
  PROVE  IsFiniteSet(TreeSet(t)) /\ Cardinality(TreeSet(t)) = SizeOf(t, DOMAIN t)
<1>1. IsFiniteSet(Places(t)) /\ SizeOf(t, DOMAIN t) = Cardinality(Places(t))
  BY PlacesMean
<1>2. IsFiniteSet(TreeSet(t)) /\ Cardinality(TreeSet(t)) = Cardinality(Places(t))
  BY <1>1, PlacesDiffer, EnumeratedCount
<1> QED
  BY <1>1, <1>2, Zenon

(* The number of slots.                                                    *)
LEMMA SlotsCount == IsFiniteSet(Slots) /\ Cardinality(Slots) = NumSlots /\ NumSlots \in Nat
<1>1. NumSlots \in Nat \ {0}
  BY SizesPositive
<1>2. IsFiniteSet(1..NumSlots) /\ Cardinality(1..NumSlots) = IF 1 > NumSlots THEN 0 ELSE NumSlots - 1 + 1
  <2>1. 1 \in Int /\ NumSlots \in Int
    BY <1>1
  <2> QED
    BY <2>1, FS_Interval, Zenon
<1> QED
  BY <1>1, <1>2 DEF Slots

(* With no request in the system, all memory is free or evictable.         *)
LEMMA IdleMeans ==
  ASSUME WellFormed, BooksRight, MemoryRight
  PROVE  IdleMemory
<1> SUFFICES ASSUME \A r \in Reqs : phase[r] \in {"idle", "waiting", "done"}
             PROVE  protected_size = 0 /\ Cardinality(free_slots) + evictable_size = NumSlots
  BY DEF IdleMemory
<1>1. TreeShape(tree) /\ LocksExact(tree, {}, last_node) /\ SizesAre(tree, evictable_size, protected_size)
  <2>1. Holders = {}
    BY DEF Holders
  <2> QED
    BY <2>1, Zenon DEF BooksRight, Books
<1>2. Unlocked(tree) = DOMAIN tree
  <2>1. ASSUME NEW p \in DOMAIN tree PROVE tree[p].lock_ref = 0
    <3>1. tree[p].lock_ref = Cardinality({r \in {} : IsPrefix(p, last_node[r])})
      BY <1>1 DEF LocksExact
    <3>2. {r \in {} : IsPrefix(p, last_node[r])} = {}
      OBVIOUS
    <3> QED
      BY <3>1, <3>2, FS_EmptySet, Zenon
  <2> QED
    BY <2>1 DEF Unlocked
<1>3. protected_size = 0 /\ evictable_size = SizeOf(tree, DOMAIN tree)
  <2>1. evictable_size = SizeOf(tree, Unlocked(tree)) /\ protected_size = SizeOf(tree, DOMAIN tree \ Unlocked(tree))
    BY <1>1 DEF SizesAre
  <2>2. DOMAIN tree \ Unlocked(tree) = {}
    BY <1>2
  <2>3. SizeOf(tree, {}) = 0
    <3>1. SizeOf(tree, {}) = SumOver(EdgeLen(tree), {})
      BY <1>1, SizeMeans
    <3> QED
      BY <3>1, SumEmpty, Zenon
  <2> QED
    BY <1>2, <2>1, <2>2, <2>3, Zenon
<1>4. IsFiniteSet(TreeSet(tree)) /\ Cardinality(TreeSet(tree)) = evictable_size
  BY <1>1, <1>3, TreeCount DEF MemoryRight
<1>5. free_slots \cup TreeSet(tree) = Slots /\ free_slots \cap TreeSet(tree) = {} /\ free_slots \subseteq Slots
  BY NobodyOwns DEF MemoryRight, Partition
<1>6. IsFiniteSet(free_slots)
  BY <1>5, SlotsCount, FS_Subset
<1>7. Cardinality(free_slots) + Cardinality(TreeSet(tree)) = NumSlots
  <2>1. /\ Cardinality(free_slots \cup TreeSet(tree))
             = Cardinality(free_slots) + Cardinality(TreeSet(tree)) - Cardinality(free_slots \cap TreeSet(tree))
    BY <1>4, <1>6, FS_Union, Zenon
  <2>2. Cardinality(free_slots \cap TreeSet(tree)) = 0
    BY <1>5, FS_EmptySet, Zenon
  <2>3. Cardinality(free_slots \cup TreeSet(tree)) = NumSlots
    BY <1>5, SlotsCount, Zenon
  <2>4. Cardinality(free_slots) \in Nat /\ Cardinality(TreeSet(tree)) \in Nat
    BY <1>4, <1>6, FS_CardinalityType
  <2> QED
    BY <2>1, <2>2, <2>3, <2>4
<1> QED
  BY <1>3, <1>4, <1>7, Zenon

(* An edge has at most as many slots as there are.                         *)
LEMMA EdgeBound ==
  ASSUME NEW t, TreeShape(t), NEW k, KVTree(t, k), NEW p \in DOMAIN t
  PROVE  Len(t[p].value) <= NumSlots
<1>1. PICK v \in Seq(Slots) : v = t[p].value
  BY DEF TreeShape
<1>2. PICK n \in Nat : n = Len(v)
  BY <1>1, LenProperties
<1>3. \A i \in 1..n : v[i] \in Slots
  BY <1>1, <1>2, ElementOfSeq
<1>4. ASSUME NEW i \in 1..n, NEW j \in 1..n, v[i] = v[j] PROVE i = j
  <2>1. <<p, i>> \in Places(t) /\ <<p, j>> \in Places(t) /\ SlotAt(t)[<<p, i>>] = SlotAt(t)[<<p, j>>]
    BY <1>1, <1>2, <1>4, PlacesMean
  <2>2. <<p, i>> = <<p, j>>
    BY <2>1, PlacesDiffer DEF Enumerates
  <2> QED
    BY <2>2
<1>5. PICK R : R = {s \in Slots : \E i \in 1..n : s = v[i]}
  OBVIOUS
<1>6. Enumerates(v, 1..Len(v), R)
  <2>1. \A y : y \in R <=> \E i \in 1..n : y = v[i]
    BY <1>3, <1>5
  <2> QED
    BY <1>2, <1>4, <2>1 DEF Enumerates
<1>7. Cardinality(R) = n
  BY <1>1, <1>2, <1>6, DistinctCount
<1>8. Cardinality(R) <= Cardinality(Slots)
  BY <1>5, SlotsCount, FS_Subset
<1> QED
  BY <1>1, <1>2, <1>7, <1>8, SlotsCount

(* A slot of the cache has one place in it, another slot none.             *)
LEMMA CachePlaces ==
  ASSUME NEW t, TreeShape(t), NEW k, KVTree(t, k), NEW s \in Slots,
         NEW X, X = {x \in (DOMAIN t) \X (1..NumSlots) : x[2] <= Len(t[x[1]].value) /\ t[x[1]].value[x[2]] = s}
  PROVE  /\ s \in TreeSet(t) => Cardinality(X) = 1
         /\ s \notin TreeSet(t) => Cardinality(X) = 0
<1>1. Enumerates(SlotAt(t), Places(t), TreeSet(t))
  BY PlacesDiffer
<1>2. \A x : x \in X <=> x \in Places(t) /\ SlotAt(t)[x] = s
  <2>1. ASSUME NEW x \in X PROVE x \in Places(t) /\ SlotAt(t)[x] = s
    <3>1. PICK p \in DOMAIN t : \E i \in 1..NumSlots : x = <<p, i>> /\ i <= Len(t[p].value) /\ t[p].value[i] = s
      OBVIOUS
    <3>2. PICK i \in 1..NumSlots : x = <<p, i>> /\ i <= Len(t[p].value) /\ t[p].value[i] = s
      BY <3>1
    <3>3. Len(t[p].value) \in Nat
      BY LenProperties DEF TreeShape
    <3>4. i \in 1..Len(t[p].value)
      BY <3>2, <3>3
    <3> QED
      BY <3>2, <3>4, PlacesMean
  <2>2. ASSUME NEW x \in Places(t), SlotAt(t)[x] = s PROVE x \in X
    <3>1. PICK p \in DOMAIN t : \E i \in 1..Len(t[p].value) : x = <<p, i>>
      BY PlacesMean
    <3>2. PICK i \in 1..Len(t[p].value) : x = <<p, i>>
      BY <3>1
    <3>3. t[p].value[i] = s
      BY <2>2, <3>2, PlacesMean
    <3>4. i \in 1..NumSlots /\ i <= Len(t[p].value)
      <4>1. Len(t[p].value) <= NumSlots /\ NumSlots \in Nat
        BY EdgeBound, SlotsCount
      <4>2. Len(t[p].value) \in Nat
        BY LenProperties DEF TreeShape
      <4> QED
        BY <4>1, <4>2
    <3> QED
      BY <3>2, <3>3, <3>4
  <2> QED
    BY <2>1, <2>2
<1>3. ASSUME s \in TreeSet(t) PROVE Cardinality(X) = 1
  <2>1. PICK x \in Places(t) : s = SlotAt(t)[x]
    BY <1>1, <1>3 DEF Enumerates
  <2>2. X = {x}
    <3>1. \A y : y \in X <=> y = x
      BY <1>1, <1>2, <2>1 DEF Enumerates
    <3> QED
      BY <3>1
  <2> QED
    BY <2>2, FS_Singleton, Zenon
<1>4. ASSUME s \notin TreeSet(t) PROVE Cardinality(X) = 0
  <2>1. X = {}
    <3>1. \A y : y \notin X
      BY <1>1, <1>2, <1>4 DEF Enumerates
    <3> QED
      BY <3>1
  <2> QED
    BY <2>1, FS_EmptySet, Zenon
<1> QED
  BY <1>3, <1>4

(* What is uncached is the request's own.                                  *)
LEMMA OwnedMeans ==
  ASSUME WellFormed, NEW r \in Reqs
  PROVE  Uncached(r) = Owned[r]
<1>1. /\ Uncached(r) \subseteq Slots
      /\ \A s : s \in Uncached(r) <=>
           \/ \E i \in Len(prefix_indices[r])+1..Len(row[r]) : s = row[r][i]
           \/ phase[r] = "finished" /\ s = results[r][1].loc
  BY UncachedMeans
<1>2. \A s : s \in Owned[r] <=>
        \/ s \in Slots /\ \E i \in Len(prefix_indices[r])+1..Len(row[r]) : s = row[r][i]
        \/ s \in Slots /\ phase[r] = "finished" /\ s = results[r][1].loc
  BY DEF Owned, Own, Part
<1> QED
  BY <1>1, <1>2

(* A slot is the own slot of one request, or of none if it is free or the  *)
(* cache's.                                                                *)
LEMMA OwnersCount ==
  ASSUME WellFormed, MemoryRight, NEW s \in Slots, NEW R, R = {r \in Reqs : s \in Uncached(r)}
  PROVE  /\ s \in free_slots \/ s \in TreeSet(tree) => Cardinality(R) = 0
         /\ s \notin free_slots /\ s \notin TreeSet(tree) => Cardinality(R) = 1
<1>1. \A r : r \in R <=> r \in Reqs /\ s \in Owned[r]
  BY OwnedMeans
<1>2. Partition(free_slots, TreeSet(tree), Owned)
  BY DEF MemoryRight
<1>3. ASSUME s \in free_slots \/ s \in TreeSet(tree) PROVE Cardinality(R) = 0
  <2>1. R = {}
    <3>1. \A r : r \notin R
      BY <1>1, <1>2, <1>3 DEF Partition
    <3> QED
      BY <3>1
  <2> QED
    BY <2>1, FS_EmptySet, Zenon
<1>4. ASSUME s \notin free_slots, s \notin TreeSet(tree) PROVE Cardinality(R) = 1
  <2>1. PICK r \in Reqs : s \in Owned[r]
    BY <1>2, <1>4 DEF Partition
  <2>2. R = {r}
    <3>1. \A q : q \in R <=> q = r
      BY <1>1, <1>2, <2>1 DEF Partition
    <3> QED
      BY <3>1
  <2> QED
    BY <2>2, FS_Singleton, Zenon
<1> QED
  BY <1>3, <1>4

(* Each slot has one use.                                                  *)
LEMMA AccountsMean ==
  ASSUME WellFormed, MemoryRight
  PROVE  SlotsAccounted
<1> SUFFICES ASSUME NEW s \in Slots
             PROVE  (IF s \in free_slots THEN 1 ELSE 0)
                    + Cardinality({x \in (DOMAIN tree) \X (1..NumSlots) :
                                     /\ x[2] <= Len(tree[x[1]].value)
                                     /\ tree[x[1]].value[x[2]] = s})
                    + Cardinality({r \in Reqs : s \in Uncached(r)}) = 1
  BY DEF SlotsAccounted
<1>1. PICK X : X = {x \in (DOMAIN tree) \X (1..NumSlots) :
                      x[2] <= Len(tree[x[1]].value) /\ tree[x[1]].value[x[2]] = s}
  OBVIOUS
<1>2. PICK R : R = {r \in Reqs : s \in Uncached(r)}
  OBVIOUS
<1>3. free_slots \cap TreeSet(tree) = {}
  BY DEF MemoryRight, Partition
<1>4. /\ s \in TreeSet(tree) => Cardinality(X) = 1
      /\ s \notin TreeSet(tree) => Cardinality(X) = 0
  BY <1>1, CachePlaces DEF WellFormed, MemoryRight
<1>5. /\ s \in free_slots \/ s \in TreeSet(tree) => Cardinality(R) = 0
      /\ s \notin free_slots /\ s \notin TreeSet(tree) => Cardinality(R) = 1
  BY <1>2, OwnersCount
<1>6. (IF s \in free_slots THEN 1 ELSE 0) + Cardinality(X) + Cardinality(R) = 1
  BY <1>3, <1>4, <1>5
<1> QED
  BY <1>1, <1>2, <1>6, Zenon

(* The KV in the cache and in the rows is that of their tokens.            *)
LEMMA KVMeans ==
  ASSUME WellFormed, ReadsRight, MemoryRight
  PROVE  KVMatches
<1>1. ASSUME NEW p \in DOMAIN tree
      PROVE  /\ Len(PathSlots(tree, p)) = Len(p)
             /\ \A i \in 1..Len(p) : kv[PathSlots(tree, p)[i]] = SubSeq(p, 1, i)
  <2>1. TreeShape(tree) /\ p \in Names /\ IsPosition(tree, p)
    BY NodePositions DEF WellFormed
  <2>2. /\ Len(PathSlots(tree, p)) = Len(p)
        /\ \A i \in 1..Len(p) : /\ PathSlots(tree, p)[i] = SlotOf(tree, SubSeq(p, 1, i))
                                /\ IsPosition(tree, SubSeq(p, 1, i))
    BY <2>1, PathMeans
  <2>3. KVTree(tree, kv)
    BY DEF MemoryRight
  <2> QED
    BY <2>2, <2>3 DEF KVTree
<1>2. ASSUME NEW r \in Reqs, NEW j \in 1..Len(row[r])
      PROVE  kv[row[r][j]] = IF j <= Len(ids[r]) THEN SubSeq(ids[r], 1, j) ELSE <<>>
  <2>1. PICK pre \in Seq(Slots), a \in Nat : pre = prefix_indices[r] /\ a = Len(pre)
    BY FieldsMean
  <2>2. PICK rw \in Seq(Slots), x \in Nat : rw = row[r] /\ x = Len(rw)
    BY FieldsMean
  <2>3. PICK i \in Names, l \in Nat : i = ids[r] /\ l = Len(i)
    BY FieldsMean
  <2>4. PICK node \in Names : node = last_node[r]
    BY FieldsMean
  <2>5. j \in 1..x
    BY <2>2
  <2>6. CASE j > a
    <3>1. KVRow(kv, i, pre, rw)
      BY <2>1, <2>2, <2>3, Zenon DEF MemoryRight
    <3>2. j \in a+1..x
      BY <2>5, <2>6
    <3> QED
      BY <2>1, <2>2, <2>3, <3>1, <3>2 DEF KVRow
  <2>7. CASE ~(j > a)
    <3>1. ReadsPath(tree, node, pre) /\ IsPrefix(node, i) /\ RowReads(phase[r], pre, rw)
      BY <2>1, <2>2, <2>3, <2>4, Zenon DEF ReadsRight, RequestReads
    <3>2. j \in 1..a
      BY <2>5, <2>7
    <3>3. rw[j] = pre[j]
      <4>1. phase[r] \in {"chunk", "batch"}
        <5>1. rw # <<>>
          BY <2>2, <2>5, EmptySeq
        <5> QED
          BY <2>2, <5>1, FieldsMean DEF RequestOK, Phases
      <4> QED
        BY <2>1, <3>1, <3>2, <4>1 DEF RowReads
    <3>4. Len(node) = a /\ node \in DOMAIN tree
      <4>1. Len(node) = a /\ (node = <<>> \/ node \in DOMAIN tree)
        BY <2>1, <3>1 DEF ReadsPath
      <4> QED
        BY <3>2, <4>1, EmptySeq
    <3>5. PICK q : q = SubSeq(node, 1, j)
      OBVIOUS
    <3>6. q \in Names /\ Len(q) = j /\ IsPrefix(q, node)
      <4>1. j \in 0..Len(node)
        BY <3>2, <3>4
      <4> QED
        BY <3>5, <4>1, Cuts
    <3>7. IsPosition(tree, q)
      <4>1. q # <<>>
        BY <3>2, <3>6, EmptySeq
      <4> QED
        BY <3>4, <3>6, <4>1, NodePositions DEF WellFormed
    <3>8. SlotOf(tree, q) = pre[j] /\ kv[SlotOf(tree, q)] = q
      BY <3>1, <3>6, <3>7 DEF ReadsPath, MemoryRight, KVTree
    <3>9. j <= l /\ q = SubSeq(i, 1, j)
      <4>1. Len(node) <= Len(i) /\ IsPrefix(q, i)
        BY <3>1, <3>6, PrefixOrder
      <4>2. j <= l /\ j \in 0..Len(i)
        BY <2>3, <3>2, <3>4, <4>1
      <4> QED
        BY <3>6, <4>1, <4>2, Cuts
    <3>10. kv[rw[j]] = SubSeq(i, 1, j)
      BY <3>3, <3>8, <3>9, Zenon
    <3> QED
      BY <2>2, <2>3, <3>9, <3>10
  <2> QED
    BY <2>6, <2>7
<1> QED
  BY <1>1, <1>2, Zenon DEF KVMatches

(* Every slot has exactly one use, in every reachable state: none is freed *)
(* twice, freed while it is used, or lost.                                 *)
THEOREM SlotsKept == Spec => []SlotsAccounted
<1>1. WellFormed /\ MemoryRight => SlotsAccounted
  BY AccountsMean
<1> QED
  BY <1>1, MemoryKept, PTL

(* A request that holds a lock reads the path to its node, whatever the    *)
(* others split, insert and evict.                                         *)
THEOREM PrefixKept == Spec => []PrefixIsCached
<1>1. WellFormed /\ ReadsRight => PrefixIsCached
  BY ReadsMean
<1> QED
  BY <1>1, MemoryKept, PTL

(* The KV in the cache and in the rows was computed for the tokens it is   *)
(* read for.                                                               *)
THEOREM KVRight == Spec => []KVMatches
<1>1. WellFormed /\ ReadsRight /\ MemoryRight => KVMatches
  BY KVMeans
<1> QED
  BY <1>1, MemoryKept, PTL

(* What check_memory tests on an idle server: no memory is leaked.         *)
THEOREM NoMemoryLeaked == Spec => []IdleMemory
<1>1. WellFormed /\ BooksRight /\ MemoryRight => IdleMemory
  BY IdleMeans
<1> QED
  BY <1>1, MemoryKept, PTL
-----------------------------------------------------------------------------
(* The cache, the allocator and the requests implement KVOwnership.        *)

(* What the owner function o says when F is free, C is cached and U[r] is  *)
(* r's own.                                                                *)
Shows(o, F, C, U) ==
  /\ o \in [Slots -> KV!Owners]
  /\ \A s \in Slots : /\ o[s] = "free" <=> s \in F
                      /\ o[s] = "cache" <=> s \in C
                      /\ \A r \in Reqs : o[s] = r <=> s \in U[r]

(* The state KVOwnership sees is that of the slots.                        *)
SeenRight ==
  /\ Shows(owner, free_slots, TreeSet(tree), Owned)
  /\ pinned \in [Reqs -> SUBSET TreeSet(tree)]

(* The slots in the nodes are those of the positions.                      *)
LEMMA TreeSlotsMean ==
  ASSUME WellFormed, MemoryRight
  PROVE  TreeSlots(tree) = TreeSet(tree)
<1>1. TreeShape(tree) /\ KVTree(tree, kv)
  BY DEF WellFormed, MemoryRight
<1>2. \A x : x \in Places(tree) <=> \E p \in DOMAIN tree : \E i \in 1..Len(tree[p].value) : x = <<p, i>>
  BY <1>1, PlacesMean
<1>3. \A p \in DOMAIN tree : \A i \in 1..Len(tree[p].value) : SlotAt(tree)[<<p, i>>] = tree[p].value[i]
  BY <1>1, PlacesMean
<1>4. Enumerates(SlotAt(tree), Places(tree), TreeSet(tree))
  BY <1>1, PlacesDiffer
<1>5. \A s : s \in TreeSet(tree) <=> \E x \in Places(tree) : SlotAt(tree)[x] = s
  BY <1>4 DEF Enumerates
<1>6. \A s : s \in TreeSlots(tree) <=> \E p \in DOMAIN tree : \E i \in 1..Len(tree[p].value) : s = tree[p].value[i]
  <2>1. ASSUME NEW p \in DOMAIN tree
        PROVE  \A s : s \in ToSet(tree[p].value) <=> \E i \in 1..Len(tree[p].value) : s = tree[p].value[i]
    <3>1. tree[p].value \in Seq(Slots)
      BY <1>1 DEF TreeShape
    <3> QED
      BY <3>1, LenProperties DEF ToSet
  <2>2. \A s : s \in TreeSlots(tree) <=> \E p \in DOMAIN tree : s \in ToSet(tree[p].value)
    BY DEF TreeSlots, NodeSlots
  <2>3. ASSUME NEW s, s \in TreeSlots(tree)
        PROVE  \E p \in DOMAIN tree : \E i \in 1..Len(tree[p].value) : s = tree[p].value[i]
    <3>1. PICK p \in DOMAIN tree : s \in ToSet(tree[p].value)
      BY <2>2, <2>3
    <3>2. PICK i \in 1..Len(tree[p].value) : s = tree[p].value[i]
      BY <2>1, <3>1
    <3> QED
      BY <3>2
  <2>4. ASSUME NEW s, NEW p \in DOMAIN tree, \E i \in 1..Len(tree[p].value) : s = tree[p].value[i]
        PROVE  s \in TreeSlots(tree)
    <3>1. s \in ToSet(tree[p].value)
      BY <2>1, <2>4
    <3> QED
      BY <2>2, <3>1
  <2> QED
    BY <2>3, <2>4
<1>7. ASSUME NEW s PROVE s \in TreeSlots(tree) <=> s \in TreeSet(tree)
  <2>1. ASSUME NEW p \in DOMAIN tree, NEW i \in 1..Len(tree[p].value), s = tree[p].value[i]
        PROVE  \E x \in Places(tree) : SlotAt(tree)[x] = s
    <3>1. <<p, i>> \in Places(tree) /\ SlotAt(tree)[<<p, i>>] = s
      BY <1>2, <1>3, <2>1
    <3> QED
      BY <3>1
  <2>2. ASSUME NEW x \in Places(tree), SlotAt(tree)[x] = s
        PROVE  \E p \in DOMAIN tree : \E i \in 1..Len(tree[p].value) : s = tree[p].value[i]
    BY <1>2, <1>3, <2>2
  <2> QED
    BY <1>5, <1>6, <2>1, <2>2
<1> QED
  BY <1>7

(* Who owns a slot.                                                        *)
LEMMA OwnerShown ==
  ASSUME WellFormed, MemoryRight
  PROVE  Shows(owner, free_slots, TreeSet(tree), Owned)
<1>1. Partition(free_slots, TreeSet(tree), Owned)
  BY DEF MemoryRight
<1>2. /\ TreeSlots(tree) = TreeSet(tree)
      /\ \A r \in Reqs : Uncached(r) = Owned[r]
  BY TreeSlotsMean, OwnedMeans
<1>3. ASSUME NEW s \in Slots
      PROVE  /\ Owner(s) \in KV!Owners
             /\ Owner(s) = "free" <=> s \in free_slots
             /\ Owner(s) = "cache" <=> s \in TreeSet(tree)
             /\ \A r \in Reqs : Owner(s) = r <=> s \in Owned[r]
  <2> USE OwnerNames DEF KV!Owners
  <2>1. CASE s \in free_slots
    <3>1. Owner(s) = "free"
      BY <2>1 DEF Owner
    <3> QED
      BY <1>1, <2>1, <3>1 DEF Partition
  <2>2. CASE s \notin free_slots /\ s \in TreeSet(tree)
    <3>1. Owner(s) = "cache"
      BY <1>2, <2>2 DEF Owner
    <3> QED
      BY <1>1, <2>2, <3>1 DEF Partition
  <2>3. CASE s \notin free_slots /\ s \notin TreeSet(tree)
    <3>1. PICK r \in Reqs : s \in Owned[r]
      BY <1>1, <2>3 DEF Partition
    <3>2. \A q \in Reqs : s \in Uncached(q) <=> q = r
      BY <1>1, <1>2, <3>1 DEF Partition
    <3>3. Owner(s) = CHOOSE q \in Reqs : s \in Uncached(q)
      BY <1>2, <2>3 DEF Owner
    <3>4. Owner(s) = r
      BY <3>2, <3>3
    <3> QED
      BY <1>2, <2>3, <3>2, <3>4
  <2> QED
    BY <2>1, <2>2, <2>3
<1> QED
  BY <1>3 DEF Shows, owner

(* A request reads cached slots only.                                      *)
LEMMA PinsShown ==
  ASSUME WellFormed, ReadsRight
  PROVE  pinned \in [Reqs -> SUBSET TreeSet(tree)]
<1>1. ASSUME NEW r \in Reqs PROVE ToSet(prefix_indices[r]) \subseteq TreeSet(tree)
  <2>1. PICK node \in Names, pre \in Seq(Slots) : node = last_node[r] /\ pre = prefix_indices[r]
    BY FieldsMean
  <2>2. ReadsPath(tree, node, pre) /\ TreeShape(tree)
    BY <2>1, Zenon DEF ReadsRight, RequestReads, WellFormed
  <2>3. Len(pre) = Len(node) /\ Len(node) \in Nat /\ (node = <<>> \/ node \in DOMAIN tree)
    BY <2>2, PrefixOrder DEF ReadsPath
  <2>4. ASSUME NEW i \in 1..Len(pre) PROVE pre[i] \in TreeSet(tree)
    <3>1. node # <<>>
      BY <2>3, EmptySeq
    <3>2. PICK q : CutTo(q, node, i)
      BY DEF CutTo
    <3>3. i \in 0..Len(node)
      BY <2>3
    <3>4. q \in Names /\ Len(q) = i /\ IsPrefix(q, node)
      BY <3>2, <3>3, Cuts DEF CutTo
    <3>5. q # <<>>
      BY <3>4, EmptySeq
    <3>6. IsPosition(tree, q)
      BY <2>2, <2>3, <3>1, <3>4, <3>5, NodePositions
    <3>7. SlotOf(tree, q) = pre[i] /\ SlotOf(tree, q) \in Slots
      BY <2>2, <3>4, <3>6, SlotTyped DEF ReadsPath
    <3> QED
      BY <3>6, <3>7 DEF TreeSet
  <2>5. \A s \in ToSet(pre) : \E i \in 1..Len(pre) : s = pre[i]
    BY DEF ToSet
  <2>6. ToSet(pre) \subseteq TreeSet(tree)
    BY <2>4, <2>5
  <2> QED
    BY <2>1, <2>6, Zenon
<1> QED
  BY <1>1 DEF pinned

(* What the invariant says of the state KVOwnership sees.                  *)
LEMMA Seen == WellFormed /\ ReadsRight /\ MemoryRight => SeenRight
BY OwnerShown, PinsShown DEF SeenRight

(* A step of r changes the owner of r's, of free and of cached slots only. *)
LEMMA OwnedFrame ==
  ASSUME NEW r \in Reqs, OthersSame(r)
  PROVE  /\ \A q \in Reqs \ {r} : Owned'[q] = Owned[q] /\ pinned'[q] = pinned[q]
         /\ pinned' = [pinned EXCEPT ![r] = pinned'[r]]
<1>1. ASSUME NEW q \in Reqs \ {r} PROVE Owned'[q] = Owned[q]
  <2>1. /\ phase'[q] = phase[q] /\ results'[q] = results[q] /\ prefix_indices'[q] = prefix_indices[q]
        /\ row'[q] = row[q]
    BY <1>1 DEF OthersSame
  <2>2. Owned'[q] = Own(phase'[q], prefix_indices'[q], row'[q], results'[q])
    BY Zenon DEF Owned
  <2>3. Owned[q] = Own(phase[q], prefix_indices[q], row[q], results[q])
    BY Zenon DEF Owned
  <2> QED
    BY <2>1, <2>2, <2>3, Zenon
<1>2. ASSUME NEW q \in Reqs \ {r} PROVE pinned'[q] = pinned[q]
  <2>1. phase'[q] = phase[q] /\ prefix_indices'[q] = prefix_indices[q]
    BY <1>2 DEF OthersSame
  <2>2. (q \in Holders)' <=> q \in Holders
    BY <2>1 DEF Holders
  <2>3. pinned'[q] = IF (q \in Holders)' THEN ToSet(prefix_indices'[q]) ELSE {}
    BY Zenon DEF pinned
  <2>4. pinned[q] = IF q \in Holders THEN ToSet(prefix_indices[q]) ELSE {}
    BY Zenon DEF pinned
  <2> QED
    BY <2>1, <2>2, <2>3, <2>4, Zenon
<1>3. pinned' = [pinned EXCEPT ![r] = pinned'[r]]
  <2>1. DOMAIN pinned' = Reqs /\ DOMAIN pinned = Reqs /\ pinned' = [q \in Reqs |-> pinned'[q]]
    BY DEF pinned
  <2> QED
    BY <1>2, <2>1
<1> QED
  BY <1>1, <1>2, <1>3

(* What a slot whose owner changes was and becomes.                        *)
LEMMA ChangesOwner ==
  ASSUME SeenRight, SeenRight', NEW r \in Reqs, \A q \in Reqs \ {r} : Owned'[q] = Owned[q],
         NEW s \in Slots, owner'[s] # owner[s]
  PROVE  owner[s] \in {"free", "cache", r} /\ owner'[s] \in {"free", "cache", r}
<1> USE DEF SeenRight, Shows, KV!Owners
<1>1. ASSUME NEW q \in Reqs \ {r}, owner[s] = q PROVE FALSE
  <2>1. s \in Owned[q]
    BY <1>1
  <2>2. s \in Owned'[q]
    BY <1>1, <2>1
  <2> QED
    BY <1>1, <2>2
<1>2. ASSUME NEW q \in Reqs \ {r}, owner'[s] = q PROVE FALSE
  <2>1. s \in Owned'[q]
    BY <1>2
  <2>2. s \in Owned[q]
    BY <1>2, <2>1
  <2> QED
    BY <1>2, <2>2
<1>3. owner[s] \in KV!Owners /\ owner'[s] \in KV!Owners
  OBVIOUS
<1> QED
  BY <1>1, <1>2, <1>3

(* An allocation for r is an Acquire.                                      *)
LEMMA IsAcquire ==
  ASSUME SeenRight, SeenRight', NEW r \in Reqs, OthersSame(r), pinned' = pinned,
         TreeSet(tree') \subseteq TreeSet(tree), Owned[r] \subseteq Owned'[r]
  PROVE  KV!Acquire(r)
<1>1. owner' \in [Slots -> KV!Owners]
  BY DEF SeenRight, Shows
<1>2. ASSUME NEW s \in Slots, owner'[s] # owner[s]
      PROVE  \/ owner[s] = "free" /\ owner'[s] = r
             \/ s \in KV!Unpinned /\ owner'[s] \in {r, "free"}
  <2>1. owner[s] \in {"free", "cache", r} /\ owner'[s] \in {"free", "cache", r}
    BY <1>2, ChangesOwner, OwnedFrame
  <2>2. owner'[s] = "cache" => owner[s] = "cache"
    BY DEF SeenRight, Shows
  <2>3. owner[s] = r => owner'[s] = r
    BY DEF SeenRight, Shows
  <2>4. CASE owner[s] = "free"
    BY <1>2, <2>1, <2>2, <2>4
  <2>5. CASE owner[s] = "cache"
    <3>1. owner'[s] # "cache"
      BY <1>2, <2>5
    <3>2. s \notin TreeSet(tree')
      BY <3>1 DEF SeenRight, Shows
    <3>3. \A q \in Reqs : s \notin pinned'[q]
      BY <3>2 DEF SeenRight
    <3>4. s \in KV!Unpinned
      BY <2>5, <3>3 DEF KV!Unpinned, KV!HeldBy
    <3> QED
      BY <2>1, <3>1, <3>4
  <2> QED
    BY <1>2, <2>1, <2>3, <2>4, <2>5
<1> QED
  BY <1>1, <1>2 DEF KV!Acquire

(* A handover of r's slots is a Publish.                                   *)
LEMMA IsPublish ==
  ASSUME SeenRight, SeenRight', NEW r \in Reqs, OthersSame(r),
         TreeSet(tree) \subseteq TreeSet(tree'), free_slots \subseteq free_slots'
  PROVE  KV!Publish(r)
<1>1. owner' \in [Slots -> KV!Owners]
  BY DEF SeenRight, Shows
<1>2. ASSUME NEW s \in Slots, owner'[s] # owner[s]
      PROVE  owner[s] = r /\ owner'[s] \in {"cache", "free"}
  <2>1. owner[s] \in {"free", "cache", r} /\ owner'[s] \in {"free", "cache", r}
    BY <1>2, ChangesOwner, OwnedFrame
  <2>2. /\ owner[s] = "cache" => owner'[s] = "cache"
        /\ owner[s] = "free" => owner'[s] = "free"
    BY DEF SeenRight, Shows
  <2> QED
    BY <1>2, <2>1, <2>2
<1>3. pinned'[r] \subseteq {s \in Slots : owner'[s] = "cache"}
  BY DEF SeenRight, Shows, TreeSet
<1>4. pinned' = [pinned EXCEPT ![r] = pinned'[r]]
  BY OwnedFrame
<1> QED
  BY <1>1, <1>2, <1>3, <1>4 DEF KV!Publish

(* What memory pressure may take: unlocked cached slots.                   *)
LEMMA Evicted ==
  ASSUME SeenRight, SeenRight', NEW s \in Slots, owner[s] = "cache", owner'[s] # "cache",
         NEW q \in Reqs, pinned'[q] = pinned[q]
  PROVE  s \notin pinned[q]
<1>1. s \notin TreeSet(tree')
  BY DEF SeenRight, Shows
<1> QED
  BY <1>1 DEF SeenRight

(* A retraction is a Drop.                                                 *)
LEMMA IsDrop ==
  ASSUME SeenRight, SeenRight', NEW r \in Reqs, OthersSame(r), pinned'[r] = {}, Owned'[r] = {},
         TreeSet(tree') \subseteq TreeSet(tree), free_slots \subseteq free_slots'
  PROVE  KV!Drop(r)
<1>1. PICK E : E = {s \in Slots : owner[s] = "cache" /\ owner'[s] # "cache"}
  OBVIOUS
<1>2. E \subseteq {s \in KV!HeldBy("cache") : \A q \in Reqs \ {r} : s \notin pinned[q]}
  <2>1. ASSUME NEW s \in E, NEW q \in Reqs \ {r} PROVE s \notin pinned[q]
    BY <1>1, <2>1, Evicted, OwnedFrame
  <2> QED
    BY <1>1, <2>1 DEF KV!HeldBy
<1>3. ASSUME NEW s \in Slots
      PROVE  owner'[s] = IF s \in E \cup KV!HeldBy(r) THEN "free" ELSE owner[s]
  <2>1. owner'[s] # owner[s] => owner[s] \in {"free", "cache", r} /\ owner'[s] \in {"free", "cache", r}
    BY ChangesOwner, OwnedFrame
  <2>2. /\ owner'[s] = "cache" => owner[s] = "cache"
        /\ owner[s] = "free" => owner'[s] = "free"
        /\ owner'[s] # r
    BY DEF SeenRight, Shows
  <2>3. s \in KV!HeldBy(r) <=> owner[s] = r
    BY DEF KV!HeldBy
  <2>4. r # "cache" /\ r # "free"
    BY OwnerNames
  <2> QED
    BY <1>1, <2>1, <2>2, <2>3, <2>4
<1>4. owner' = [s \in Slots |-> IF s \in E \cup KV!HeldBy(r) THEN "free" ELSE owner[s]]
  BY <1>3 DEF SeenRight, Shows
<1>5. pinned' = [pinned EXCEPT ![r] = {}]
  BY OwnedFrame
<1> QED
  BY <1>2, <1>4, <1>5 DEF KV!Drop

(* check_decode_mem is an Evict.                                           *)
LEMMA IsEvict ==
  ASSUME SeenRight, SeenRight', pinned' = pinned, Owned' = Owned,
         TreeSet(tree') \subseteq TreeSet(tree), free_slots \subseteq free_slots'
  PROVE  KV!Evict
<1>1. PICK E : E = {s \in Slots : owner[s] = "cache" /\ owner'[s] # "cache"}
  OBVIOUS
<1>2. E \subseteq KV!Unpinned
  <2>1. ASSUME NEW s \in E, NEW q \in Reqs PROVE s \notin pinned[q]
    BY <1>1, <2>1, Evicted
  <2> QED
    BY <1>1, <2>1 DEF KV!Unpinned, KV!HeldBy
<1>3. ASSUME NEW s \in Slots
      PROVE  owner'[s] = IF s \in E THEN "free" ELSE owner[s]
  <2>1. /\ owner'[s] = "cache" => owner[s] = "cache"
        /\ owner[s] = "free" => owner'[s] = "free"
        /\ \A q \in Reqs : owner[s] = q <=> owner'[s] = q
        /\ owner[s] \in Reqs \cup {"free", "cache"} /\ owner'[s] \in Reqs \cup {"free", "cache"}
    BY DEF SeenRight, Shows, KV!Owners
  <2> QED
    BY <1>1, <2>1
<1>4. owner' = [s \in Slots |-> IF s \in E THEN "free" ELSE owner[s]]
  BY <1>3 DEF SeenRight, Shows
<1> QED
  BY <1>2, <1>4 DEF KV!Evict

(* A step that moves no slot and pins none is a stutter.                   *)
LEMMA IsStutter ==
  ASSUME SeenRight, SeenRight', pinned' = pinned, \A q \in Reqs : Owned'[q] = Owned[q],
         TreeSet(tree') = TreeSet(tree), free_slots' = free_slots
  PROVE  UNCHANGED KV!vars
<1>1. ASSUME NEW s \in Slots PROVE owner'[s] = owner[s]
  <2>1. /\ owner'[s] = "cache" <=> owner[s] = "cache"
        /\ owner[s] = "free" <=> owner'[s] = "free"
        /\ \A q \in Reqs : owner[s] = q <=> owner'[s] = q
        /\ owner[s] \in Reqs \cup {"free", "cache"} /\ owner'[s] \in Reqs \cup {"free", "cache"}
    BY DEF SeenRight, Shows, KV!Owners
  <2> QED
    BY <2>1
<1>2. owner' = owner
  BY <1>1 DEF SeenRight, Shows
<1> QED
  BY <1>2 DEF KV!vars

(* A request admitted with a lock on what it matched is a Pin.             *)
LEMMA IsPin ==
  ASSUME SeenRight, SeenRight', NEW r \in Reqs, OthersSame(r), pinned[r] = {}, Owned[r] = {}, Owned'[r] = {},
         TreeSet(tree') = TreeSet(tree), free_slots' = free_slots
  PROVE  KV!Pin(r)
<1>1. \A q \in Reqs : Owned'[q] = Owned[q]
  BY OwnedFrame
<1>2. ASSUME NEW s \in Slots PROVE owner'[s] = owner[s]
  <2>1. /\ owner'[s] = "cache" <=> owner[s] = "cache"
        /\ owner[s] = "free" <=> owner'[s] = "free"
        /\ \A q \in Reqs : owner[s] = q <=> owner'[s] = q
        /\ owner[s] \in Reqs \cup {"free", "cache"} /\ owner'[s] \in Reqs \cup {"free", "cache"}
    BY <1>1 DEF SeenRight, Shows, KV!Owners
  <2> QED
    BY <2>1
<1>3. owner' = owner
  BY <1>2 DEF SeenRight, Shows
<1>4. KV!HeldBy(r) = {}
  BY DEF SeenRight, Shows, KV!HeldBy
<1>5. pinned'[r] \subseteq KV!HeldBy("cache")
  BY DEF SeenRight, Shows, TreeSet, KV!HeldBy
<1>6. pinned' = [pinned EXCEPT ![r] = pinned'[r]]
  BY OwnedFrame
<1> QED
  BY <1>3, <1>4, <1>5, <1>6 DEF KV!Pin

(* A flush of an idle cache is a Reset.                                    *)
LEMMA IsReset ==
  ASSUME SeenRight, SeenRight', \A r \in Reqs : pinned[r] = {} /\ Owned[r] = {},
         pinned' = pinned, free_slots' = Slots
  PROVE  KV!Reset
<1>1. \A r \in Reqs : KV!HeldBy(r) = {}
  BY DEF SeenRight, Shows, KV!HeldBy
<1>2. owner' = [s \in Slots |-> "free"]
  BY DEF SeenRight, Shows
<1> QED
  BY <1>1, <1>2 DEF KV!Reset

(* What r pins, before and after a step.                                   *)
LEMMA Pins ==
  ASSUME NEW r \in Reqs
  PROVE  /\ pinned[r] = IF phase[r] \in Holding THEN ToSet(prefix_indices[r]) ELSE {}
         /\ pinned'[r] = IF phase'[r] \in Holding THEN ToSet(prefix_indices'[r]) ELSE {}
BY DEF pinned, Holders, Holding

(* What r owns is in its row, unless a delayed token is in flight.         *)
LEMMA OwnsRow ==
  ASSUME NEW r \in Reqs
  PROVE  /\ phase[r] # "finished" => Owned[r] = Part(row[r], Len(prefix_indices[r]), Len(row[r]))
         /\ phase'[r] # "finished" => Owned'[r] = Part(row'[r], Len(prefix_indices'[r]), Len(row'[r]))
<1> HIDE DEF Slots
<1>1. ASSUME NEW ph, ph # "finished", NEW pre, NEW rw, NEW res
      PROVE  Own(ph, pre, rw, res) = Part(rw, Len(pre), Len(rw))
  <2>1. {s \in Slots : ph = "finished" /\ s = res[1].loc} = {}
    BY <1>1
  <2> QED
    BY <2>1 DEF Own
<1>2. Owned[r] = Own(phase[r], prefix_indices[r], row[r], results[r])
  BY Zenon DEF Owned
<1>3. Owned'[r] = Own(phase'[r], prefix_indices'[r], row'[r], results'[r])
  BY Zenon DEF Owned
<1>4. phase[r] # "finished" => Owned[r] = Part(row[r], Len(prefix_indices[r]), Len(row[r]))
  <2>1. PICK ph, pre, rw, res : ph = phase[r] /\ pre = prefix_indices[r] /\ rw = row[r] /\ res = results[r]
    OBVIOUS
  <2>2. ph # "finished" => Own(ph, pre, rw, res) = Part(rw, Len(pre), Len(rw))
    BY <1>1
  <2> QED
    BY <1>2, <2>1, <2>2, Zenon
<1>5. phase'[r] # "finished" => Owned'[r] = Part(row'[r], Len(prefix_indices'[r]), Len(row'[r]))
  <2>1. PICK ph, pre, rw, res : ph = phase'[r] /\ pre = prefix_indices'[r] /\ rw = row'[r] /\ res = results'[r]
    OBVIOUS
  <2>2. ph # "finished" => Own(ph, pre, rw, res) = Part(rw, Len(pre), Len(rw))
    BY <1>1
  <2> QED
    BY <1>3, <2>1, <2>2, Zenon
<1> QED
  BY <1>4, <1>5

(* Without a row it owns nothing.                                          *)
LEMMA OwnsNothing ==
  ASSUME WellFormed, WellFormed', NEW r \in Reqs
  PROVE  /\ phase[r] # "finished" /\ row[r] = <<>> => Owned[r] = {}
         /\ phase'[r] # "finished" /\ row'[r] = <<>> => Owned'[r] = {}
<1>1. ASSUME NEW a \in Nat PROVE Part(<<>>, a, Len(<<>>)) = {}
  <2>1. a+1..Len(<<>>) = {}
    BY EmptySeq
  <2> QED
    BY <2>1 DEF Part
<1>2. Len(prefix_indices[r]) \in Nat
  BY FieldsMean
<1>3. Len(prefix_indices'[r]) \in Nat
  <2>1. prefix_indices'[r] \in Seq(Slots)
    BY DEF WellFormed
  <2> QED
    BY <2>1, LenProperties
<1>4. phase[r] # "finished" /\ row[r] = <<>> => Owned[r] = {}
  BY <1>1, <1>2, OwnsRow, Zenon
<1>5. phase'[r] # "finished" /\ row'[r] = <<>> => Owned'[r] = {}
  BY <1>1, <1>3, OwnsRow, Zenon
<1> QED
  BY <1>4, <1>5

(* The steps of r that KVOwnership does not see.                           *)
LEMMA SeenQuiet ==
  ASSUME WellFormed, WellFormed', SeenRight, SeenRight', NEW r \in Reqs,
         \/ \E prompt \in Prompts : Receive(r, prompt)
         \/ Peek(r)
         \/ \E n \in 1..ChunkSize : AddChunked(r, n)
         \/ \E token \in Tokens : ProcessDecode(r, token)
  PROVE  UNCHANGED KV!vars
<1>0. OthersSame(r)
  BY OthersAlone DEF OneStep
<1>1. SUFFICES /\ Owned'[r] = Owned[r] /\ pinned'[r] = pinned[r]
               /\ TreeSet(tree') = TreeSet(tree) /\ free_slots' = free_slots
  <2>1. /\ \A q \in Reqs \ {r} : Owned'[q] = Owned[q] /\ pinned'[q] = pinned[q]
        /\ pinned' = [pinned EXCEPT ![r] = pinned'[r]]
    BY <1>0, OwnedFrame
  <2>2. \A q \in Reqs : Owned'[q] = Owned[q]
    BY <1>1, <2>1
  <2>3. pinned' = pinned
    BY <1>1, <2>1 DEF SeenRight
  <2> QED
    BY <1>1, <2>2, <2>3, IsStutter
<1>2. RequestOK(phase[r], ids[r], fill_len[r], prefix_indices[r], last_node[r], row[r], results[r])
  BY FieldsMean
<1>3. ASSUME NEW prompt \in Prompts, Receive(r, prompt)
      PROVE  /\ Owned'[r] = Owned[r] /\ pinned'[r] = pinned[r]
             /\ TreeSet(tree') = TreeSet(tree) /\ free_slots' = free_slots
  <2>1. /\ phase[r] = "idle" /\ phase'[r] = "waiting" /\ row' = row /\ tree' = tree /\ free_slots' = free_slots
    BY <1>3 DEF Receive, cacheVars, WellFormed
  <2>2. row[r] = <<>> /\ row'[r] = <<>>
    BY <1>2, <2>1 DEF RequestOK
  <2>3. Owned'[r] = {} /\ Owned[r] = {}
    BY <2>1, <2>2, OwnsNothing
  <2>4. pinned[r] = {} /\ pinned'[r] = {}
    BY <2>1, Pins DEF Holding
  <2> QED
    BY <2>1, <2>3, <2>4
<1>4. ASSUME Peek(r)
      PROVE  /\ Owned'[r] = Owned[r] /\ pinned'[r] = pinned[r]
             /\ TreeSet(tree') = TreeSet(tree) /\ free_slots' = free_slots
  <2>1. UNCHANGED <<free_slots, row, phase, prefix_indices, results>>
    BY <1>4 DEF Peek
  <2>2. SameSlots(tree, tree')
    BY <1>4, PeekMeans DEF SplitsNode
  <2>3. TreeSet(tree') = TreeSet(tree)
    BY <2>2, SetSame
  <2>4. Owned'[r] = Owned[r]
    BY <2>1, Zenon DEF Owned
  <2>5. pinned'[r] = pinned[r]
    BY <2>1, Pins
  <2> QED
    BY <2>1, <2>3, <2>4, <2>5
<1>5. ASSUME NEW n \in 1..ChunkSize, AddChunked(r, n)
      PROVE  /\ Owned'[r] = Owned[r] /\ pinned'[r] = pinned[r]
             /\ TreeSet(tree') = TreeSet(tree) /\ free_slots' = free_slots
  <2>1. /\ phase[r] = "chunked" /\ phase'[r] = "admitted"
        /\ UNCHANGED <<tree, free_slots, row, prefix_indices>>
    BY <1>5 DEF AddChunked, cacheVars, WellFormed
  <2>2. row[r] = <<>> /\ row'[r] = <<>>
    BY <1>2, <2>1 DEF RequestOK
  <2>3. Owned'[r] = {} /\ Owned[r] = {}
    BY <2>1, <2>2, OwnsNothing
  <2>4. pinned'[r] = pinned[r]
    BY <2>1, Pins DEF Holding
  <2> QED
    BY <2>1, <2>3, <2>4
<1>6. ASSUME NEW token \in Tokens, ProcessDecode(r, token)
      PROVE  /\ Owned'[r] = Owned[r] /\ pinned'[r] = pinned[r]
             /\ TreeSet(tree') = TreeSet(tree) /\ free_slots' = free_slots
  <2>1. phase[r] = "batch" /\ UNCHANGED <<tree, free_slots, phase, row, prefix_indices>>
    BY <1>6 DEF ProcessDecode, cacheVars
  <2>2. Owned'[r] = Owned[r]
    BY <2>1, OwnsRow, Zenon
  <2>3. pinned'[r] = pinned[r]
    BY <2>1, Pins
  <2> QED
    BY <2>1, <2>2, <2>3
<1> QED
  BY <1>3, <1>4, <1>5, <1>6

(* add_one_req pins what it matched.                                       *)
LEMMA AdmitPins ==
  ASSUME WellFormed, WellFormed', SeenRight, SeenRight', NEW r \in Reqs, NEW n \in 1..ChunkSize, Admit(r, n)
  PROVE  KV!Pin(r)
<1>1. phase[r] = "waiting" /\ phase'[r] = "admitted" /\ free_slots' = free_slots /\ row' = row
  BY DEF Admit, WellFormed
<1>2. OthersSame(r)
  BY OthersAlone DEF OneStep
<1>3. PICK m : m = MatchPrefix(tree, MaxPrefixIds(r))
  OBVIOUS
<1>4. Matches(tree, MaxPrefixIds(r), m) /\ SameSlots(m.tree, tree')
  BY <1>3, AdmitMeans
<1>5. SameSlots(tree, tree')
  BY <1>4 DEF Matches, SplitsNode, SameSlots
<1>6. TreeSet(tree') = TreeSet(tree)
  BY <1>5, SetSame
<1>7. row[r] = <<>> /\ row'[r] = <<>>
  BY <1>1, NothingHeld
<1>8. Owned[r] = {} /\ Owned'[r] = {}
  BY <1>1, <1>7, OwnsNothing
<1>9. pinned[r] = {}
  BY <1>1, Pins DEF Holding
<1> QED
  BY <1>1, <1>2, <1>6, <1>8, <1>9, IsPin

(* An allocation takes cached slots and none of r's.                       *)
LEMMA AllocSeen ==
  ASSUME WellFormed, WellFormed', MemoryRight, MemoryRight', NEW r \in Reqs, OthersSame(r),
         NEW n \in Nat, NEW E, NEW new, Allocates(n, E, new)
  PROVE  TreeSet(tree') \subseteq TreeSet(tree) /\ Owned[r] \subseteq Owned'[r]
<1>1. TreeSet(tree') \subseteq TreeSet(tree)
  <2>1. Deletes(tree, tree', E) /\ TreeShape(tree) /\ KVTree(tree, kv)
    BY DEF Allocates, WellFormed, MemoryRight
  <2>2. TreeSet(tree') = TreeSet(tree) \ NodeSlots(tree, E)
    BY <2>1, SetDeleted
  <2> QED
    BY <2>2
<1>2. /\ Partition(free_slots, TreeSet(tree), Owned)
      /\ Partition(free_slots', TreeSet(tree'), Owned')
  BY DEF MemoryRight
<1>3. Owned[r] \cap free_slots' = {} /\ Owned[r] \cap TreeSet(tree') = {}
  BY AllocMoves
<1>4. ASSUME NEW s \in Owned[r] PROVE s \in Owned'[r]
  <2>1. s \in Slots
    BY <1>2 DEF Partition
  <2>2. PICK q \in Reqs : s \in Owned'[q]
    BY <1>2, <1>3, <2>1 DEF Partition
  <2>3. ASSUME q # r PROVE FALSE
    <3>1. s \in Owned[q]
      BY <2>2, <2>3, OwnedFrame
    <3> QED
      BY <1>2, <2>3, <3>1 DEF Partition
  <2> QED
    BY <2>2, <2>3
<1> QED
  BY <1>1, <1>4

(* prepare_for_extend and prepare_for_decode acquire.                      *)
LEMMA AllocAcquires ==
  ASSUME WellFormed, WellFormed', MemoryRight, MemoryRight', SeenRight, SeenRight', NEW r \in Reqs,
         PrepareForExtend(r) \/ PrepareForDecode(r)
  PROVE  KV!Acquire(r)
<1>1. OthersSame(r)
  BY OthersAlone DEF OneStep
<1>2. \E n \in Nat : \E E, new : Allocates(n, E, new)
  <2>1. CASE PrepareForExtend(r)
    BY <2>1, ExtendMeans DEF Extends
  <2>2. CASE PrepareForDecode(r)
    BY <2>2, DecodeMeans
  <2> QED
    BY <2>1, <2>2
<1>3. TreeSet(tree') \subseteq TreeSet(tree) /\ Owned[r] \subseteq Owned'[r]
  BY <1>1, <1>2, AllocSeen
<1>4. pinned'[r] = pinned[r]
  <2>1. phase[r] \in Holding /\ phase'[r] \in Holding /\ prefix_indices' = prefix_indices
    BY DEF PrepareForExtend, PrepareForDecode, WellFormed, Holding
  <2> QED
    BY <2>1, Pins
<1>5. pinned' = pinned
  <2>1. pinned' = [pinned EXCEPT ![r] = pinned'[r]]
    BY <1>1, OwnedFrame
  <2> QED
    BY <1>4, <2>1 DEF SeenRight
<1> QED
  BY <1>1, <1>3, <1>5, IsAcquire

(* cache_unfinished_req and cache_finished_req publish, and so does the    *)
(* return of a delayed slot.                                               *)
LEMMA HandoverPublishes ==
  ASSUME WellFormed, SeenRight, SeenRight', NEW r \in Reqs,
         StashChunk(r) \/ ProcessLast(r) \/ (\E token \in Tokens : ProcessPrefill(r, token)) \/ FreeDelayed(r)
  PROVE  KV!Publish(r)
<1>1. OthersSame(r)
  BY OthersAlone DEF OneStep
<1>2. ASSUME NEW f, NEW key, NEW value, NEW t, NEW n, Publishes(r, f, key, value, t, n)
      PROVE  TreeSet(tree) \subseteq TreeSet(tree') /\ free_slots \subseteq free_slots'
  <2>1. Caches(r, key, value, t, n)
    BY <1>2 DEF Publishes
  <2>2. free_slots \subseteq free_slots'
    BY <2>1 DEF Caches
  <2>3. ASSUME NEW q, IsPosition(tree, q) PROVE IsPosition(tree', q) /\ SlotOf(tree', q) = SlotOf(tree, q)
    <3>1. IsPrefix(q, q)
      BY <2>3, PrefixOrder DEF IsPosition
    <3>2. KeepsPath(tree, tree', q)
      BY <2>1, CachesKeeps
    <3> QED
      BY <2>3, <3>1, <3>2 DEF KeepsPath
  <2> QED
    BY <2>2, <2>3 DEF TreeSet
<1>3. TreeSet(tree) \subseteq TreeSet(tree') /\ free_slots \subseteq free_slots'
  <2>1. ASSUME StashChunk(r) \/ \E token \in Tokens : ProcessPrefill(r, token)
        PROVE  \E f, key, value, t, n : Publishes(r, f, key, value, t, n)
    <3>1. CacheUnfinished(r) /\ (phase[r] = "chunk" \/ (phase[r] = "batch" /\ results[r] # <<>>))
      BY <2>1 DEF StashChunk, ProcessPrefill
    <3> QED
      BY <3>1, ComputedPart, UnfinishedReads
  <2>2. ASSUME ProcessLast(r) PROVE \E f, key, value, t, n : Publishes(r, f, key, value, t, n)
    <3>1. CacheFinished(r) /\ phase[r] = "batch" /\ results[r] # <<>>
      BY <2>2 DEF ProcessLast
    <3>2. 0 < Len(ids[r]) /\ Len(ids[r]) <= Len(row[r])
      <4>1. Len(ids[r]) <= Len(row[r])
        BY <3>1, BatchFields
      <4>2. 0 < fill_len[r] /\ fill_len[r] <= Len(ids[r]) /\ fill_len[r] \in Nat /\ Len(ids[r]) \in Nat
        BY <3>1, ComputedPart
      <4> QED
        BY <4>1, <4>2
    <3> QED
      BY <3>1, <3>2, FinishedPublishes
  <2>3. ASSUME FreeDelayed(r) PROVE tree' = tree /\ free_slots \subseteq free_slots'
    BY <2>3 DEF FreeDelayed, cacheVars
  <2> QED
    BY <1>2, <2>1, <2>2, <2>3
<1> QED
  BY <1>1, <1>3, IsPublish

(* retract_decode drops what r holds, and evicts.                          *)
LEMMA RetractDrops ==
  ASSUME WellFormed, WellFormed', MemoryRight, SeenRight, SeenRight', NEW r \in Reqs, NEW n \in 0..NumSlots,
         Retract(r, n)
  PROVE  KV!Drop(r)
<1>1. OthersSame(r)
  BY OthersAlone DEF OneStep
<1>2. phase'[r] = "waiting" /\ row'[r] = <<>>
  BY DEF Retract, ReleaseRow, WellFormed
<1>3. pinned'[r] = {} /\ Owned'[r] = {}
  BY <1>2, Pins, OwnsNothing DEF Holding
<1>4. PICK t, E : Retracts(r, t, E)
  BY RetractMeans
<1>5. /\ TreeShape(t) /\ SameSlots(tree, t) /\ Deletes(t, tree', E)
      /\ free_slots' = free_slots \cup Uncached(r) \cup NodeSlots(t, E)
  BY <1>4 DEF Retracts
<1>6. TreeSet(t) = TreeSet(tree) /\ KVTree(t, kv)
  BY <1>5, SetSame DEF MemoryRight
<1>7. TreeSet(tree') = TreeSet(t) \ NodeSlots(t, E)
  BY <1>5, <1>6, SetDeleted
<1>8. TreeSet(tree') \subseteq TreeSet(tree) /\ free_slots \subseteq free_slots'
  BY <1>5, <1>6, <1>7
<1> QED
  BY <1>1, <1>3, <1>8, IsDrop

(* check_decode_mem evicts.                                                *)
LEMMA CheckEvicts ==
  ASSUME WellFormed, MemoryRight, SeenRight, SeenRight', CheckDecodeMem
  PROVE  KV!Evict
<1>1. UNCHANGED <<phase, prefix_indices, row, results>>
  BY DEF CheckDecodeMem
<1>2. Owned' = Owned
  BY <1>1, Zenon DEF Owned
<1>3. pinned' = pinned
  <2>1. \A r \in Reqs : pinned'[r] = pinned[r]
    BY <1>1, Pins, Zenon
  <2> QED
    BY <2>1 DEF SeenRight
<1>4. PICK E : Deletes(tree, tree', E) /\ free_slots' = free_slots \cup NodeSlots(tree, E)
  BY CheckMemMeans
<1>5. TreeSet(tree') = TreeSet(tree) \ NodeSlots(tree, E)
  BY <1>4, SetDeleted DEF WellFormed, MemoryRight
<1>6. TreeSet(tree') \subseteq TreeSet(tree) /\ free_slots \subseteq free_slots'
  BY <1>4, <1>5
<1> QED
  BY <1>2, <1>3, <1>6, IsEvict

(* flush_cache resets.                                                     *)
LEMMA FlushResets ==
  ASSUME WellFormed, MemoryRight, SeenRight, SeenRight', FlushCache
  PROVE  KV!Reset
<1>1. /\ UNCHANGED <<phase, prefix_indices>> /\ free_slots' = Slots
      /\ \A r \in Reqs : phase[r] \in {"idle", "waiting", "done"}
  BY DEF FlushCache
<1>2. \A r \in Reqs : Owned[r] = {}
  BY <1>1, NobodyOwns
<1>3. \A r \in Reqs : pinned[r] = {} /\ pinned'[r] = {}
  BY <1>1, Pins DEF Holding
<1>4. pinned' = pinned
  BY <1>3 DEF SeenRight
<1> QED
  BY <1>1, <1>2, <1>3, <1>4, IsReset

(* Every step is one of KVOwnership, or changes nothing there.             *)
LEMMA KVStep ==
  ASSUME WellFormed, WellFormed', MemoryRight, MemoryRight', SeenRight, SeenRight', [Next]_vars
  PROVE  [KV!Next]_KV!vars
<1>1. ASSUME NEW r \in Reqs, OneStep(r) PROVE KV!Next \/ UNCHANGED KV!vars
  <2>1. ASSUME KV!Pin(r) \/ KV!Acquire(r) \/ KV!Publish(r) \/ KV!Drop(r) PROVE KV!Next
    BY <2>1 DEF KV!Next
  <2> QED
    BY <1>1, <2>1, SeenQuiet, AdmitPins, AllocAcquires, HandoverPublishes, RetractDrops DEF OneStep
<1>2. CASE CheckDecodeMem
  BY <1>2, CheckEvicts DEF KV!Next
<1>3. CASE FlushCache
  BY <1>3, FlushResets DEF KV!Next
<1>4. CASE UNCHANGED vars
  <2>1. UNCHANGED <<tree, free_slots, phase, prefix_indices, row, results>>
    BY <1>4 DEF vars
  <2>2. \A q \in Reqs : Owned'[q] = Owned[q]
    BY <2>1, Zenon DEF Owned
  <2>3. \A q \in Reqs : pinned'[q] = pinned[q]
    BY <2>1, Pins, Zenon
  <2>4. pinned' = pinned
    BY <2>3 DEF SeenRight
  <2> QED
    BY <2>1, <2>2, <2>4, IsStutter
<1> QED
  BY <1>1, <1>2, <1>3, <1>4 DEF Next, OneStep

(* At the start every slot is free.                                        *)
LEMMA KVInit ==
  ASSUME Init, SeenRight
  PROVE  KV!Init
<1>1. free_slots = Slots /\ \A r \in Reqs : phase[r] = "idle"
  BY DEF Init
<1>2. owner = [s \in Slots |-> "free"]
  BY <1>1 DEF SeenRight, Shows
<1>3. \A r \in Reqs : pinned[r] = {}
  BY <1>1, Pins DEF Holding
<1>4. pinned = [r \in Reqs |-> {}]
  BY <1>3 DEF SeenRight
<1> QED
  BY <1>2, <1>4 DEF KV!Init

(* The tree, the allocator, the rows and the locks together implement      *)
(* KVOwnership: a slot is never taken from who reads or writes it.         *)
THEOREM KVImplemented == Spec => ImplementsKVOwnership
<1>1. WellFormed /\ ReadsRight /\ MemoryRight => SeenRight
  BY Seen
<1>2. Init /\ SeenRight => KV!Init
  BY KVInit
<1>3. /\ WellFormed /\ WellFormed' /\ MemoryRight /\ MemoryRight' /\ SeenRight /\ SeenRight' /\ [Next]_vars
      => [KV!Next]_KV!vars
  BY KVStep
<1> QED
  BY <1>1, <1>2, <1>3, MemoryKept, PTL DEF Spec, ImplementsKVOwnership, KV!Spec

-----------------------------------------------------------------------------
(* What KVOwnership promises follows from its actions alone, whatever its  *)
(* owner and pinned are.                                                   *)

(* Every slot has one owner and every request pins slots: one step.        *)
LEMMA OwnersStep == KV!TypeOK /\ [KV!Next]_KV!vars => (KV!TypeOK)'
<1> SUFFICES ASSUME KV!TypeOK, [KV!Next]_KV!vars PROVE (KV!TypeOK)'
  OBVIOUS
<1> USE DEF KV!TypeOK, KV!Owners, KV!HeldBy, KV!Unpinned
<1>1. ASSUME NEW r \in Reqs, KV!Pin(r) PROVE (KV!TypeOK)'
  BY <1>1 DEF KV!Pin
<1>2. ASSUME NEW r \in Reqs, KV!Acquire(r) PROVE (KV!TypeOK)'
  BY <1>2 DEF KV!Acquire
<1>3. ASSUME NEW r \in Reqs, KV!Publish(r) PROVE (KV!TypeOK)'
  BY <1>3 DEF KV!Publish
<1>4. ASSUME NEW r \in Reqs, KV!Drop(r) PROVE (KV!TypeOK)'
  BY <1>4 DEF KV!Drop
<1>5. CASE KV!Evict
  BY <1>5 DEF KV!Evict
<1>6. CASE KV!Reset
  BY <1>6 DEF KV!Reset
<1>7. CASE UNCHANGED KV!vars
  BY <1>7 DEF KV!vars
<1> QED
  BY <1>1, <1>2, <1>3, <1>4, <1>5, <1>6, <1>7 DEF KV!Next

(* One owner for each slot, in every reachable state (free_slots, tree and rows of the  *)
(* code together own each slot once).                                      *)
THEOREM OwnersTyped == KV!Spec => []KV!TypeOK
<1>1. KV!Init => KV!TypeOK
  BY DEF KV!Init, KV!TypeOK, KV!Owners
<1> QED
  BY <1>1, OwnersStep, PTL DEF KV!Spec

(* No step frees, gives away or moves a slot that is read after it.        *)
LEMMA PinnedStep ==
  KV!TypeOK /\ KV!PinnedIsCached /\ [KV!Next]_KV!vars => (KV!PinnedIsCached)'
<1> SUFFICES ASSUME KV!TypeOK, KV!PinnedIsCached, [KV!Next]_KV!vars PROVE (KV!PinnedIsCached)'
  OBVIOUS
<1>0. (KV!TypeOK)'
  BY OwnersStep
<1> SUFFICES ASSUME NEW q \in Reqs, NEW s \in Slots, s \in pinned'[q]
             PROVE  owner'[s] = "cache"
  BY <1>0 DEF KV!PinnedIsCached, KV!HeldBy, KV!TypeOK
<1> USE OwnerNames DEF KV!TypeOK, KV!Owners, KV!HeldBy, KV!PinnedIsCached
<1>1. ASSUME NEW r \in Reqs, KV!Pin(r) PROVE owner'[s] = "cache"
  <2>1. CASE q = r
    BY <1>1, <2>1 DEF KV!Pin
  <2>2. CASE q # r
    BY <1>1, <2>2 DEF KV!Pin
  <2> QED
    BY <2>1, <2>2
<1>2. ASSUME NEW r \in Reqs, KV!Acquire(r) PROVE owner'[s] = "cache"
  <2>1. s \in pinned[q] /\ owner[s] = "cache"
    BY <1>2 DEF KV!Acquire
  <2>2. s \notin KV!Unpinned
    BY <2>1 DEF KV!Unpinned
  <2> QED
    BY <1>2, <2>1, <2>2 DEF KV!Acquire
<1>3. ASSUME NEW r \in Reqs, KV!Publish(r) PROVE owner'[s] = "cache"
  <2>1. CASE q = r
    BY <1>3, <2>1 DEF KV!Publish
  <2>2. CASE q # r
    <3>1. s \in pinned[q] /\ owner[s] = "cache"
      BY <1>3, <2>2 DEF KV!Publish
    <3> QED
      BY <1>3, <3>1 DEF KV!Publish
  <2> QED
    BY <2>1, <2>2
<1>4. ASSUME NEW r \in Reqs, KV!Drop(r) PROVE owner'[s] = "cache"
  <2>1. q # r /\ s \in pinned[q] /\ owner[s] = "cache"
    BY <1>4 DEF KV!Drop
  <2> QED
    BY <1>4, <2>1 DEF KV!Drop
<1>5. CASE KV!Evict
  <2>1. s \in pinned[q] /\ owner[s] = "cache"
    BY <1>5 DEF KV!Evict
  <2>2. s \notin KV!Unpinned
    BY <2>1 DEF KV!Unpinned
  <2> QED
    BY <1>5, <2>1, <2>2 DEF KV!Evict
<1>6. CASE KV!Reset
  BY <1>6 DEF KV!Reset
<1>7. CASE UNCHANGED KV!vars
  BY <1>7 DEF KV!vars
<1> QED
  BY <1>1, <1>2, <1>3, <1>4, <1>5, <1>6, <1>7 DEF KV!Next

(* No request ever reads a slot that is free or being written by another:   *)
(* what its prefix_indices name stays in the radix tree while it runs.     *)
THEOREM PinnedAreCached == KV!Spec => []KV!PinnedIsCached
<1>1. KV!Init => KV!PinnedIsCached
  BY DEF KV!Init, KV!PinnedIsCached
<1> QED
  BY <1>1, OwnersTyped, PinnedStep, PTL DEF KV!Spec

(* One step never takes a slot from a user (see NoTheft).                  *)
LEMMA TheftStep ==
  ASSUME KV!TypeOK, KV!PinnedIsCached, (KV!TypeOK)', (KV!PinnedIsCached)', [KV!Next]_KV!vars, NEW s \in Slots
  PROVE  /\ owner'[s] # owner[s] /\ owner'[s] \in Reqs => owner[s] = "free" \/ s \in KV!Unpinned
         /\ \A r \in Reqs : s \in pinned[r] /\ s \in pinned'[r] => owner'[s] = owner[s]
<1>1. \A r \in Reqs : s \in pinned[r] /\ s \in pinned'[r] => owner'[s] = owner[s]
  BY DEF KV!PinnedIsCached, KV!HeldBy
<1>2. ASSUME owner'[s] # owner[s], owner'[s] \in Reqs
      PROVE  owner[s] = "free" \/ s \in KV!Unpinned
  <2> USE OwnerNames DEF KV!TypeOK, KV!Owners
  <2>1. ASSUME NEW r \in Reqs, KV!Acquire(r) PROVE owner[s] = "free" \/ s \in KV!Unpinned
    BY <1>2, <2>1 DEF KV!Acquire
  <2>2. ASSUME NEW r \in Reqs, KV!Pin(r) \/ KV!Publish(r) \/ KV!Drop(r) PROVE FALSE
    BY <1>2, <2>2 DEF KV!Pin, KV!Publish, KV!Drop
  <2>3. ASSUME KV!Evict \/ KV!Reset PROVE FALSE
    BY <1>2, <2>3 DEF KV!Evict, KV!Reset
  <2>4. ASSUME UNCHANGED KV!vars PROVE FALSE
    BY <1>2, <2>4 DEF KV!vars
  <2> QED
    BY <2>1, <2>2, <2>3, <2>4 DEF KV!Next
<1> QED
  BY <1>1, <1>2

(* A slot reaches a request only from the free list or, unread, from the   *)
(* cache; and a slot that is read before and after a step does not move.   *)
THEOREM SlotsNotStolen == KV!Spec => KV!NoTheft
<1>1. KV!TypeOK /\ KV!PinnedIsCached /\ (KV!TypeOK)' /\ (KV!PinnedIsCached)' /\ [KV!Next]_KV!vars =>
      [\A s \in Slots :
         /\ owner'[s] # owner[s] /\ owner'[s] \in Reqs => owner[s] = "free" \/ s \in KV!Unpinned
         /\ \A r \in Reqs : s \in pinned[r] /\ s \in pinned'[r] => owner'[s] = owner[s]]_KV!vars
  BY TheftStep
<1> QED
  BY <1>1, OwnersTyped, PinnedAreCached, PTL DEF KV!Spec, KV!NoTheft

(* So both hold of the code's state.  What a request reads stays in the    *)
(* tree while it runs.                                                     *)
THEOREM ReadsStay == Spec => []PinnedIsCached
<1>1. KV!Spec => []KV!PinnedIsCached
  BY PinnedAreCached
<1> QED
  BY <1>1, KVImplemented, PTL DEF ImplementsKVOwnership, PinnedIsCached

(* A slot reaches a request only from the free list or, unread, from the   *)
(* tree; and a slot that is read before and after a step does not move.    *)
THEOREM NothingStolen == Spec => NoTheft
<1>1. KV!Spec => KV!NoTheft
  BY SlotsNotStolen
<1> QED
  BY <1>1, KVImplemented, PTL DEF ImplementsKVOwnership, NoTheft
=============================================================================
