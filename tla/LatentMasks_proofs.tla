------------------------- MODULE LatentMasks_proofs -------------------------
(***************************************************************************)
(* The masks and the alignment of the latents for any batch of examples.   *)
(***************************************************************************)
EXTENDS LatentMasks, SharedLemmas

Kinds == {"pad", "-100", "compress", "eos", "think", "/think", "prompt", "cot", "solution", "answer"}

AnyToken == Kinds \X Nat

\* s with m times Pad behind it.
Padded(p, s, m) == p = s \o Fill(Pad, m)
-----------------------------------------------------------------------------
(* The special tokens are tokens, and no two of them are the same.         *)
LEMMA Specials ==
  /\ Pad \in AnyToken /\ Ignored \in AnyToken /\ Compress \in AnyToken
  /\ Pad # Ignored /\ Pad # Compress /\ Ignored # Compress
BY DEF Pad, Ignored, Compress, AnyToken, Kinds

(* A run of equal tokens.                                                  *)
LEMMA FillProperties ==
  ASSUME NEW S, NEW t \in S, NEW m \in Nat
  PROVE  /\ Fill(t, m) \in Seq(S) /\ Len(Fill(t, m)) = m
         /\ \A i \in 1..m : Fill(t, m)[i] = t
<1> DEFINE e(i) == t
<1>1. \A i \in 1..m : e(i) \in S
  OBVIOUS
<1>2. [i \in 1..m |-> e(i)] \in Seq(S)
  <2> HIDE DEF e
  <2> QED
    BY <1>1, IsASeq
<1> QED
  BY <1>2 DEF Fill

(* The tokens of one kind.                                                 *)
LEMMA TokensProperties ==
  ASSUME NEW S, NEW kind, NEW n \in Nat, \A i \in 1..n : <<kind, i>> \in S
  PROVE  /\ Tokens(kind, n) \in Seq(S) /\ Len(Tokens(kind, n)) = n
         /\ \A i \in 1..n : Tokens(kind, n)[i] = <<kind, i>>
<1> DEFINE e(i) == <<kind, i>>
<1>1. \A i \in 1..n : e(i) \in S
  OBVIOUS
<1>2. [i \in 1..n |-> e(i)] \in Seq(S)
  <2> HIDE DEF e
  <2> QED
    BY <1>1, IsASeq
<1> QED
  BY <1>2 DEF Tokens

(* The positions of a padded sequence.                                     *)
LEMMA PaddedProperties ==
  ASSUME NEW s \in Seq(AnyToken), NEW m \in Nat, NEW p, Padded(p, s, m)
  PROVE  /\ p \in Seq(AnyToken) /\ Len(p) = Len(s) + m /\ DOMAIN p = 1..Len(s) + m
         /\ Len(s) \in Nat /\ DOMAIN s = 1..Len(s)
         /\ \A i \in 1..Len(s) : p[i] = s[i]
         /\ \A i \in 1..Len(s) + m : i > Len(s) => p[i] = Pad
<1> DEFINE f == Fill(Pad, m)
<1>1. f \in Seq(AnyToken) /\ Len(f) = m /\ \A i \in 1..m : f[i] = Pad
  BY FillProperties, Specials
<1>2. Joins(p, s, f)
  BY DEF Padded, Joins
<1> HIDE DEF f
<1>3. Len(s) \in Nat /\ DOMAIN s = 1..Len(s)
  BY LenProperties
<1>4. /\ p \in Seq(AnyToken) /\ Len(p) = Len(s) + m
      /\ \A k \in 1..Len(s) + m : p[k] = IF k <= Len(s) THEN s[k] ELSE f[k - Len(s)]
  BY <1>1, <1>2, <1>3, Concatenated
<1>5. \A i \in 1..Len(s) + m : i > Len(s) => i - Len(s) \in 1..m
  BY <1>3
<1> QED
  BY <1>1, <1>3, <1>4, <1>5
-----------------------------------------------------------------------------
(* Padding.                                                                *)

\* Where the end marker is found, and whether row i looks at column j when
\* n tokens have latents at L and the first end marker at end.
Found(ids) ==
  {i \in 1..Len(ids) - Len(EndThink) + 1 : SubSeq(ids, i, i + Len(EndThink) - 1) = EndThink}

Sees(L, end, n, i, j) ==
  LET prompt == 1..(IF L = {} THEN n ELSE Min(L) - 1)
      before == {s \in L : s < i}
      segEnd(s) == IF \E t \in L : t > s
                   THEN Min({t \in L : t > s}) - 1
                   ELSE IF end # 0 THEN end - 1 ELSE n
  IN  \/ i \in prompt /\ j \in prompt /\ j <= i
      \/ before # {} /\ i <= segEnd(Max(before)) /\ j \in Max(before)..i
      \/ end # 0 /\ i >= end /\ j \in (end..i) \cup prompt \cup L
      \/ i \in L /\ j \in prompt \cup {s \in L : s <= i}

(* The two ways to write them.                                             *)
LEMMA SeesMeans ==
  ASSUME NEW ids, NEW i, NEW j
  PROVE  /\ EndMarkerAt(ids) = IF Found(ids) = {} THEN 0 ELSE Min(Found(ids))
         /\ j \in LooksAt(ids, i) <=>
              j \in DOMAIN ids /\ Sees(Where(ids, Ignored), EndMarkerAt(ids), Len(ids), i, j)
<1>1. EndMarkerAt(ids) = IF Found(ids) = {} THEN 0 ELSE Min(Found(ids))
  BY Zenon DEF EndMarkerAt, Found
<1>2. j \in LooksAt(ids, i) <=>
        j \in DOMAIN ids /\ Sees(Where(ids, Ignored), EndMarkerAt(ids), Len(ids), i, j)
  BY Zenon DEF LooksAt, Sees
<1> QED
  BY <1>1, <1>2

(* What is padded behind the tokens changes nothing between them.          *)
LEMMA SeesPadded ==
  ASSUME NEW L, NEW end, NEW n \in Nat, NEW m \in Nat, NEW i \in 1..n, NEW j \in 1..n
  PROVE  Sees(L, end, n + m, i, j) <=> Sees(L, end, n, i, j)
<1>1. i <= n /\ i <= n + m /\ j <= n /\ j <= n + m /\ i \in 1..n + m /\ j \in 1..n + m
  OBVIOUS
<1>2. CASE L = {}
  BY <1>1, <1>2 DEF Sees
<1>3. CASE L # {}
  <2> DEFINE prompt == 1..(Min(L) - 1)
             before == {s \in L : s < i}
             x == Max(before)
             y == Min({t \in L : t > x}) - 1
             later == \E t \in L : t > x
  <2>1. ASSUME NEW k \in {n, n + m}
        PROVE  Sees(L, end, k, i, j) <=>
                 \/ i \in prompt /\ j \in prompt /\ j <= i
                 \/ before # {} /\ i <= (IF later THEN y ELSE IF end # 0 THEN end - 1 ELSE k) /\ j \in x..i
                 \/ end # 0 /\ i >= end /\ j \in (end..i) \cup prompt \cup L
                 \/ i \in L /\ j \in prompt \cup {s \in L : s <= i}
    BY <1>3, Zenon DEF Sees
  <2> HIDE DEF prompt, before, x, y, later
  <2>2. (i <= (IF later THEN y ELSE IF end # 0 THEN end - 1 ELSE n)) <=>
        (i <= (IF later THEN y ELSE IF end # 0 THEN end - 1 ELSE n + m))
    BY <1>1
  <2> QED
    BY <2>1, <2>2, Zenon
<1> QED
  BY <1>2, <1>3

\* The length of the end marker.
EndLen == input.endLen \in Nat \ {0}

(* The end marker at a position, token by token.                           *)
LEMMA FoundMeans ==
  ASSUME EndLen, NEW s \in Seq(AnyToken), NEW i \in Int
  PROVE  i \in Found(s) <=> /\ i \in 1..Len(s) - input.endLen + 1
                            /\ \A j \in 1..input.endLen : s[i + j - 1] = <<"/think", j>>
<1> DEFINE l == input.endLen
<1>1. /\ l \in Nat \ {0} /\ EndThink \in Seq(AnyToken) /\ Len(EndThink) = l
      /\ \A j \in 1..l : EndThink[j] = <<"/think", j>>
  <2>1. l \in Nat /\ \A k \in 1..l : <<"/think", k>> \in AnyToken
    BY DEF EndLen, AnyToken, Kinds
  <2> QED
    BY <2>1, TokensProperties DEF EndThink, EndLen
<1> DEFINE e == EndThink
           u == SubSeq(s, i, i + l - 1)
<1>2. i \in Found(s) <=> i \in 1..Len(s) - l + 1 /\ u = e
  BY <1>1 DEF Found
<1>3. \A k \in 1..Len(s) : s[k] \in AnyToken
  BY ElementOfSeq
<1>4. ASSUME i \in 1..Len(s) - l + 1
      PROVE  u = e <=> \A j \in 1..l : s[i + j - 1] = <<"/think", j>>
  <2>1. Len(s) \in Nat
    BY LenProperties
  <2>2. i + l - 1 \in Int /\ i <= i + l - 1 /\ (i + l - 1) - i + 1 = l
    BY <1>1
  <2>3. \A k \in i..i+l-1 : s[k] \in AnyToken
    BY <1>1, <1>3, <1>4, <2>1
  <2>4. u \in Seq(AnyToken) /\ Len(u) = l /\ \A j \in 1..l : u[j] = s[i + j - 1]
    <3> DEFINE v == i + l - 1
    <3>1. v \in Int /\ i <= v /\ v - i + 1 = l /\ \A k \in i..v : s[k] \in AnyToken
      BY <2>2, <2>3
    <3> HIDE DEF v
    <3>2. /\ SubSeq(s, i, v) \in Seq(AnyToken) /\ Len(SubSeq(s, i, v)) = v - i + 1
          /\ \A j \in 1..v-i+1 : SubSeq(s, i, v)[j] = s[i + j - 1]
      BY <3>1, SubSeqProperties
    <3> QED
      BY <3>1, <3>2 DEF v
  <2> HIDE DEF u, e
  <2>5. e \in Seq(AnyToken) /\ Len(e) = l /\ \A j \in 1..l : e[j] = <<"/think", j>>
    BY <1>1 DEF e
  <2>6. (\A j \in 1..l : u[j] = e[j]) => u = e
    BY <2>4, <2>5, SeqEqual
  <2> QED
    BY <2>4, <2>5, <2>6
<1> QED
  BY <1>2, <1>4

(* Padding adds no latent and no compress token.                           *)
LEMMA WherePadded ==
  ASSUME NEW s \in Seq(AnyToken), NEW m \in Nat, NEW p, Padded(p, s, m), NEW t, t # Pad
  PROVE  Where(p, t) = Where(s, t)
<1>1. /\ DOMAIN p = 1..Len(s) + m /\ DOMAIN s = 1..Len(s) /\ Len(s) \in Nat
      /\ \A i \in 1..Len(s) : p[i] = s[i]
      /\ \A i \in 1..Len(s) + m : i > Len(s) => p[i] = Pad
  BY PaddedProperties
<1> QED
  BY <1>1 DEF Where

(* It is found where it is without the padding.                            *)
LEMMA FoundPadded ==
  ASSUME EndLen, NEW s \in Seq(AnyToken), NEW m \in Nat, NEW p, Padded(p, s, m)
  PROVE  EndMarkerAt(p) = EndMarkerAt(s)
<1> DEFINE n == Len(s)
           l == input.endLen
<1>1. /\ p \in Seq(AnyToken) /\ Len(p) = n + m /\ n \in Nat
      /\ \A i \in 1..n : p[i] = s[i]
      /\ \A i \in 1..n + m : i > n => p[i] = Pad
  BY PaddedProperties
<1>2. l \in Nat \ {0}
  BY DEF EndLen
<1>3. \A j : <<"/think", j>> # Pad
  BY DEF Pad
<1>4. ASSUME NEW i \in Int PROVE i \in Found(p) <=> i \in Found(s)
  <2>1. i \in Found(p) <=> i \in 1..(n + m) - l + 1 /\ \A j \in 1..l : p[i + j - 1] = <<"/think", j>>
    BY <1>1, FoundMeans
  <2>2. i \in Found(s) <=> i \in 1..n - l + 1 /\ \A j \in 1..l : s[i + j - 1] = <<"/think", j>>
    BY FoundMeans
  <2> HIDE DEF n, l
  <2>3. ASSUME i \in 1..(n + m) - l + 1, \A j \in 1..l : p[i + j - 1] = <<"/think", j>>
        PROVE  i \in 1..n - l + 1
    <3>1. l \in 1..l /\ p[i + l - 1] = <<"/think", l>>
      BY <1>2, <2>3
    <3>2. i + l - 1 \in 1..n + m
      BY <1>1, <1>2, <2>3
    <3>3. i + l - 1 <= n
      <4>1. p[i + l - 1] # Pad
        BY <1>3, <3>1
      <4> DEFINE k == i + l - 1
      <4>2. k \in 1..n + m /\ p[k] # Pad
        BY <3>2, <4>1
      <4> HIDE DEF k
      <4>3. k <= n
        BY <1>1, <4>2
      <4> QED
        BY <4>3 DEF k
    <3> QED
      BY <1>1, <1>2, <2>3, <3>3
  <2>4. ASSUME i \in 1..n - l + 1
        PROVE  i \in 1..(n + m) - l + 1 /\ \A j \in 1..l : i + j - 1 \in 1..n
    BY <1>1, <1>2, <2>4
  <2> QED
    BY <1>1, <2>1, <2>2, <2>3, <2>4
<1>5. Found(p) = Found(s)
  <2>1. Found(p) \subseteq Int /\ Found(s) \subseteq Int
    BY DEF Found
  <2> QED
    BY <1>4, <2>1
<1> QED
  BY <1>5, SeesMeans, Zenon

(* The decoder's mask of a padded row is the one of the row.               *)
LEMMA SupervisionPadded ==
  ASSUME EndLen, NEW s \in Seq(AnyToken), NEW m \in Nat, NEW p, Padded(p, s, m)
  PROVE  SupervisionMask(p) = SupervisionMask(s)
<1> DEFINE n == Len(s)
<1>1. /\ Len(p) = n + m /\ DOMAIN p = 1..n + m /\ n \in Nat /\ DOMAIN s = 1..n
      /\ \A i \in 1..n : p[i] = s[i]
      /\ \A i \in 1..n + m : i > n => p[i] = Pad
  BY PaddedProperties
<1>2. EndMarkerAt(p) = EndMarkerAt(s) /\ Where(p, Ignored) = Where(s, Ignored)
  BY FoundPadded, WherePadded, Specials
<1>3. ASSUME NEW i \in 1..n, NEW j \in 1..n PROVE j \in LooksAt(p, i) <=> j \in LooksAt(s, i)
  <2> DEFINE L == Where(s, Ignored)
             e == EndMarkerAt(s)
  <2>1. j \in DOMAIN p /\ j \in DOMAIN s
    BY <1>1
  <2>2. j \in LooksAt(p, i) <=> Sees(L, e, n + m, i, j)
    BY <1>1, <1>2, <2>1, SeesMeans, Zenon
  <2>3. j \in LooksAt(s, i) <=> Sees(L, e, n, i, j)
    BY <2>1, SeesMeans, Zenon
  <2> QED
    BY <1>1, <2>2, <2>3, SeesPadded
<1>4. ASSUME NEW ids, NEW q
      PROVE  q \in SupervisionMask(ids) <=>
               /\ q \in (DOMAIN ids) \X (DOMAIN ids)
               /\ q[2] \in LooksAt(ids, q[1]) /\ ids[q[1]] # Pad /\ ids[q[2]] # Pad
  BY DEF SupervisionMask
<1> HIDE DEF n
<1>5. ASSUME NEW q PROVE q \in SupervisionMask(p) <=> q \in SupervisionMask(s)
  <2>1. ASSUME q \in (DOMAIN p) \X (DOMAIN p), p[q[1]] # Pad, p[q[2]] # Pad
        PROVE  q[1] \in 1..n /\ q[2] \in 1..n /\ q \in (DOMAIN s) \X (DOMAIN s)
    <3>1. q[1] \in 1..n + m /\ q[2] \in 1..n + m /\ q = <<q[1], q[2]>>
      BY <1>1, <2>1
    <3>2. q[1] \in 1..n /\ q[2] \in 1..n
      BY <1>1, <2>1, <3>1
    <3> QED
      BY <1>1, <3>1, <3>2
  <2>2. ASSUME q \in (DOMAIN s) \X (DOMAIN s)
        PROVE  q[1] \in 1..n /\ q[2] \in 1..n /\ q \in (DOMAIN p) \X (DOMAIN p)
    BY <1>1, <2>2
  <2> QED
    BY <1>1, <1>3, <1>4, <2>1, <2>2
<1> QED
  BY <1>5

(* So is the encoder's.                                                    *)
LEMMA InductionPadded ==
  ASSUME NEW s \in Seq(AnyToken), NEW m \in Nat, NEW p, Padded(p, s, m)
  PROVE  InductionMask(p) = InductionMask(s)
<1> DEFINE n == Len(s)
<1>1. /\ DOMAIN p = 1..n + m /\ n \in Nat /\ DOMAIN s = 1..n
      /\ \A i \in 1..n : p[i] = s[i]
      /\ \A i \in 1..n + m : i > n => p[i] = Pad
  BY PaddedProperties
<1>2. ASSUME NEW ids, NEW q
      PROVE  q \in InductionMask(ids) <=>
               /\ q \in (DOMAIN ids) \X (DOMAIN ids) /\ q[2] <= q[1]
               /\ ids[q[2]] = Compress => q[2] = q[1]
               /\ ids[q[1]] # Pad /\ ids[q[2]] # Pad
  BY DEF InductionMask
<1> HIDE DEF n
<1>3. ASSUME NEW q PROVE q \in InductionMask(p) <=> q \in InductionMask(s)
  <2>1. ASSUME q \in (DOMAIN p) \X (DOMAIN p), p[q[1]] # Pad, p[q[2]] # Pad
        PROVE  q[1] \in 1..n /\ q[2] \in 1..n /\ q \in (DOMAIN s) \X (DOMAIN s)
    <3>1. q[1] \in 1..n + m /\ q[2] \in 1..n + m /\ q = <<q[1], q[2]>>
      BY <1>1, <2>1
    <3>2. q[1] \in 1..n /\ q[2] \in 1..n
      BY <1>1, <2>1, <3>1
    <3> QED
      BY <1>1, <3>1, <3>2
  <2>2. ASSUME q \in (DOMAIN s) \X (DOMAIN s)
        PROVE  q[1] \in 1..n /\ q[2] \in 1..n /\ q \in (DOMAIN p) \X (DOMAIN p)
    BY <1>1, <2>2
  <2> QED
    BY <1>1, <1>2, <2>1, <2>2
<1> QED
  BY <1>3
-----------------------------------------------------------------------------
(* Where the special tokens go.                                            *)

\* The length of what InsertEveryK returns, and where its i-th special is.
SpreadLen(n, k) == n + CompressCount(n, k)
Mark(n, k, i) == IF i <= n \div k THEN (k + 1) * i ELSE SpreadLen(n, k)
IsMark(n, k, q) == q % (k + 1) = 0 \/ q > n + (n \div k)

\* w is a reasoning of n tokens with a special token after every k.
SpreadAt(n, k, special, q) ==
  IF IsMark(n, k, q) THEN special ELSE <<"cot", q - (q \div (k + 1))>>
Spread(w, n, k, special) == w = InsertEveryK(Tokens("cot", n), special, k)

(* The number of segments is the quotient, rounded up.                     *)
LEMMA CountMeans ==
  ASSUME NEW n \in Nat \ {0}, NEW k \in Nat \ {0}
  PROVE  /\ CompressCount(n, k) = IF n % k = 0 THEN n \div k ELSE (n \div k) + 1
         /\ CompressCount(n, k) \in Nat \ {0}
<1> DEFINE c == n \div k
           d == n % k
           e == (n + k - 1) \div k
           r == (n + k - 1) % k
<1>1. c \in Nat /\ d \in 0..k-1 /\ n = k * c + d
  BY DivMod
<1>2. e \in Nat /\ r \in 0..k-1 /\ n + k - 1 = k * e + r
  <2>1. n + k - 1 \in Nat
    OBVIOUS
  <2> QED
    BY <2>1, DivMod
<1> HIDE DEF c, d, e, r
<1>3. k * e + r = k * c + d + k - 1
  BY <1>1, <1>2
<1>4. e < c => k * e + k <= k * c
  BY <1>1, <1>2, TimesGrows
<1>5. c < e => k * c + k <= k * e
  BY <1>1, <1>2, TimesGrows
<1>6. c + 1 < e => k * (c + 1) + k <= k * e
  BY <1>1, <1>2, TimesGrows
<1>7. k * (c + 1) = k * c + k /\ k * c \in Int /\ k * e \in Int
  BY <1>1, <1>2
<1>8. d = 0 => e = c
  BY <1>1, <1>2, <1>3, <1>4, <1>5, <1>7
<1>9. e < c + 1 => e = c \/ e < c
  BY <1>1, <1>2
<1>10. d # 0 => e = c + 1
  <2>1. ASSUME d # 0, e = c PROVE FALSE
    BY <1>1, <1>2, <1>3, <2>1
  <2> QED
    BY <1>1, <1>2, <1>3, <1>4, <1>6, <1>7, <1>9, <2>1
<1>11. c = 0 => d # 0
  BY <1>1
<1>12. e = CompressCount(n, k)
  BY DEF e, CompressCount
<1> QED
  BY <1>1, <1>2, <1>8, <1>10, <1>11, <1>12 DEF c, d

(* The specials are where Mark says, in this order, the last one at the end.*)
LEMMA MarkProperties ==
  ASSUME NEW n \in Nat \ {0}, NEW k \in Nat \ {0}
  PROVE  /\ SpreadLen(n, k) \in Nat
         /\ \A i \in 1..CompressCount(n, k) : Mark(n, k, i) \in 1..SpreadLen(n, k)
         /\ Mark(n, k, CompressCount(n, k)) = SpreadLen(n, k)
         /\ \A i, j \in 1..CompressCount(n, k) : i < j => Mark(n, k, i) < Mark(n, k, j)
         /\ \A q \in 1..SpreadLen(n, k) :
              /\ IsMark(n, k, q) <=> \E i \in 1..CompressCount(n, k) : q = Mark(n, k, i)
              /\ ~IsMark(n, k, q) => q - (q \div (k + 1)) \in 1..n
<1> DEFINE c == n \div k
           d == n % k
           e == CompressCount(n, k)
           len == SpreadLen(n, k)
           mark(i) == IF i <= c THEN (k + 1) * i ELSE len
<1>1. /\ c \in Nat /\ d \in 0..k-1 /\ n = k * c + d
      /\ e = (IF d = 0 THEN c ELSE c + 1) /\ e \in Nat \ {0}
      /\ len = n + e
  BY DivMod, CountMeans DEF SpreadLen
<1>2. \A i : Mark(n, k, i) = mark(i)
  BY DEF Mark
<1>3. \A q : IsMark(n, k, q) <=> q % (k + 1) = 0 \/ q > n + c
  BY DEF IsMark
<1> HIDE DEF c, d, e, len
<1>4. (k + 1) * c = k * c + c /\ k * c \in Nat /\ n + c = (k + 1) * c + d
  BY <1>1
<1>5. len = (k + 1) * c + (IF d = 0 THEN 0 ELSE d + 1) /\ len \in Nat /\ (k + 1) * c <= len
      /\ n + c <= len /\ len <= n + c + 1 /\ (d = 0 => len = n + c) /\ (d # 0 => len = n + c + 1)
  BY <1>1, <1>4
<1>6. ASSUME NEW i \in Int, NEW j \in Int, i < j
      PROVE  (k + 1) * i + (k + 1) <= (k + 1) * j /\ (k + 1) * i \in Int /\ (k + 1) * j \in Int
  <2>1. k + 1 \in Nat
    OBVIOUS
  <2> QED
    BY <1>6, <2>1, TimesGrows
<1>7. ASSUME NEW i \in 1..c PROVE (k + 1) * i \in 1..len /\ (k + 1) * i <= (k + 1) * c
  <2>1. (k + 1) * 0 + (k + 1) <= (k + 1) * i
    BY <1>6
  <2>2. i < c \/ i = c
    BY <1>1
  <2>3. i < c => (k + 1) * i + (k + 1) <= (k + 1) * c
    BY <1>1, <1>6
  <2>4. (k + 1) * i \in Int /\ (k + 1) * 0 = 0 /\ (k + 1) * c \in Int
    BY <1>1
  <2> DEFINE x == (k + 1) * i
             y == (k + 1) * c
  <2>5. x \in Int /\ k + 1 <= x /\ (x + (k + 1) <= y \/ x = y) /\ y <= len /\ y \in Int
    BY <1>5, <2>1, <2>2, <2>3, <2>4
  <2> HIDE DEF x, y
  <2>6. x \in 1..len /\ x <= y
    BY <1>5, <2>5
  <2> QED
    BY <2>6 DEF x, y
<1>8. \A i \in 1..e : i \in 1..c \/ (i = c + 1 /\ d # 0)
  BY <1>1
<1>9. len >= 1
  BY <1>1
<1>10. \A i \in 1..e : mark(i) \in 1..len
  BY <1>1, <1>5, <1>7, <1>8, <1>9
<1>11. mark(e) = len
  <2>1. CASE d = 0
    <3>1. mark(e) = (k + 1) * c
      BY <1>1, <2>1
    <3>2. len = (k + 1) * c
      BY <1>1, <1>5, <2>1
    <3> QED
      BY <3>1, <3>2, Zenon
  <2>2. CASE d # 0
    BY <1>1, <2>2
  <2> QED
    BY <2>1, <2>2
<1>12. ASSUME NEW i \in 1..e, NEW j \in 1..e, i < j PROVE mark(i) < mark(j)
  <2>1. i \in 1..c
    BY <1>1, <1>12
  <2>2. CASE j <= c
    BY <1>6, <1>12, <2>1, <2>2
  <2>3. CASE ~(j <= c)
    <3>1. d # 0 /\ mark(j) = len /\ mark(i) = (k + 1) * i
      BY <1>1, <1>8, <2>1, <2>3
    <3>2. (k + 1) * c < len /\ (k + 1) * i <= (k + 1) * c
      BY <1>1, <1>4, <1>5, <1>7, <2>1, <3>1
    <3>3. (k + 1) * c \in Int /\ (k + 1) * i \in Int
      BY <1>1
    <3> QED
      BY <1>5, <3>1, <3>2, <3>3
  <2> QED
    BY <2>2, <2>3
<1>13. ASSUME NEW q \in 1..len
       PROVE  /\ IsMark(n, k, q) <=> \E i \in 1..e : q = mark(i)
              /\ ~IsMark(n, k, q) => q - (q \div (k + 1)) \in 1..n
  <2> DEFINE a == q \div (k + 1)
             r == q % (k + 1)
  <2>1. a \in Nat /\ r \in 0..k /\ q = (k + 1) * a + r
    <3>1. q \in Nat /\ k + 1 \in Nat \ {0} /\ (k + 1) - 1 = k
      BY <1>5
    <3> QED
      BY <3>1, DivMod
  <2>2. IsMark(n, k, q) <=> r = 0 \/ q > n + c
    BY <1>3
  <2> HIDE DEF a, r
  <2>3. c < a => (k + 1) * c + (k + 1) <= (k + 1) * a
    BY <1>1, <1>6, <2>1
  <2>4. (k + 1) * c \in Int /\ (k + 1) * a \in Int /\ (k + 1) * a = k * a + a /\ k * a \in Int
    BY <1>1, <2>1
  <2>5. ASSUME r = 0, ~(q > n + c) PROVE a \in 1..c
    BY <1>1, <1>4, <2>1, <2>3, <2>4, <2>5
  <2>7. ASSUME q > n + c PROVE q = len
    BY <1>1, <1>5, <2>7
  <2>8. ASSUME IsMark(n, k, q) PROVE \E i \in 1..e : q = mark(i)
    <3>1. CASE q > n + c
      BY <1>1, <1>11, <2>7, <3>1
    <3>2. CASE ~(q > n + c)
      <4>1. a \in 1..c /\ q = (k + 1) * a
        BY <2>1, <2>2, <2>4, <2>5, <2>8, <3>2
      <4>2. a \in 1..e /\ q = mark(a)
        BY <1>1, <4>1
      <4> QED
        BY <4>2
    <3> QED
      BY <3>1, <3>2
  <2>9. ASSUME NEW i \in 1..e, q = mark(i) PROVE IsMark(n, k, q)
    <3>1. CASE i <= c
      <4>1. q = (k + 1) * i
        BY <2>9, <3>1
      <4>2. i < a => (k + 1) * i + (k + 1) <= (k + 1) * a
        BY <1>6, <2>1
      <4>3. a < i => (k + 1) * a + (k + 1) <= (k + 1) * i
        BY <1>6, <2>1
      <4>4. (k + 1) * i \in Int
        OBVIOUS
      <4>5. i = a
        BY <2>1, <2>4, <4>1, <4>2, <4>3, <4>4
      <4>6. r = 0
        BY <2>1, <2>4, <4>1, <4>5
      <4> QED
        BY <2>2, <4>6
    <3>2. CASE ~(i <= c)
      <4>1. q = len /\ d # 0
        BY <1>1, <1>8, <2>9, <3>2
      <4> QED
        BY <1>1, <1>5, <2>2, <4>1
    <3> QED
      BY <3>1, <3>2
  <2>10. ASSUME ~IsMark(n, k, q) PROVE q - a \in 1..n
    <3>1. r \in 1..k /\ q <= n + c
      BY <1>1, <2>1, <2>2, <2>10
    <3>2. q - a = k * a + r /\ n = k * c + d
      BY <1>1, <2>1, <2>4
    <3>3. ~(c < a)
      BY <1>1, <1>4, <2>1, <2>3, <2>4, <3>1
    <3>4. a < c => k * a + k <= k * c
      BY <1>1, <2>1, TimesGrows
    <3>5. a = c => r <= d
      BY <1>1, <1>4, <2>1, <2>4, <3>1
    <3>6. k * a \in Nat
      BY <2>1
    <3> QED
      BY <1>1, <2>1, <1>4, <3>1, <3>2, <3>3, <3>4, <3>5, <3>6
  <2> QED
    BY <2>8, <2>9, <2>10 DEF a
<1> HIDE DEF mark
<1>14. /\ len \in Nat
       /\ \A i \in 1..e : Mark(n, k, i) \in 1..len
       /\ Mark(n, k, e) = len
       /\ \A i, j \in 1..e : i < j => Mark(n, k, i) < Mark(n, k, j)
  BY <1>2, <1>5, <1>10, <1>11, <1>12
<1>15. \A q \in 1..len : /\ IsMark(n, k, q) <=> \E i \in 1..e : q = Mark(n, k, i)
                         /\ ~IsMark(n, k, q) => q - (q \div (k + 1)) \in 1..n
  BY <1>2, <1>13
<1> QED
  BY <1>14, <1>15, Zenon DEF e, len

(* The reasoning with a special token after each segment.                  *)
LEMMA Inserted ==
  ASSUME NEW n \in Nat \ {0}, NEW k \in Nat \ {0}, NEW special \in AnyToken,
         NEW w, Spread(w, n, k, special)
  PROVE  /\ w \in Seq(AnyToken) /\ Len(w) = SpreadLen(n, k) /\ DOMAIN w = 1..SpreadLen(n, k)
         /\ \A q \in 1..SpreadLen(n, k) : w[q] = SpreadAt(n, k, special, q)
<1> DEFINE ids == Tokens("cot", n)
           len == SpreadLen(n, k)
           e(q) == IF IsMark(n, k, q) THEN special ELSE ids[q - (q \div (k + 1))]
<1>1. ids \in Seq(AnyToken) /\ Len(ids) = n /\ \A i \in 1..n : ids[i] = <<"cot", i>>
  <2>1. \A i \in 1..n : <<"cot", i>> \in AnyToken
    BY DEF AnyToken, Kinds
  <2> QED
    BY <2>1, TokensProperties
<1>2. w = [q \in 1..len |-> e(q)]
  BY <1>1 DEF Spread, InsertEveryK, IsMark, SpreadLen
<1>3. len \in Nat
  BY MarkProperties
<1>4. \A q \in 1..len : ~IsMark(n, k, q) => q - (q \div (k + 1)) \in 1..n
  BY MarkProperties
<1>5. \A i \in 1..n : <<"cot", i>> \in AnyToken
  BY DEF AnyToken, Kinds
<1> HIDE DEF ids, len
<1>6. \A q \in 1..len : /\ e(q) = SpreadAt(n, k, special, q)
                        /\ e(q) \in AnyToken
  BY <1>1, <1>4, <1>5 DEF SpreadAt
<1> HIDE DEF e
<1>7. [q \in 1..len |-> e(q)] \in Seq(AnyToken)
  BY <1>3, <1>6, IsASeq
<1>8. Len(w) = len /\ DOMAIN w = 1..len /\ \A q \in 1..len : w[q] = e(q)
  BY <1>2, <1>3
<1> QED
  BY <1>2, <1>6, <1>7, <1>8 DEF len

(* Where these special tokens are, and that the first is removed up to.    *)
LEMMA InsertedAt ==
  ASSUME NEW n \in Nat \ {0}, NEW k \in Nat \ {0}, NEW special \in AnyToken,
         \A i : special # <<"cot", i>>,
         NEW w, Spread(w, n, k, special)
  PROVE  /\ \A q : q \in Where(w, special) <=> \E i \in 1..CompressCount(n, k) : q = Mark(n, k, i)
         /\ Min(Where(w, special)) = Mark(n, k, 1)
<1> DEFINE C == CompressCount(n, k)
           len == SpreadLen(n, k)
<1>0. /\ DOMAIN w = 1..len
      /\ \A q \in 1..len : w[q] = SpreadAt(n, k, special, q)
  BY Inserted
<1>1. C \in Nat \ {0}
  BY CountMeans
<1>2. ASSUME NEW q PROVE q \in Where(w, special) <=> \E i \in 1..C : q = Mark(n, k, i)
  <2>1. q \in Where(w, special) <=> q \in 1..len /\ w[q] = special
    BY <1>0 DEF Where
  <2>2. q \in 1..len => (w[q] = special <=> IsMark(n, k, q))
    <3>1. <<"cot", q - (q \div (k + 1))>> # special
      OBVIOUS
    <3> QED
      BY <1>0, <3>1 DEF SpreadAt
  <2>3. q \in 1..len => (IsMark(n, k, q) <=> \E i \in 1..C : q = Mark(n, k, i))
    BY MarkProperties
  <2>4. \A i \in 1..C : Mark(n, k, i) \in 1..len
    BY MarkProperties
  <2> QED
    BY <2>1, <2>2, <2>3, <2>4
<1>3. Min(Where(w, special)) = Mark(n, k, 1)
  <2> DEFINE S == Where(w, special)
             m == Mark(n, k, 1)
  <2>1. 1 \in 1..C /\ \A i \in 1..C : Mark(n, k, i) \in 1..len
    BY <1>1, MarkProperties
  <2>2. m \in S /\ S \subseteq Int
    BY <1>2, <2>1
  <2>3. \A i \in 1..C : 1 < i => m < Mark(n, k, i)
    BY <2>1, MarkProperties
  <2>4. \A i \in 1..C : m <= Mark(n, k, i)
    BY <1>1, <2>1, <2>3
  <2>5. \A x \in S : m <= x
    BY <1>2, <2>4
  <2> HIDE DEF S, m
  <2>6. Min(S) = m
    BY <2>2, <2>5, MinIs
  <2> QED
    BY <2>6 DEF S, m
<1> QED
  BY <1>2, <1>3
-----------------------------------------------------------------------------
(* Special tokens by rank.                                                 *)

\* u is m between a and z.
Framed(u, a, m, z) == u = (a \o m) \o z

(* The positions of the three parts.                                       *)
LEMMA FramedAt ==
  ASSUME NEW S, NEW a \in Seq(S), NEW m \in Seq(S), NEW z \in Seq(S), NEW u, Framed(u, a, m, z),
         NEW x \in Nat, Len(a) = x, NEW y \in Nat, Len(m) = y, NEW n \in Nat, Len(z) = n
  PROVE  /\ u \in Seq(S) /\ Len(u) = x + y + n /\ DOMAIN u = 1..x + y + n
         /\ \A i \in 1..x : u[i] = a[i]
         /\ \A i \in 1..y : u[x + i] = m[i]
         /\ \A i \in 1..n : u[x + y + i] = z[i]
<1> DEFINE b == a \o m
<1>1. Joins(b, a, m) /\ Joins(u, b, z)
  BY DEF Joins, Framed
<1> HIDE DEF b
<1>2. /\ b \in Seq(S) /\ Len(b) = x + y
      /\ \A k \in 1..x + y : b[k] = IF k <= x THEN a[k] ELSE m[k - x]
  BY <1>1, Concatenated
<1> DEFINE d == x + y
<1>3. d \in Nat /\ Len(b) = d /\ b \in Seq(S) /\ Joins(u, b, z)
  BY <1>1, <1>2
<1> HIDE DEF d
<1>4. /\ u \in Seq(S) /\ Len(u) = d + n
      /\ \A k \in 1..d + n : u[k] = IF k <= d THEN b[k] ELSE z[k - d]
  BY <1>3, Concatenated
<1> USE DEF d
<1>5. DOMAIN u = 1..x + y + n
  BY <1>4
<1>6. ASSUME NEW i \in 1..x PROVE u[i] = a[i]
  BY <1>2, <1>4
<1>7. ASSUME NEW i \in 1..y PROVE u[x + i] = m[i]
  <2>1. x + i \in 1..x + y /\ x + i \in 1..d + n /\ ~(x + i <= x) /\ (x + i) - x = i /\ x + i <= d
    OBVIOUS
  <2> QED
    BY <1>2, <1>4, <2>1
<1>8. ASSUME NEW i \in 1..n PROVE u[x + y + i] = z[i]
  <2>1. x + y + i \in 1..d + n /\ ~(x + y + i <= d) /\ (x + y + i) - d = i
    OBVIOUS
  <2> QED
    BY <1>4, <2>1
<1> QED
  BY <1>4, <1>5, <1>6, <1>7, <1>8

\* token is not among the elements of s.
Without(s, token) == \A i \in DOMAIN s : s[i] # token

(* Parts without a token only push on where it is.                         *)
LEMMA RankedFrame ==
  ASSUME NEW S, NEW a \in Seq(S), NEW m \in Seq(S), NEW z \in Seq(S), NEW u, Framed(u, a, m, z),
         NEW token, Without(a, token), Without(z, token),
         NEW c \in Nat, NEW w, Ranked(w, c, Where(m, token)),
         NEW v, \A r \in 1..c : v[r] = Len(a) + w[r]
  PROVE  Ranked(v, c, Where(u, token))
<1> DEFINE x == Len(a)
           y == Len(m)
           n == Len(z)
<1>1. /\ x \in Nat /\ y \in Nat /\ n \in Nat
      /\ DOMAIN a = 1..x /\ DOMAIN m = 1..y /\ DOMAIN z = 1..n
      /\ Len(a) = x /\ Len(m) = y /\ Len(z) = n
  BY LenProperties
<1> HIDE DEF x, y, n
<1>2. /\ DOMAIN u = 1..x + y + n
      /\ \A i \in 1..x : u[i] = a[i]
      /\ \A i \in 1..y : u[x + i] = m[i]
      /\ \A i \in 1..n : u[x + y + i] = z[i]
  BY <1>1, FramedAt
<1>3. \A r \in 1..c : v[r] = x + w[r] /\ w[r] \in Int
  BY <1>1 DEF Ranked
<1>4. \A r, q \in 1..c : r < q => w[r] < w[q]
  BY DEF Ranked
<1>5. \A i : i \in Where(m, token) <=> \E r \in 1..c : i = w[r]
  BY DEF Ranked
<1>6. \A i : i \in Where(m, token) <=> i \in 1..y /\ m[i] = token
  BY <1>1 DEF Where
<1>7. \A i : i \in Where(u, token) <=> i \in 1..x + y + n /\ u[i] = token
  BY <1>2 DEF Where
<1>8. ASSUME NEW i PROVE i \in Where(u, token) <=> \E r \in 1..c : i = v[r]
  <2>1. ASSUME NEW r \in 1..c, i = v[r] PROVE i \in Where(u, token)
    <3>1. w[r] \in 1..y /\ m[w[r]] = token /\ i = x + w[r]
      BY <1>3, <1>5, <1>6, <2>1
    <3>2. u[i] = token /\ i \in 1..x + y + n
      BY <1>1, <1>2, <3>1
    <3> QED
      BY <1>7, <3>2
  <2>2. ASSUME i \in Where(u, token) PROVE \E r \in 1..c : i = v[r]
    <3>1. i \in 1..x + y + n /\ u[i] = token
      BY <1>7, <2>2
    <3>2. i \notin 1..x
      BY <1>1, <1>2, <3>1 DEF Without
    <3>3. i - (x + y) \notin 1..n
      <4>1. ASSUME i - (x + y) \in 1..n PROVE FALSE
        <5> DEFINE h == i - (x + y)
        <5>1. h \in 1..n /\ x + y + h = i
          BY <1>1, <3>1, <4>1
        <5> HIDE DEF h
        <5> QED
          BY <1>1, <1>2, <3>1, <5>1 DEF Without
      <4> QED
        BY <4>1
    <3> DEFINE h == i - x
    <3>4. h \in 1..y /\ x + h = i
      BY <1>1, <3>1, <3>2, <3>3
    <3> HIDE DEF h
    <3>6. u[x + h] = token
      BY <3>1, <3>4
    <3>5. h \in Where(m, token)
      BY <1>2, <1>6, <3>4, <3>6
    <3> QED
      BY <1>3, <1>5, <3>4, <3>5, SMTT(30)
  <2> QED
    BY <2>1, <2>2
<1>9. \A r, q \in 1..c : r < q => v[r] < v[q]
  <2>1. ASSUME NEW r \in 1..c, NEW q \in 1..c, r < q PROVE v[r] < v[q]
    <3>1. w[r] < w[q] /\ w[r] \in Int /\ w[q] \in Int
      BY <1>3, <1>4, <2>1
    <3>2. v[r] = x + w[r] /\ v[q] = x + w[q]
      BY <1>3
    <3> QED
      BY <1>1, <3>1, <3>2
  <2> QED
    BY <2>1
<1>10. \A r \in 1..c : v[r] \in Int
  BY <1>1, <1>3
<1> QED
  BY <1>8, <1>9, <1>10 DEF Ranked
-----------------------------------------------------------------------------
(* The parts of an example.                                                *)

\* What the assumption says of the batch at hand.
InputOK ==
  /\ input.k \in Nat \ {0} /\ input.endLen \in Nat \ {0} /\ input.eosIsPad \in BOOLEAN
  /\ input.examples \in Seq(Examples) /\ Len(input.examples) \in Nat \ {0}

\* Tokens of the prompt and the answer.
Plain == (Kinds \ {"-100", "compress", "cot"}) \X Nat

(* Every batch is as assumed.                                              *)
LEMMA Inputs ==
  ASSUME input \in Batches
  PROVE  InputOK /\ EndLen /\ Rows = 1..Len(input.examples)
         /\ \A b \in Rows : input.examples[b] \in Examples
<1>1. /\ {input.k, input.endLen} \subseteq Nat \ {0} /\ input.eosIsPad \in BOOLEAN
      /\ input.examples \in Seq(Examples) \ {<<>>}
  BY BatchesAssumption, Zenon
<1>2. input.examples \in Seq(Examples) /\ input.examples # <<>>
  BY <1>1, Zenon
<1> DEFINE s == input.examples
<1>3. Len(s) \in Nat \ {0} /\ \A b \in 1..Len(s) : s[b] \in Examples
  <2>1. s \in Seq(Examples) /\ s # <<>>
    BY <1>2
  <2> HIDE DEF s
  <2> QED
    BY <2>1
<1> QED
  BY <1>1, <1>2, <1>3 DEF InputOK, EndLen, Rows

(* A plain sequence has no latents and no compress tokens.                 *)
LEMMA PlainMeans ==
  ASSUME NEW s \in Seq(Plain)
  PROVE  /\ s \in Seq(AnyToken) /\ Len(s) \in Nat /\ DOMAIN s = 1..Len(s)
         /\ Without(s, Ignored) /\ Without(s, Compress)
         /\ \A i \in 1..Len(s) : s[i][1] # "cot" /\ s[i] \in Plain
<1>1. Plain \subseteq AnyToken
  BY DEF Plain, AnyToken
<1>2. \A t \in Plain : t # Ignored /\ t # Compress /\ t[1] # "cot"
  BY DEF Plain, Ignored, Compress
<1>3. Len(s) \in Nat /\ DOMAIN s = 1..Len(s) /\ \A i \in 1..Len(s) : s[i] \in Plain
  OBVIOUS
<1>4. s \in Seq(AnyToken)
  BY <1>1
<1> QED
  BY <1>2, <1>3, <1>4 DEF Without

(* One after the other they are plain again.                               *)
LEMMA PlainConcat ==
  ASSUME NEW s \in Seq(Plain), NEW t \in Seq(Plain)
  PROVE  s \o t \in Seq(Plain) /\ Len(s \o t) = Len(s) + Len(t)
<1> HIDE DEF Plain
<1> QED
  BY ConcatProperties

(* The parts of an example are plain, but for its reasoning.               *)
LEMMA Pieces ==
  ASSUME InputOK, NEW x \in Examples
  PROVE  /\ PromptIds(x) \in Seq(Plain)
         /\ Think \in Seq(Plain) /\ Len(Think) = 1
         /\ EndThink \in Seq(Plain) /\ Len(EndThink) = input.endLen
         /\ \A j \in 1..input.endLen : EndThink[j] = <<"/think", j>>
         /\ SuffixIds(x) \in Seq(Plain) /\ Len(SuffixIds(x)) \in Nat \ {0}
<1>1. ASSUME NEW kind \in {"think", "/think", "prompt", "answer"}, NEW n \in Nat
      PROVE  /\ Tokens(kind, n) \in Seq(Plain) /\ Len(Tokens(kind, n)) = n
             /\ \A i \in 1..n : Tokens(kind, n)[i] = <<kind, i>>
  <2>1. \A i \in 1..n : <<kind, i>> \in Plain
    BY DEF Plain, Kinds
  <2> QED
    BY <2>1, TokensProperties
<1>2. Eos \in Plain
  BY DEF Eos, Pad, Plain, Kinds
<1>3. x.prompt \in Nat /\ x.answer \in Nat
  BY DEF Examples
<1>4. Think \in Seq(Plain) /\ Len(Think) = 1
  BY <1>1 DEF Think
<1>5. /\ EndThink \in Seq(Plain) /\ Len(EndThink) = input.endLen
      /\ \A j \in 1..input.endLen : EndThink[j] = <<"/think", j>>
  <2>1. input.endLen \in Nat
    BY DEF InputOK
  <2> QED
    BY <1>1, <2>1 DEF EndThink
<1>6. Tokens("prompt", x.prompt) \in Seq(Plain)
  BY <1>1, <1>3
<1>7. Tokens("answer", x.answer) \in Seq(Plain)
  BY <1>1, <1>3
<1> DEFINE e == IF x.marker = "problem" THEN EndThink ELSE <<>>
           f == IF x.marker = "cot_answer" THEN EndThink ELSE <<>>
<1>8. e \in Seq(Plain) /\ f \in Seq(Plain) /\ <<>> \in Seq(Plain)
  BY <1>5
<1>9. <<Eos>> \in Seq(Plain) /\ Len(<<Eos>>) = 1
  BY <1>2
<1>10. PromptIds(x) \in Seq(Plain)
  <2>1. PromptIds(x) = e \o Tokens("prompt", x.prompt)
    BY Zenon DEF PromptIds
  <2> HIDE DEF e
  <2> QED
    BY <1>6, <1>8, <2>1, PlainConcat
<1>11. SuffixIds(x) \in Seq(Plain) /\ Len(SuffixIds(x)) \in Nat \ {0}
  <2> DEFINE g == f \o Tokens("answer", x.answer)
  <2>1. SuffixIds(x) = g \o <<Eos>>
    BY Zenon DEF SuffixIds
  <2>2. g \in Seq(Plain)
    <3> HIDE DEF f
    <3> QED
      BY <1>7, <1>8, PlainConcat
  <2> HIDE DEF f, g
  <2>3. g \o <<Eos>> \in Seq(Plain) /\ Len(g \o <<Eos>>) = Len(g) + Len(<<Eos>>)
    BY <1>9, <2>2, PlainConcat
  <2>4. Len(g) \in Nat
    BY <2>2, PlainMeans
  <2> QED
    BY <1>9, <2>1, <2>3, <2>4
<1> QED
  BY <1>4, <1>5, <1>10, <1>11

\* The positions of the special tokens by rank.
Marks(n, k) == [r \in 1..CompressCount(n, k) |-> Mark(n, k, r)]

(* The special tokens of the reasoning by rank.                            *)
LEMMA InsertedRanked ==
  ASSUME NEW n \in Nat \ {0}, NEW k \in Nat \ {0}, NEW special \in AnyToken,
         \A i : special # <<"cot", i>>,
         NEW w, Spread(w, n, k, special)
  PROVE  Ranked(Marks(n, k), CompressCount(n, k), Where(w, special))
<1> DEFINE c == CompressCount(n, k)
           f == Marks(n, k)
<1>1. \A r \in 1..c : f[r] = Mark(n, k, r)
  BY DEF Marks
<1>2. /\ \A r \in 1..c : Mark(n, k, r) \in Int
      /\ \A r, q \in 1..c : r < q => Mark(n, k, r) < Mark(n, k, q)
  <2>1. SpreadLen(n, k) \in Nat /\ \A i \in 1..c : Mark(n, k, i) \in 1..SpreadLen(n, k)
    BY MarkProperties
  <2>2. \A r, q \in 1..c : r < q => Mark(n, k, r) < Mark(n, k, q)
    BY MarkProperties
  <2> QED
    BY <2>1, <2>2
<1>3. \A q : q \in Where(w, special) <=> \E i \in 1..c : q = Mark(n, k, i)
  BY InsertedAt
<1> HIDE DEF c, f
<1>4. Ranked(f, c, Where(w, special))
  BY <1>1, <1>2, <1>3 DEF Ranked
<1> QED
  BY <1>4 DEF c, f

\* What is left from the first latent on.
Cut(u, w) == u = RemoveBefore(w, Ignored)

(* Its elements and latents.                                               *)
LEMMA CutAtLatent ==
  ASSUME NEW n \in Nat \ {0}, NEW k \in Nat \ {0}, NEW w, Spread(w, n, k, Ignored),
         NEW u, Cut(u, w), NEW m \in Nat, m = Mark(n, k, 1), NEW d \in Nat, d = SpreadLen(n, k),
         NEW v, \A r \in 1..CompressCount(n, k) : v[r] = Mark(n, k, r) - m + 1
  PROVE  /\ u \in Seq(AnyToken) /\ Len(u) = d - m + 1 /\ m \in 1..d
         /\ \A i \in 1..d-m+1 : u[i] = w[m + i - 1]
         /\ Ranked(v, CompressCount(n, k), Where(u, Ignored))
<1> DEFINE c == CompressCount(n, k)
<1>1. c \in Nat \ {0}
  BY CountMeans
<1>2. Ignored \in AnyToken /\ \A i : Ignored # <<"cot", i>>
  BY Specials DEF Ignored
<1>3. w \in Seq(AnyToken) /\ Len(w) = d /\ DOMAIN w = 1..d
  BY <1>2, Inserted
<1>4. /\ \A i \in 1..c : Mark(n, k, i) \in 1..d
      /\ \A i, j \in 1..c : i < j => Mark(n, k, i) < Mark(n, k, j)
  BY MarkProperties
<1>5. Min(Where(w, Ignored)) = m
  BY <1>2, InsertedAt
<1>6. \A q : q \in Where(w, Ignored) <=> \E i \in 1..c : q = Mark(n, k, i)
  BY <1>2, InsertedAt
<1>7. m \in 1..d
  BY <1>1, <1>4
<1>8. u = SubSeq(w, m, d)
  BY <1>3, <1>5 DEF Cut, RemoveBefore
<1>9. u \in Seq(AnyToken) /\ Len(u) = d - m + 1 /\ \A i \in 1..d-m+1 : u[i] = w[m + i - 1]
  <2>1. \A i \in m..d : w[i] \in AnyToken
    BY <1>3, <1>7
  <2>2. m \in Int /\ d \in Int /\ m <= d
    BY <1>7
  <2>3. /\ SubSeq(w, m, d) \in Seq(AnyToken) /\ Len(SubSeq(w, m, d)) = d - m + 1
        /\ \A i \in 1..d-m+1 : SubSeq(w, m, d)[i] = w[m + i - 1]
    BY <2>1, <2>2, SubSeqProperties
  <2> QED
    BY <1>8, <2>3
<1> HIDE DEF c
<1>10. \A r \in 1..c : v[r] = Mark(n, k, r) - m + 1
  BY DEF c
<1>11. ASSUME NEW y PROVE y \in Where(u, Ignored) <=> \E r \in 1..c : y = v[r]
  <2>1. DOMAIN u = 1..d-m+1
    BY <1>7, <1>9
  <2>2. y \in Where(u, Ignored) <=> y \in 1..d-m+1 /\ u[y] = Ignored
    BY <2>1 DEF Where
  <2>3. \A q : q \in 1..d => (w[q] = Ignored <=> \E i \in 1..c : q = Mark(n, k, i))
    BY <1>3, <1>6 DEF Where
  <2>4. \A i \in 1..c : Mark(n, k, i) \in m..d
    BY <1>1, <1>4, <1>7
  <2>5. ASSUME y \in 1..d-m+1, u[y] = Ignored PROVE \E r \in 1..c : y = v[r]
    <3> DEFINE q == m + y - 1
    <3>1. q \in 1..d /\ w[q] = Ignored /\ y = q - m + 1
      BY <1>7, <1>9, <2>5, SMTT(30)
    <3> HIDE DEF q
    <3>2. PICK r \in 1..c : q = Mark(n, k, r)
      BY <2>3, <3>1
    <3> QED
      BY <1>10, <3>1, <3>2
  <2>6. ASSUME NEW r \in 1..c, y = v[r] PROVE y \in 1..d-m+1 /\ u[y] = Ignored
    <3> DEFINE q == Mark(n, k, r)
    <3>1. q \in m..d /\ y = q - m + 1 /\ w[q] = Ignored
      BY <1>4, <1>10, <2>3, <2>4, <2>6
    <3> HIDE DEF q
    <3>2. y \in 1..d-m+1 /\ m + y - 1 = q
      BY <1>7, <3>1
    <3> QED
      BY <1>9, <3>1, <3>2
  <2> QED
    BY <2>2, <2>5, <2>6
<1>12. Ranked(v, c, Where(u, Ignored))
  <2>1. \A r \in 1..c : v[r] \in Int
    BY <1>4, <1>10
  <2>2. \A r, q \in 1..c : r < q => v[r] < v[q]
    BY <1>4, <1>10
  <2> QED
    BY <1>11, <2>1, <2>2 DEF Ranked
<1> QED
  BY <1>7, <1>9, <1>12 DEF c

\* What comes before the reasoning, what comes after it, its segments.
Opening(x) == PromptIds(x) \o Think
Closing(x) == EndThink \o SuffixIds(x)
Segments(x) == CompressCount(x.cot, input.k)

\* The reasoning with a special token after each segment; of stage 1's
\* decoder, without the first segment.
Spaced(x, special) == InsertEveryK(TrainText(x), special, input.k)
Spacers(x) == RemoveBefore(Spaced(x, Ignored), Ignored)

(* They are plain.                                                         *)
LEMMA Sides ==
  ASSUME InputOK, NEW x \in Examples
  PROVE  /\ Opening(x) \in Seq(Plain) /\ Len(Opening(x)) \in Nat \ {0}
         /\ Closing(x) \in Seq(Plain) /\ Len(Closing(x)) \in Nat \ {0}
<1>1. /\ PromptIds(x) \in Seq(Plain)
      /\ Think \in Seq(Plain) /\ Len(Think) = 1
      /\ EndThink \in Seq(Plain) /\ SuffixIds(x) \in Seq(Plain) /\ Len(SuffixIds(x)) \in Nat \ {0}
  BY Pieces
<1>2. Len(PromptIds(x)) \in Nat /\ Len(EndThink) \in Nat
  BY <1>1, PlainMeans
<1>3. Opening(x) \in Seq(Plain) /\ Len(Opening(x)) = Len(PromptIds(x)) + Len(Think)
  BY <1>1, PlainConcat DEF Opening
<1>4. Closing(x) \in Seq(Plain) /\ Len(Closing(x)) = Len(EndThink) + Len(SuffixIds(x))
  BY <1>1, PlainConcat DEF Closing
<1> QED
  BY <1>1, <1>2, <1>3, <1>4

(* Stage 1 trains on the tokens of the field cot.                          *)
LEMMA TrainTextIs ==
  ASSUME NEW x
  PROVE  TrainText(x) = Tokens("cot", x.cot)
BY DEF TrainText, Stripped, CotText

(* An example that is not refused has segments.                            *)
LEMMA SegmentsMeans ==
  ASSUME InputOK, NEW x \in Examples, x.cot # 0
  PROVE  x.cot \in Nat \ {0} /\ input.k \in Nat \ {0} /\ Segments(x) \in Nat \ {0}
<1>1. x.cot \in Nat \ {0} /\ input.k \in Nat \ {0}
  BY DEF Examples, InputOK
<1> QED
  BY <1>1, CountMeans DEF Segments

\* Where the encoder's input has its compress tokens.
CompressAt(x) == [r \in 1..Segments(x) |-> Len(Opening(x)) + Mark(x.cot, input.k, r)]

(* The encoder's input.                                                    *)
LEMMA EncoderRow ==
  ASSUME InputOK, NEW x \in Examples, x.cot # 0
  PROVE  /\ CotIds(x) \in Seq(AnyToken)
         /\ Ranked(CompressAt(x), Segments(x), Where(CotIds(x), Compress))
<1> DEFINE w == Spaced(x, Compress)
           c == Segments(x)
           n == x.cot
           k == input.k
           a == Opening(x)
           z == EndThink
           u == CotIds(x)
<1>1. n \in Nat \ {0} /\ k \in Nat \ {0} /\ c \in Nat \ {0}
  BY SegmentsMeans
<1>2. Spread(w, n, k, Compress) /\ c = CompressCount(n, k)
  BY TrainTextIs DEF Spread, Spaced, Segments
<1>3. Framed(u, a, w, z)
  BY Zenon DEF CotIds, EncoderIds, Framed, Opening, Spaced
<1>4. a \in Seq(Plain) /\ z \in Seq(Plain)
  BY Sides, Pieces
<1>5. a \in Seq(AnyToken) /\ z \in Seq(AnyToken) /\ Without(a, Compress) /\ Without(z, Compress)
  BY <1>4, PlainMeans
<1>6. Compress \in AnyToken /\ \A i : Compress # <<"cot", i>>
  BY Specials DEF Compress
<1>7. \A r \in 1..c : CompressAt(x)[r] = Len(a) + Marks(n, k)[r]
  BY <1>2 DEF CompressAt, Marks
<1> HIDE DEF w, c, n, k, a, z, u
<1>8. w \in Seq(AnyToken) /\ Ranked(Marks(n, k), c, Where(w, Compress))
  BY <1>1, <1>2, <1>6, Inserted, InsertedRanked
<1>9. /\ Len(a) \in Nat /\ Len(w) \in Nat /\ Len(z) \in Nat
  BY <1>5, <1>8, LenProperties
<1>10. u \in Seq(AnyToken)
  BY <1>3, <1>5, <1>8, <1>9, FramedAt
<1>11. Ranked(CompressAt(x), c, Where(u, Compress))
  BY <1>1, <1>3, <1>5, <1>7, <1>8, RankedFrame
<1> QED
  BY <1>10, <1>11 DEF c, u

-----------------------------------------------------------------------------
(* The encoder's input for the text of any field.                          *)

\* What a text may hold.
Words == (Kinds \ {"-100", "compress"}) \X Nat

(* Every text is of words, and that of the validation is not empty where   *)
(* stage 1 takes the example.                                              *)
LEMMA TextsAre ==
  ASSUME InputOK, NEW x \in Examples
  PROVE  /\ TrainText(x) \in Seq(Words) /\ LabelText(x) \in Seq(Words)
         /\ ValidationText(x) \in Seq(Words)
         /\ Len(TrainText(x)) = x.cot
         /\ x.cot # 0 => Len(ValidationText(x)) # 0
<1> DEFINE c == Tokens("cot", x.cot)
           s == Tokens("solution", x.other)
<1>1. ASSUME NEW kind \in {"cot", "solution"}, NEW n \in Nat
      PROVE  Tokens(kind, n) \in Seq(Words) /\ Len(Tokens(kind, n)) = n
  <2>1. \A i \in 1..n : <<kind, i>> \in Words
    BY DEF Words, Kinds
  <2> QED
    BY <2>1, TokensProperties
<1>2. c \in Seq(Words) /\ Len(c) = x.cot /\ x.cot \in Nat /\ s \in Seq(Words)
  <2>1. x.cot \in Nat /\ x.other \in Nat
    BY DEF Examples
  <2> QED
    BY <1>1, <2>1
<1>3. Think \in Seq(Words) /\ EndThink \in Seq(Words) /\ <<>> \in Seq(Words)
  <2>1. Think \in Seq(Plain) /\ EndThink \in Seq(Plain)
    BY Pieces
  <2>2. Plain \subseteq Words
    BY DEF Plain, Words
  <2> QED
    BY <2>1, <2>2
<1>4. TrainText(x) = c
  BY TrainTextIs
<1> HIDE DEF c, s
<1>5. /\ CotText(x).ids = c /\ SolutionText(x).ids \in {c, s}
  BY DEF CotText, SolutionText, c, s
<1>6. LabelText(x) \in Seq(Words)
  BY <1>2, <1>5, Zenon DEF LabelText, Stripped
<1>7. ASSUME NEW t, t.ids \in Seq(Words)
      PROVE  Unstripped(t) \in Seq(Words) /\ Len(Unstripped(t)) >= Len(t.ids)
  <2> DEFINE a == IF t.open THEN Think ELSE <<>>
             z == IF t.close THEN EndThink ELSE <<>>
             d == t.ids
             u == a \o d
  <2>1. a \in Seq(Words) /\ z \in Seq(Words) /\ d \in Seq(Words)
    BY <1>3, <1>7
  <2>2. Unstripped(t) = u \o z
    BY Zenon DEF Unstripped
  <2> HIDE DEF a, z, d
  <2>3. u \in Seq(Words) /\ Len(u) = Len(a) + Len(d)
    BY <2>1, ConcatProperties
  <2> HIDE DEF u
  <2>4. u \o z \in Seq(Words) /\ Len(u \o z) = Len(u) + Len(z)
    BY <2>1, <2>3, ConcatProperties
  <2>5. Len(a) \in Nat /\ Len(z) \in Nat /\ Len(d) \in Nat
    BY <2>1, LenProperties
  <2>6. Len(u \o z) >= Len(d)
    BY <2>3, <2>4, <2>5
  <2> QED
    BY <2>2, <2>4, <2>6 DEF d
<1>8. /\ Unstripped(CotText(x)) \in Seq(Words) /\ Len(Unstripped(CotText(x))) >= x.cot
      /\ Unstripped(SolutionText(x)) \in Seq(Words)
  <2>1. CotText(x).ids \in Seq(Words) /\ Len(CotText(x).ids) = x.cot /\ SolutionText(x).ids \in Seq(Words)
    BY <1>2, <1>5
  <2> QED
    BY <1>7, <2>1
<1>9. /\ Len(Unstripped(CotText(x))) \in Nat /\ Len(Unstripped(SolutionText(x))) \in Nat
  BY <1>8, LenProperties
<1>10. ValidationText(x) \in Seq(Words) /\ (x.cot # 0 => Len(ValidationText(x)) # 0)
  <2>1. CASE x.solution # "absent" /\ Len(Unstripped(SolutionText(x))) > 0
    BY <1>8, <1>9, <2>1 DEF ValidationText
  <2>2. CASE ~(x.solution # "absent" /\ Len(Unstripped(SolutionText(x))) > 0)
    <3>1. ValidationText(x) = Unstripped(CotText(x))
      BY <2>2, Zenon DEF ValidationText
    <3>2. x.cot # 0 => Len(Unstripped(CotText(x))) # 0
      BY <1>2, <1>8, <1>9
    <3> QED
      BY <1>8, <3>1, <3>2, Zenon
  <2> QED
    BY <2>1, <2>2
<1> QED
  BY <1>2, <1>4, <1>6, <1>10

(* A text with a special token after each of its segments.                 *)
LEMMA TextSpread ==
  ASSUME NEW text \in Seq(Words), NEW n, n = Len(text), NEW k \in Nat \ {0},
         NEW w, w = InsertEveryK(text, Compress, k)
  PROVE  /\ w \in Seq(AnyToken) /\ CompressCount(n, k) \in Nat
         /\ n # 0 => CompressCount(n, k) # 0
         /\ Ranked(Marks(n, k), CompressCount(n, k), Where(w, Compress))
<1> DEFINE len == SpreadLen(n, k)
           e(q) == IF IsMark(n, k, q) THEN Compress ELSE text[q - (q \div (k + 1))]
           c == CompressCount(n, k)
<1>1. n \in Nat /\ \A i \in 1..n : text[i] \in Words
  BY LenProperties, ElementOfSeq
<1>2. Words \subseteq AnyToken /\ Compress \in AnyToken /\ Compress \notin Words
  BY Specials DEF Words, AnyToken, Compress
<1>3. w = [q \in 1..len |-> e(q)]
  BY DEF InsertEveryK, IsMark, SpreadLen
<1>4. CASE n # 0
  <2>1. n \in Nat \ {0} /\ c \in Nat \ {0} /\ len \in Nat
    BY <1>1, <1>4, CountMeans, MarkProperties
  <2>2. \A q \in 1..len : ~IsMark(n, k, q) => q - (q \div (k + 1)) \in 1..n
    BY <2>1, MarkProperties
  <2>3. ASSUME NEW q \in 1..len PROVE e(q) \in AnyToken /\ (e(q) = Compress <=> IsMark(n, k, q))
    BY <1>1, <1>2, <2>2, <2>3
  <2> HIDE DEF e, len
  <2>4. w \in Seq(AnyToken)
    BY <1>3, <2>1, <2>3, IsASeq
  <2>5. DOMAIN w = 1..len /\ \A q \in 1..len : w[q] = e(q)
    BY <1>3
  <2>6. \A q \in 1..len : IsMark(n, k, q) <=> \E i \in 1..c : q = Mark(n, k, i)
    <3>1. \A q \in 1..SpreadLen(n, k) :
            /\ IsMark(n, k, q) <=> \E i \in 1..CompressCount(n, k) : q = Mark(n, k, i)
            /\ ~IsMark(n, k, q) => q - (q \div (k + 1)) \in 1..n
      BY <2>1, MarkProperties
    <3> QED
      BY <3>1, Zenon DEF len
  <2>7. \A i \in 1..c : Mark(n, k, i) \in 1..len
    BY <2>1, MarkProperties DEF len
  <2>8. \A i, j \in 1..c : i < j => Mark(n, k, i) < Mark(n, k, j)
    BY <2>1, MarkProperties
  <2>9. \A q : q \in Where(w, Compress) <=> q \in 1..len /\ IsMark(n, k, q)
    BY <2>3, <2>5 DEF Where
  <2>10. \A q : q \in Where(w, Compress) <=> \E i \in 1..c : q = Mark(n, k, i)
    BY <2>6, <2>7, <2>9, Zenon
  <2>11. \A i \in 1..c : Marks(n, k)[i] = Mark(n, k, i)
    BY DEF Marks
  <2>12. \A i \in 1..c : Mark(n, k, i) \in Int
    BY <2>1, <2>7
  <2> HIDE DEF c
  <2>13. Ranked(Marks(n, k), c, Where(w, Compress))
    BY <2>8, <2>10, <2>11, <2>12 DEF Ranked
  <2> QED
    BY <2>1, <2>4, <2>13 DEF c
<1>5. CASE n = 0
  <2>1. c = 0
    <3>1. (k - 1) \div k = 0
      <4> DEFINE m == k - 1
      <4>1. m \in Nat /\ k \in Nat \ {0} /\ m < k
        OBVIOUS
      <4> HIDE DEF m
      <4>2. m \div k \in Nat /\ m % k \in 0..k-1 /\ m = k * (m \div k) + (m % k)
        BY <4>1, DivMod
      <4>3. ASSUME NEW q \in Nat, NEW d \in 0..k-1, m = k * q + d PROVE q = 0
        <5>1. 0 < q => k * 0 + k <= k * q
          BY <4>1, TimesGrows
        <5> QED
          BY <4>1, <4>3, <5>1
      <4>4. m \div k = 0
        BY <4>2, <4>3
      <4> QED
        BY <4>4 DEF m
    <3>2. n + k - 1 = k - 1
      BY <1>5
    <3> QED
      BY <3>1, <3>2, Zenon DEF CompressCount
  <2>2. len = 0
    BY <1>5, <2>1 DEF SpreadLen
  <2>3. w = <<>>
    BY <1>3, <2>2
  <2>4. Ranked(Marks(n, k), 0, Where(w, Compress))
    BY <2>3 DEF Ranked, Where
  <2> QED
    BY <1>5, <2>1, <2>3, <2>4
<1> QED
  BY <1>4, <1>5

\* Where the encoder's input has its compress tokens for a text of n tokens.
TextAt(x, n) ==
  [r \in 1..CompressCount(n, input.k) |-> Len(Opening(x)) + Mark(n, input.k, r)]

(* The encoder's input.                                                    *)
LEMMA TextRow ==
  ASSUME InputOK, NEW x \in Examples, NEW text \in Seq(Words), NEW n, n = Len(text),
         NEW c, c = CompressCount(n, input.k)
  PROVE  /\ EncoderIds(x, text) \in Seq(AnyToken)
         /\ Ranked(TextAt(x, n), c, Where(EncoderIds(x, text), Compress))
         /\ c \in Nat /\ (n # 0 => c # 0)
<1> DEFINE k == input.k
           w == InsertEveryK(text, Compress, k)
           a == Opening(x)
           z == EndThink
           u == EncoderIds(x, text)
<1>1. k \in Nat \ {0}
  BY DEF InputOK
<1>2. Framed(u, a, w, z)
  BY Zenon DEF EncoderIds, Framed, Opening
<1>3. a \in Seq(Plain) /\ z \in Seq(Plain)
  BY Sides, Pieces
<1>4. a \in Seq(AnyToken) /\ z \in Seq(AnyToken) /\ Without(a, Compress) /\ Without(z, Compress)
  BY <1>3, PlainMeans
<1>5. \A r \in 1..c : TextAt(x, n)[r] = Len(a) + Marks(n, k)[r]
  BY DEF TextAt, Marks
<1> HIDE DEF w, k, a, z, u
<1>6. /\ w \in Seq(AnyToken) /\ CompressCount(n, k) \in Nat
      /\ n # 0 => CompressCount(n, k) # 0
      /\ Ranked(Marks(n, k), CompressCount(n, k), Where(w, Compress))
  <2>1. w = InsertEveryK(text, Compress, k)
    BY DEF w
  <2> QED
    BY <1>1, <2>1, TextSpread
<1>7. c = CompressCount(n, k)
  BY DEF k
<1>8. Len(a) \in Nat /\ Len(w) \in Nat /\ Len(z) \in Nat
  BY <1>4, <1>6, LenProperties
<1>9. u \in Seq(AnyToken)
  BY <1>2, <1>4, <1>6, <1>8, FramedAt
<1>10. c \in Nat /\ Ranked(Marks(n, k), c, Where(w, Compress)) /\ (n # 0 => c # 0)
  BY <1>6, <1>7
<1>11. Ranked(TextAt(x, n), c, Where(u, Compress))
  BY <1>2, <1>4, <1>5, <1>6, <1>10, RankedFrame
<1> QED
  BY <1>9, <1>10, <1>11 DEF u

\* Segments of the validation's text and of the text that is labelled.
ValidCount(x) == CompressCount(Len(ValidationText(x)), input.k)
LabelCount(x) == CompressCount(Len(LabelText(x)), input.k)

(* Of the same text stage 1 makes the same segments at the same places.    *)
LEMMA SameText ==
  ASSUME InputOK, NEW x \in Examples, NEW text, text = TrainText(x), NEW n, n = Len(text)
  PROVE  CompressCount(n, input.k) = Segments(x) /\ TextAt(x, n) = CompressAt(x)
<1>1. n = x.cot
  BY TextsAre
<1> QED
  BY <1>1, Zenon DEF TextAt, CompressAt, Segments

\* Where the decoder's input has its latents.
LatentAt(x) ==
  [r \in 1..Segments(x) |-> Len(Opening(x))
                              + (Mark(x.cot, input.k, r) - Mark(x.cot, input.k, 1) + 1)]

DecoderIds(x) == Stage1Features(x).input_ids

(* The decoder's input.                                                    *)
LEMMA DecoderRow ==
  ASSUME InputOK, NEW x \in Examples, x.cot # 0
  PROVE  /\ DecoderIds(x) \in Seq(AnyToken)
         /\ Spacers(x) \in Seq(AnyToken)
         /\ Framed(DecoderIds(x), Opening(x), Spacers(x), Closing(x))
         /\ DecoderIds(x) = Opening(x) \o (Spacers(x) \o Closing(x))
         /\ Ranked(LatentAt(x), Segments(x), Where(DecoderIds(x), Ignored))
<1> DEFINE w == Spaced(x, Ignored)
           c == Segments(x)
           n == x.cot
           k == input.k
           a == Opening(x)
           e == EndThink
           s == SuffixIds(x)
           z == Closing(x)
           l == Spacers(x)
           m == Mark(n, k, 1)
           u == DecoderIds(x)
           v == [r \in 1..c |-> Mark(n, k, r) - m + 1]
<1>1. n \in Nat \ {0} /\ k \in Nat \ {0} /\ c \in Nat \ {0}
  BY SegmentsMeans
<1>2. Spread(w, n, k, Ignored) /\ c = CompressCount(n, k) /\ Cut(l, w)
  BY TrainTextIs DEF Spread, Spaced, Segments, Cut, Spacers
<1>3. u = a \o ((l \o e) \o s) /\ z = e \o s
  BY Zenon DEF DecoderIds, Stage1Features, Opening, Closing, Spacers, Spaced
<1>4. a \in Seq(Plain) /\ z \in Seq(Plain) /\ e \in Seq(Plain) /\ s \in Seq(Plain)
  BY Sides, Pieces
<1>5. /\ a \in Seq(AnyToken) /\ z \in Seq(AnyToken) /\ e \in Seq(AnyToken) /\ s \in Seq(AnyToken)
      /\ Without(a, Ignored) /\ Without(z, Ignored)
  BY <1>4, PlainMeans
<1>6. \A r \in 1..c : LatentAt(x)[r] = Len(a) + v[r] /\ v[r] = Mark(n, k, r) - m + 1
  BY <1>2 DEF LatentAt
<1> HIDE DEF w, c, n, k, a, e, s, z, l, v, u
<1>7. SpreadLen(n, k) \in Nat /\ m \in Nat
  <2>1. SpreadLen(n, k) \in Nat /\ \A i \in 1..c : Mark(n, k, i) \in 1..SpreadLen(n, k)
    BY <1>1, <1>2, MarkProperties
  <2> QED
    BY <1>1, <2>1
<1> HIDE DEF m
<1>8. l \in Seq(AnyToken) /\ Ranked(v, c, Where(l, Ignored))
  <2>1. \A r \in 1..CompressCount(n, k) : v[r] = Mark(n, k, r) - m + 1
    BY <1>2, <1>6
  <2> QED
    BY <1>1, <1>2, <1>7, <2>1, CutAtLatent DEF m
<1>9. (l \o e) \o s = l \o z
  <2>1. l \in Seq(AnyToken) /\ e \in Seq(AnyToken) /\ s \in Seq(AnyToken)
    BY <1>5, <1>8
  <2>2. (l \o e) \o s = l \o (e \o s)
    BY <2>1, ConcatAssociative
  <2> QED
    BY <1>3, <2>2, Zenon
<1>10. u = a \o (l \o z)
  BY <1>3, <1>9, Zenon
<1>11. (a \o l) \o z = a \o (l \o z)
  <2>1. a \in Seq(AnyToken) /\ l \in Seq(AnyToken) /\ z \in Seq(AnyToken)
    BY <1>5, <1>8
  <2> QED
    BY <2>1, ConcatAssociative
<1>12. Framed(u, a, l, z)
  BY <1>10, <1>11, Zenon DEF Framed
<1>13. /\ Len(a) \in Nat /\ Len(l) \in Nat /\ Len(z) \in Nat
  BY <1>5, <1>8, LenProperties
<1>14. u \in Seq(AnyToken)
  BY <1>12, <1>5, <1>8, <1>13, FramedAt
<1>15. Ranked(LatentAt(x), c, Where(u, Ignored))
  BY <1>1, <1>12, <1>5, <1>6, <1>8, RankedFrame
<1> QED
  BY <1>8, <1>10, <1>12, <1>14, <1>15 DEF c, a, l, z, u
-----------------------------------------------------------------------------
(* Batches.                                                                *)

\* The greatest of the lengths is reached by the b-th sequence up to n.
Longest(seqs, n, b) == b \in 1..n /\ \A i \in 1..n : Len(seqs[i]) <= Len(seqs[b])

(* One of the sequences is the longest.                                    *)
LEMMA SomeLongest ==
  ASSUME NEW n \in Nat \ {0}, NEW seqs, \A b \in 1..n : Len(seqs[b]) \in Nat
  PROVE  \E b \in 1..n : Longest(seqs, n, b)
<1> DEFINE T == {m \in 1..n : ~ \E b \in 1..m : Longest(seqs, m, b)}
<1> SUFFICES ASSUME n \in T PROVE FALSE
  OBVIOUS
<1>1. PICK m \in T : \A k \in T : m <= k
  <2>1. T \in SUBSET Nat
    OBVIOUS
  <2> HIDE DEF T
  <2>2. T # {}
    OBVIOUS
  <2> QED
    BY <2>1, <2>2, LeastNatural
<1>2. m # 1
  <2>1. ASSUME m = 1 PROVE FALSE
    <3>1. Len(seqs[1]) \in Nat /\ \A i \in 1..1 : i = 1
      OBVIOUS
    <3>2. Longest(seqs, 1, 1)
      BY <3>1 DEF Longest
    <3> QED
      BY <1>1, <2>1, <3>2
  <2> QED
    BY <2>1
<1>3. m - 1 \in 1..n /\ m - 1 \notin T
  BY <1>1, <1>2
<1>4. PICK b \in 1..m-1 : Longest(seqs, m - 1, b)
  BY <1>3
<1>5. Longest(seqs, m, b) \/ Longest(seqs, m, m)
  <2>1. \A i \in 1..m-1 : Len(seqs[i]) <= Len(seqs[b])
    BY <1>4 DEF Longest
  <2>2. b \in 1..m /\ m \in 1..m /\ b \in 1..n /\ \A i \in 1..m : i \in 1..m-1 \/ i = m
    BY <1>1
  <2>3. \A i \in 1..m : Len(seqs[i]) \in Nat
    BY <1>1
  <2>4. CASE Len(seqs[m]) <= Len(seqs[b])
    BY <2>1, <2>2, <2>4 DEF Longest
  <2>5. CASE ~(Len(seqs[m]) <= Len(seqs[b]))
    <3>1. \A i \in 1..m : Len(seqs[i]) <= Len(seqs[m])
      BY <2>1, <2>2, <2>3, <2>5
    <3> QED
      BY <2>2, <3>1 DEF Longest
  <2> QED
    BY <2>4, <2>5
<1> QED
  BY <1>1, <1>4, <1>5 DEF Longest

(* Padding fills every row up to the longest.                              *)
LEMMA MaxLenMeans ==
  ASSUME NEW n \in Nat \ {0}, NEW seqs, DOMAIN seqs = 1..n,
         \A b \in 1..n : Len(seqs[b]) \in Nat
  PROVE  MaxLen(seqs) \in Nat /\ \A b \in 1..n : MaxLen(seqs) - Len(seqs[b]) \in Nat
<1>1. PICK b \in 1..n : Longest(seqs, n, b)
  BY SomeLongest
<1> DEFINE S == {Len(seqs[i]) : i \in 1..n}
           m == Len(seqs[b])
<1>2. m \in S /\ \A y \in S : m >= y
  BY <1>1 DEF Longest
<1>3. MaxLen(seqs) = CHOOSE y \in S : \A z \in S : y >= z
  BY Zenon DEF MaxLen, Max
<1> HIDE DEF m
<1>4. MaxLen(seqs) \in S /\ \A y \in S : MaxLen(seqs) >= y
  BY <1>2, <1>3
<1>5. MaxLen(seqs) \in Nat
  BY <1>4
<1>6. \A i \in 1..n : Len(seqs[i]) \in S
  OBVIOUS
<1> HIDE DEF S
<1>7. ASSUME NEW i \in 1..n PROVE MaxLen(seqs) - Len(seqs[i]) \in Nat
  BY <1>4, <1>5, <1>6
<1> QED
  BY <1>5, <1>7

\* n sequences over S.
Family(seqs, n, S) == DOMAIN seqs = 1..n /\ \A b \in 1..n : seqs[b] \in Seq(S)

(* A row of a batch padded on the right.                                   *)
LEMMA RightPadRow ==
  ASSUME NEW n \in Nat \ {0}, NEW S, NEW seqs, Family(seqs, n, S), NEW fill \in S, NEW b \in 1..n
  PROVE  /\ Joins(RightPad(seqs, fill)[b], seqs[b], Fill(fill, MaxLen(seqs) - Len(seqs[b])))
         /\ MaxLen(seqs) - Len(seqs[b]) \in Nat /\ MaxLen(seqs) \in Nat
         /\ RightPad(seqs, fill)[b] \in Seq(S) /\ Len(RightPad(seqs, fill)[b]) = MaxLen(seqs)
<1> DEFINE m == MaxLen(seqs) - Len(seqs[b])
           s == seqs[b]
           f == Fill(fill, m)
           u == RightPad(seqs, fill)[b]
<1>1. \A i \in 1..n : Len(seqs[i]) \in Nat
  BY LenProperties DEF Family
<1>2. m \in Nat /\ MaxLen(seqs) \in Nat
  BY <1>1, MaxLenMeans DEF Family
<1>3. u = s \o f
  BY DEF RightPad, Family
<1>4. s \in Seq(S) /\ Len(s) \in Nat
  BY <1>1 DEF Family
<1>5. MaxLen(seqs) = Len(s) + m
  BY <1>2, <1>4
<1> HIDE DEF m
<1>6. f \in Seq(S) /\ Len(f) = m
  BY <1>2, FillProperties
<1> HIDE DEF s, f, u
<1>7. s \o f \in Seq(S) /\ Len(s \o f) = Len(s) + Len(f)
  BY <1>4, <1>6, ConcatProperties
<1>8. u \in Seq(S) /\ Len(u) = Len(s) + Len(f)
  BY <1>3, <1>7, Zenon
<1> QED
  BY <1>2, <1>3, <1>5, <1>6, <1>8 DEF m, s, f, u, Joins

(* A row padded on the left.                                               *)
LEMMA LeftPadRow ==
  ASSUME NEW n \in Nat \ {0}, NEW S, NEW seqs, Family(seqs, n, S), NEW fill \in S, NEW b \in 1..n
  PROVE  /\ Joins(LeftPad(seqs, fill)[b], Fill(fill, MaxLen(seqs) - Len(seqs[b])), seqs[b])
         /\ MaxLen(seqs) - Len(seqs[b]) \in Nat
<1>1. \A i \in 1..n : Len(seqs[i]) \in Nat
  BY LenProperties DEF Family
<1>2. MaxLen(seqs) - Len(seqs[b]) \in Nat
  BY <1>1, MaxLenMeans DEF Family
<1>3. LeftPad(seqs, fill)[b] = Fill(fill, MaxLen(seqs) - Len(seqs[b])) \o seqs[b]
  BY DEF LeftPad, Family
<1> QED
  BY <1>2, <1>3 DEF Joins

(* A run of latents has them at 1, 2 and so on.                            *)
LEMMA FillRanked ==
  ASSUME NEW c \in Nat, NEW token \in AnyToken, NEW w, \A r \in 1..c : w[r] = r
  PROVE  Ranked(w, c, Where(Fill(token, c), token))
<1>1. DOMAIN Fill(token, c) = 1..c /\ \A i \in 1..c : Fill(token, c)[i] = token
  BY DEF Fill
<1>2. \A i : i \in Where(Fill(token, c), token) <=> i \in 1..c
  BY <1>1 DEF Where
<1> QED
  BY <1>2 DEF Ranked
-----------------------------------------------------------------------------
(* The batch at hand.                                                      *)

\* No example of it has an empty reasoning.
NoneEmpty == \A b \in Rows : input.examples[b].cot # 0

CotRows == [b \in Rows |-> CotIds(input.examples[b])]
DecoderRows == [b \in Rows |-> DecoderIds(input.examples[b])]
LabelRows == [b \in Rows |-> Stage1Features(input.examples[b]).labels]
PositionRows == [b \in Rows |-> Stage1Features(input.examples[b]).position_ids]

(* The encoder's rows are padded sequences of tokens.                      *)
LEMMA CotFamily ==
  ASSUME input \in Batches, NoneEmpty
  PROVE  Len(input.examples) \in Nat \ {0} /\ Family(CotRows, Len(input.examples), AnyToken)
<1>1. /\ InputOK /\ Rows = 1..Len(input.examples)
      /\ \A b \in Rows : input.examples[b] \in Examples
  BY Inputs
<1>2. \A b \in Rows : CotIds(input.examples[b]) \in Seq(AnyToken)
  BY <1>1, EncoderRow DEF NoneEmpty
<1>3. Len(input.examples) \in Nat \ {0}
  BY <1>1 DEF InputOK
<1> QED
  BY <1>1, <1>2, <1>3 DEF Family, CotRows

(* So are the decoder's, and the labels are as long.                       *)
LEMMA DecoderFamily ==
  ASSUME input \in Batches, NoneEmpty
  PROVE  /\ Len(input.examples) \in Nat \ {0}
         /\ Family(DecoderRows, Len(input.examples), AnyToken)
         /\ Family(LabelRows, Len(input.examples), AnyToken)
         /\ \A b \in Rows : Len(LabelRows[b]) = Len(DecoderRows[b])
<1>1. /\ InputOK /\ Rows = 1..Len(input.examples)
      /\ \A b \in Rows : input.examples[b] \in Examples
  BY Inputs
<1>2. ASSUME NEW x \in Examples, x.cot # 0
      PROVE  /\ DecoderIds(x) \in Seq(AnyToken)
             /\ Stage1Features(x).labels \in Seq(AnyToken)
             /\ Len(Stage1Features(x).labels) = Len(DecoderIds(x))
  <2> DEFINE u == DecoderIds(x)
             a == Opening(x)
             t == Spacers(x) \o Closing(x)
             l == Stage1Features(x).labels
             r == (Spacers(x) \o EndThink) \o SuffixIds(x)
  <2>1. u \in Seq(AnyToken) /\ Spacers(x) \in Seq(AnyToken) /\ u = a \o t
    BY <1>1, <1>2, DecoderRow
  <2>2. a \in Seq(AnyToken) /\ Closing(x) \in Seq(AnyToken)
    BY <1>1, Sides, PlainMeans
  <2>3. EndThink \in Seq(AnyToken) /\ SuffixIds(x) \in Seq(AnyToken)
    BY <1>1, Pieces, PlainMeans
  <2>4. r = t
    <3> DEFINE A == Spacers(x)
               B == EndThink
               C == SuffixIds(x)
    <3>1. A \in Seq(AnyToken) /\ B \in Seq(AnyToken) /\ C \in Seq(AnyToken)
      BY <2>1, <2>3
    <3> HIDE DEF A, B, C
    <3>2. (A \o B) \o C = A \o (B \o C)
      BY <3>1, ConcatAssociative
    <3> QED
      BY <3>2, Zenon DEF Closing, A, B, C
  <2>5. l = Fill(Ignored, Len(u) - Len(r)) \o r
    BY Zenon DEF Stage1Features, DecoderIds, Spacers, Spaced
  <2>6. t \in Seq(AnyToken)
    BY <2>1, <2>2, ConcatProperties
  <2> HIDE DEF u, a, t, l, r
  <2>7. Len(u) = Len(a) + Len(t) /\ Len(a) \in Nat /\ Len(t) \in Nat
    BY <2>1, <2>2, <2>6, ConcatProperties, LenProperties
  <2> DEFINE m == Len(u) - Len(r)
             f == Fill(Ignored, m)
  <2>8. m \in Nat /\ m + Len(t) = Len(u)
    BY <2>4, <2>7
  <2>9. l = f \o t
    BY <2>4, <2>5, Zenon
  <2> HIDE DEF m
  <2>10. f \in Seq(AnyToken) /\ Len(f) = m
    BY <2>8, FillProperties, Specials
  <2> HIDE DEF f
  <2>11. l \in Seq(AnyToken) /\ Len(l) = m + Len(t)
    BY <2>6, <2>9, <2>10, ConcatProperties
  <2> QED
    BY <2>1, <2>8, <2>11 DEF u, l
<1>3. \A b \in Rows : input.examples[b] \in Examples /\ input.examples[b].cot # 0
  BY <1>1 DEF NoneEmpty
<1>4. Len(input.examples) \in Nat \ {0}
  BY <1>1 DEF InputOK
<1>5. \A b \in Rows : /\ DecoderRows[b] \in Seq(AnyToken)
                      /\ LabelRows[b] \in Seq(AnyToken)
                      /\ Len(LabelRows[b]) = Len(DecoderRows[b])
  BY <1>2, <1>3 DEF DecoderRows, LabelRows
<1>6. DOMAIN DecoderRows = Rows /\ DOMAIN LabelRows = Rows
  BY DEF DecoderRows, LabelRows
<1> QED
  BY <1>1, <1>4, <1>5, <1>6 DEF Family

(* Position ids are sequences as long as the tokens.                       *)
LEMMA PositionFamily ==
  ASSUME input \in Batches, NoneEmpty
  PROVE  \E S : /\ 0 \in S /\ Family(PositionRows, Len(input.examples), S)
                /\ \A b \in Rows : Len(PositionRows[b]) = Len(DecoderRows[b])
<1> DEFINE n == Len(input.examples)
           p(b) == PositionRows[b]
           m(b) == Len(DecoderRows[b])
           S == {0} \cup UNION {{p(b)[i] : i \in 1..m(b)} : b \in 1..n}
<1>1. Rows = 1..n
  BY Inputs
<1>2. Family(DecoderRows, n, AnyToken)
  BY DecoderFamily
<1>3. ASSUME NEW b \in 1..n PROVE p(b) \in Seq(S) /\ Len(p(b)) = m(b)
  <2> DEFINE u == DecoderRows[b]
             d == DualTrack(u)
             e(i) == p(b)[i]
  <2>1. p(b) = d
    BY <1>1, Zenon DEF PositionRows, DecoderRows, DecoderIds, Stage1Features
  <2>2. u \in Seq(AnyToken)
    BY <1>2 DEF Family
  <2>3. m(b) \in Nat /\ DOMAIN u = 1..m(b)
    BY <2>2, LenProperties
  <2>4. d = [i \in DOMAIN u |-> d[i]]
    BY DEF DualTrack
  <2>5. p(b) = [i \in 1..m(b) |-> e(i)]
    BY <2>1, <2>3, <2>4, Zenon
  <2>6. \A i \in 1..m(b) : e(i) \in S
    OBVIOUS
  <2> DEFINE k == m(b)
  <2> HIDE DEF S, e, p, m
  <2>7. k \in Nat /\ \A i \in 1..k : e(i) \in S
    BY <2>3, <2>6
  <2> HIDE DEF k
  <2>8. [i \in 1..k |-> e(i)] \in Seq(S)
    BY <2>7, IsASeq
  <2>9. p(b) = [i \in 1..k |-> e(i)]
    BY <2>5 DEF k
  <2>10. p(b) \in Seq(S) /\ Len(p(b)) = k
    BY <2>7, <2>8, <2>9
  <2> QED
    BY <2>10 DEF k
<1>4. DOMAIN PositionRows = 1..n /\ 0 \in S
  BY <1>1 DEF PositionRows
<1> HIDE DEF S, n
<1>5. Family(PositionRows, n, S)
  BY <1>3, <1>4 DEF Family
<1> QED
  BY <1>1, <1>3, <1>4, <1>5 DEF n

(* Rows of the same lengths have the same greatest length.                 *)
LEMMA MaxLenSame ==
  ASSUME NEW n, NEW s, NEW t, DOMAIN s = 1..n, DOMAIN t = 1..n,
         \A b \in 1..n : Len(s[b]) = Len(t[b])
  PROVE  MaxLen(s) = MaxLen(t)
<1>1. {Len(s[b]) : b \in DOMAIN s} = {Len(t[b]) : b \in DOMAIN t}
  OBVIOUS
<1> QED
  BY <1>1, Zenon DEF MaxLen

(* A padded row of the encoder has its compress tokens and its mask.       *)
LEMMA CotPadded ==
  ASSUME input \in Batches, NoneEmpty, NEW b \in Rows
  PROVE  /\ Ranked(CompressAt(input.examples[b]), Segments(input.examples[b]),
                   Where(RightPad(CotRows, Pad)[b], Compress))
         /\ InductionMask(RightPad(CotRows, Pad)[b]) = InductionMask(CotRows[b])
         /\ Len(RightPad(CotRows, Pad)[b]) = MaxLen(CotRows)
<1> DEFINE n == Len(input.examples)
           x == input.examples[b]
           s == CotRows[b]
           m == MaxLen(CotRows) - Len(CotRows[b])
           p == RightPad(CotRows, Pad)[b]
<1>1. InputOK /\ Rows = 1..n /\ x \in Examples /\ x.cot # 0
  BY Inputs DEF NoneEmpty
<1>2. n \in Nat \ {0} /\ Family(CotRows, n, AnyToken) /\ Pad \in AnyToken
  BY CotFamily, Specials
<1>3. Joins(p, s, Fill(Pad, m)) /\ m \in Nat /\ Len(p) = MaxLen(CotRows)
  <2>1. b \in 1..n
    BY <1>1
  <2> HIDE DEF n
  <2> QED
    BY <1>2, <2>1, RightPadRow
<1>4. s \in Seq(AnyToken)
  BY <1>1, <1>2 DEF Family
<1>5. s = CotIds(x)
  BY DEF CotRows
<1> HIDE DEF m, p
<1>6. Padded(p, s, m)
  BY <1>3 DEF Padded, Joins
<1>7. Where(p, Compress) = Where(s, Compress)
  BY <1>3, <1>4, <1>6, WherePadded, Specials
<1>8. InductionMask(p) = InductionMask(s)
  BY <1>3, <1>4, <1>6, InductionPadded
<1>9. Ranked(CompressAt(x), Segments(x), Where(s, Compress))
  BY <1>1, <1>5, EncoderRow
<1> QED
  BY <1>3, <1>7, <1>8, <1>9 DEF p

\* The encoder's rows for the b-th text of the b-th example.
TextRows(texts) == [b \in Rows |-> EncoderIds(input.examples[b], texts[b])]
ValidTexts == [b \in Rows |-> ValidationText(input.examples[b])]
LabelTexts == [b \in Rows |-> LabelText(input.examples[b])]
ValidCotRows == [b \in Rows |-> EncoderIds(input.examples[b], ValidationText(input.examples[b]))]
LabelCotRows == [b \in Rows |-> EncoderIds(input.examples[b], LabelText(input.examples[b]))]

(* A padded row has the compress tokens of its text.                       *)
LEMMA TextPadded ==
  ASSUME input \in Batches, NEW texts, \A b \in Rows : texts[b] \in Seq(Words), NEW b \in Rows,
         NEW x, x = input.examples[b], NEW m, m = Len(texts[b]), NEW c, c = CompressCount(m, input.k)
  PROVE  /\ Ranked(TextAt(x, m), c, Where(RightPad(TextRows(texts), Pad)[b], Compress))
         /\ c \in Nat /\ (m # 0 => c # 0)
<1> DEFINE n == Len(input.examples)
           R == TextRows(texts)
           s == R[b]
           d == MaxLen(R) - Len(R[b])
           p == RightPad(R, Pad)[b]
<1>1. InputOK /\ Rows = 1..n /\ n \in Nat \ {0} /\ \A i \in Rows : input.examples[i] \in Examples
  BY Inputs DEF InputOK
<1>2. ASSUME NEW i \in Rows PROVE EncoderIds(input.examples[i], texts[i]) \in Seq(AnyToken)
  BY <1>1, TextRow
<1>3. DOMAIN R = 1..n /\ \A i \in Rows : R[i] = EncoderIds(input.examples[i], texts[i])
  BY <1>1 DEF TextRows
<1>4. s = EncoderIds(x, texts[b]) /\ s \in Seq(AnyToken)
  BY <1>2, <1>3
<1> HIDE DEF R
<1>5. Family(R, n, AnyToken)
  <2>1. \A i \in 1..n : R[i] \in Seq(AnyToken)
    BY <1>1, <1>2, <1>3, Zenon
  <2> QED
    BY <1>3, <2>1, Zenon DEF Family
<1>6. Joins(p, s, Fill(Pad, d)) /\ d \in Nat
  <2>1. b \in 1..n /\ Pad \in AnyToken
    BY <1>1, Specials
  <2> HIDE DEF n
  <2> QED
    BY <1>1, <1>5, <2>1, RightPadRow
<1> HIDE DEF d, p, s
<1>7. Padded(p, s, d)
  BY <1>6 DEF Padded, Joins
<1>8. Where(p, Compress) = Where(s, Compress)
  BY <1>4, <1>6, <1>7, WherePadded, Specials
<1>9. /\ Ranked(TextAt(x, m), c, Where(EncoderIds(x, texts[b]), Compress))
      /\ c \in Nat /\ (m # 0 => c # 0)
  BY <1>1, TextRow
<1> QED
  BY <1>4, <1>8, <1>9, Zenon DEF p, R

(* So has a row of the validation, whose text is not empty.                *)
LEMMA ValidCotPadded ==
  ASSUME input \in Batches, NEW b \in Rows, NEW x, x = input.examples[b],
         NEW c, c = ValidCount(x)
  PROVE  /\ Ranked(TextAt(x, Len(ValidationText(x))), c,
                   Where(RightPad(ValidCotRows, Pad)[b], Compress))
         /\ c \in Nat
<1>1. InputOK /\ \A i \in Rows : input.examples[i] \in Examples
  BY Inputs
<1>2. \A i \in Rows : ValidTexts[i] \in Seq(Words)
  BY <1>1, TextsAre DEF ValidTexts
<1>3. ValidTexts[b] = ValidationText(x)
  BY DEF ValidTexts
<1>4. TextRows(ValidTexts) = ValidCotRows
  BY DEF TextRows, ValidTexts, ValidCotRows
<1>5. PICK m : m = Len(ValidTexts[b])
  OBVIOUS
<1>6. m = Len(ValidationText(x)) /\ c = CompressCount(m, input.k)
  BY <1>3, <1>5, Zenon DEF ValidCount
<1>7. /\ Ranked(TextAt(x, m), c, Where(RightPad(TextRows(ValidTexts), Pad)[b], Compress))
      /\ c \in Nat
  BY <1>2, <1>5, <1>6, TextPadded
<1> QED
  BY <1>4, <1>6, <1>7, Zenon

(* And a row of the soft-label generation.                                 *)
LEMMA LabelCotPadded ==
  ASSUME input \in Batches, NEW b \in Rows, NEW x, x = input.examples[b],
         NEW c, c = LabelCount(x)
  PROVE  /\ Ranked(TextAt(x, Len(LabelText(x))), c,
                   Where(RightPad(LabelCotRows, Pad)[b], Compress))
         /\ c \in Nat /\ (Len(LabelText(x)) # 0 => c # 0)
<1>1. InputOK /\ \A i \in Rows : input.examples[i] \in Examples
  BY Inputs
<1>2. \A i \in Rows : LabelTexts[i] \in Seq(Words)
  BY <1>1, TextsAre DEF LabelTexts
<1>3. LabelTexts[b] = LabelText(x)
  BY DEF LabelTexts
<1>4. TextRows(LabelTexts) = LabelCotRows
  BY DEF TextRows, LabelTexts, LabelCotRows
<1>5. PICK m : m = Len(LabelTexts[b])
  OBVIOUS
<1>6. m = Len(LabelText(x)) /\ c = CompressCount(m, input.k)
  BY <1>3, <1>5, Zenon DEF LabelCount
<1>7. /\ Ranked(TextAt(x, m), c, Where(RightPad(TextRows(LabelTexts), Pad)[b], Compress))
      /\ c \in Nat /\ (m # 0 => c # 0)
  BY <1>2, <1>5, <1>6, TextPadded
<1> QED
  BY <1>4, <1>6, <1>7, Zenon

(* A padded row of the decoder has its latents and its mask.               *)
LEMMA DecoderPadded ==
  ASSUME input \in Batches, NoneEmpty, NEW b \in Rows
  PROVE  /\ Ranked(LatentAt(input.examples[b]), Segments(input.examples[b]),
                   Where(RightPad(DecoderRows, Pad)[b], Ignored))
         /\ SupervisionMask(RightPad(DecoderRows, Pad)[b]) = SupervisionMask(DecoderRows[b])
         /\ Len(RightPad(DecoderRows, Pad)[b]) = MaxLen(DecoderRows)
<1> DEFINE n == Len(input.examples)
           x == input.examples[b]
           s == DecoderRows[b]
           m == MaxLen(DecoderRows) - Len(DecoderRows[b])
           p == RightPad(DecoderRows, Pad)[b]
<1>1. InputOK /\ EndLen /\ Rows = 1..n /\ x \in Examples /\ x.cot # 0
  BY Inputs DEF NoneEmpty
<1>2. n \in Nat \ {0} /\ Family(DecoderRows, n, AnyToken) /\ Pad \in AnyToken
  BY DecoderFamily, Specials
<1>3. Joins(p, s, Fill(Pad, m)) /\ m \in Nat /\ Len(p) = MaxLen(DecoderRows)
  <2>1. b \in 1..n
    BY <1>1
  <2> HIDE DEF n
  <2> QED
    BY <1>2, <2>1, RightPadRow
<1>4. s \in Seq(AnyToken)
  BY <1>1, <1>2 DEF Family
<1>5. s = DecoderIds(x)
  BY DEF DecoderRows
<1> HIDE DEF m, p
<1>6. Padded(p, s, m)
  BY <1>3 DEF Padded, Joins
<1>7. Where(p, Ignored) = Where(s, Ignored)
  BY <1>3, <1>4, <1>6, WherePadded, Specials
<1>8. SupervisionMask(p) = SupervisionMask(s)
  BY <1>1, <1>3, <1>4, <1>6, SupervisionPadded
<1>9. Ranked(LatentAt(x), Segments(x), Where(s, Ignored))
  BY <1>1, <1>5, DecoderRow
<1> QED
  BY <1>3, <1>7, <1>8, <1>9 DEF p

(* The labels and position ids of a row are as long as its tokens.         *)
LEMMA ColumnsPadded ==
  ASSUME input \in Batches, NoneEmpty, NEW b \in Rows
  PROVE  /\ Len(RightPad(LabelRows, Ignored)[b]) = MaxLen(DecoderRows)
         /\ Len(RightPad(PositionRows, 0)[b]) = MaxLen(DecoderRows)
<1> DEFINE n == Len(input.examples)
<1>1. Rows = 1..n
  BY Inputs
<1>2. /\ n \in Nat \ {0} /\ Family(LabelRows, n, AnyToken) /\ Ignored \in AnyToken
      /\ Family(DecoderRows, n, AnyToken)
      /\ \A i \in Rows : Len(LabelRows[i]) = Len(DecoderRows[i])
  BY DecoderFamily, Specials
<1>3. PICK S : /\ 0 \in S /\ Family(PositionRows, n, S)
               /\ \A i \in Rows : Len(PositionRows[i]) = Len(DecoderRows[i])
  BY PositionFamily
<1> HIDE DEF n
<1>4. Len(RightPad(LabelRows, Ignored)[b]) = MaxLen(LabelRows)
  <2>1. b \in 1..n
    BY <1>1
  <2> QED
    BY <1>2, <2>1, RightPadRow
<1>5. Len(RightPad(PositionRows, 0)[b]) = MaxLen(PositionRows)
  <2>1. b \in 1..n /\ n \in Nat \ {0} /\ 0 \in S /\ Family(PositionRows, n, S)
    BY <1>1, <1>2, <1>3
  <2> QED
    BY <2>1, RightPadRow
<1>6. DOMAIN LabelRows = 1..n /\ DOMAIN PositionRows = 1..n /\ DOMAIN DecoderRows = 1..n
  BY <1>2, <1>3 DEF Family
<1>7. MaxLen(LabelRows) = MaxLen(DecoderRows)
  BY <1>1, <1>2, <1>6, MaxLenSame
<1>8. MaxLen(PositionRows) = MaxLen(DecoderRows)
  <2>1. \A i \in 1..n : Len(PositionRows[i]) = Len(DecoderRows[i])
    BY <1>1, <1>3
  <2> QED
    BY <1>6, <2>1, MaxLenSame
<1> QED
  BY <1>4, <1>5, <1>7, <1>8

ValidationRows == [b \in Rows |-> ValidationIds(input.examples[b])]

(* A row of the validation has as many latents as segments of its text.    *)
LEMMA ValidationPadded ==
  ASSUME input \in Batches, NoneEmpty, NEW b \in Rows
  PROVE  Cardinality(Where(LeftPad(ValidationRows, Pad)[b], Ignored)) = ValidCount(input.examples[b])
<1> DEFINE n == Len(input.examples)
           x(i) == input.examples[i]
           c(i) == ValidCount(input.examples[i])
           a(i) == Opening(input.examples[i])
           z == EndThink
           f(i) == Fill(Ignored, c(i))
           v(i) == ValidationIds(input.examples[i])
<1>1. InputOK /\ Rows = 1..n /\ n \in Nat \ {0} /\ \A i \in Rows : x(i) \in Examples /\ x(i).cot # 0
  BY Inputs DEF NoneEmpty, InputOK
<1>2. Pad \in AnyToken /\ Ignored \in AnyToken /\ Pad # Ignored
  BY Specials
<1>3. \A i \in Rows : v(i) = (a(i) \o f(i)) \o z
  BY Zenon DEF ValidationIds, Opening, ValidCount
<1>4. ASSUME NEW i \in Rows
      PROVE  /\ v(i) \in Seq(AnyToken)
             /\ a(i) \in Seq(AnyToken) /\ f(i) \in Seq(AnyToken) /\ z \in Seq(AnyToken)
             /\ Without(a(i), Ignored) /\ Without(z, Ignored) /\ c(i) \in Nat
  <2>1. c(i) \in Nat
    BY ValidCotPadded
  <2>2. a(i) \in Seq(Plain) /\ z \in Seq(Plain)
    BY <1>1, Sides, Pieces
  <2>3. a(i) \in Seq(AnyToken) /\ z \in Seq(AnyToken) /\ Without(a(i), Ignored) /\ Without(z, Ignored)
    BY <2>2, PlainMeans
  <2>4. f(i) \in Seq(AnyToken)
    BY <1>2, <2>1, FillProperties
  <2>5. v(i) = (a(i) \o f(i)) \o z
    BY <1>3
  <2> HIDE DEF v, a, f, z, c
  <2>6. a(i) \o f(i) \in Seq(AnyToken)
    BY <2>3, <2>4, ConcatProperties
  <2>7. v(i) \in Seq(AnyToken)
    BY <2>3, <2>5, <2>6, ConcatProperties
  <2> QED
    BY <2>1, <2>3, <2>4, <2>7
<1>5. DOMAIN ValidationRows = 1..n /\ \A i \in Rows : ValidationRows[i] = v(i)
  BY <1>1 DEF ValidationRows
<1>6. Family(ValidationRows, n, AnyToken)
  BY <1>1, <1>4, <1>5 DEF Family
<1> DEFINE m == MaxLen(ValidationRows) - Len(ValidationRows[b])
           p == LeftPad(ValidationRows, Pad)[b]
           q == Fill(Pad, m)
           A == a(b)
           F == f(b)
           V == v(b)
           C == c(b)
           e == <<>>
<1>7. Joins(p, q, V) /\ m \in Nat
  <2>1. b \in 1..n /\ n \in Nat \ {0} /\ ValidationRows[b] = V
    BY <1>1, <1>5
  <2> HIDE DEF n, V
  <2> QED
    BY <1>2, <1>6, <2>1, LeftPadRow
<1>8. Framed(V, A, F, z)
  BY <1>3 DEF Framed
<1>9. /\ V \in Seq(AnyToken) /\ A \in Seq(AnyToken) /\ F \in Seq(AnyToken) /\ z \in Seq(AnyToken)
      /\ Without(A, Ignored) /\ Without(z, Ignored) /\ C \in Nat
  BY <1>4
<1> DEFINE w == [r \in 1..C |-> r]
           y == [r \in 1..C |-> Len(A) + w[r]]
           t == [r \in 1..C |-> Len(q) + y[r]]
<1> HIDE DEF m
<1>10. q \in Seq(AnyToken) /\ Without(q, Ignored)
  <2>1. q \in Seq(AnyToken)
    BY <1>2, <1>7, FillProperties
  <2>2. \A i \in DOMAIN q : q[i] = Pad
    BY DEF Fill
  <2> HIDE DEF q
  <2> QED
    BY <1>2, <2>1, <2>2 DEF Without
<1>11. e \in Seq(AnyToken) /\ Without(e, Ignored)
  BY DEF Without
<1>12. Ranked(w, C, Where(F, Ignored))
  <2>1. \A r \in 1..C : w[r] = r
    OBVIOUS
  <2>2. F = Fill(Ignored, C)
    OBVIOUS
  <2> HIDE DEF C, F, w
  <2> QED
    BY <1>2, <1>9, <2>1, <2>2, FillRanked
<1>13. /\ \A r \in 1..C : y[r] = Len(A) + w[r]
       /\ \A r \in 1..C : t[r] = Len(q) + y[r]
  OBVIOUS
<1> HIDE DEF q, A, F, V, C, e, w, y, t, p
<1>14. Ranked(y, C, Where(V, Ignored))
  BY <1>8, <1>9, <1>12, <1>13, RankedFrame
<1>15. Framed(p, q, V, e)
  <2>1. q \o V \in Seq(AnyToken)
    BY <1>9, <1>10, ConcatProperties
  <2>2. (q \o V) \o e = q \o V
    BY <2>1, ConcatEmptySeq DEF e
  <2> QED
    BY <1>7, <2>2, Zenon DEF Framed, Joins
<1>16. Ranked(t, C, Where(p, Ignored))
  BY <1>9, <1>10, <1>11, <1>13, <1>14, <1>15, RankedFrame
<1>17. Cardinality(Where(p, Ignored)) = C
  BY <1>9, <1>16, RankedCount
<1> QED
  BY <1>17 DEF p, C
-----------------------------------------------------------------------------
(* Soft labels and stage 2.                                                *)

\* What may be embedded: a token, or a state of the encoder.
Embeds == (Kinds \cup {"enc"}) \X Int

\* The distributions of the compress tokens of row b, in order.
SoftLabels(b) ==
  LET at == Ascending(Where(RightPad(LabelCotRows, Pad)[b], Compress))
  IN  [j \in DOMAIN at |-> <<"enc", at[j]>>]

(* One for each segment of the labelled text, of the compress token after  *)
(* it.                                                                     *)
LEMMA SoftLabelsMean ==
  ASSUME input \in Batches, NEW b \in Rows, NEW x, x = input.examples[b],
         NEW c, c = LabelCount(x), NEW w, w = TextAt(x, Len(LabelText(x)))
  PROVE  /\ SoftLabels(b) \in Seq(Embeds) /\ Len(SoftLabels(b)) = c /\ c \in Nat
         /\ \A j \in 1..c : SoftLabels(b)[j] = <<"enc", w[j]>>
         /\ \A j \in 1..c : SoftLabels(b)[j][2] = w[j]
         /\ \A i, j \in 1..c : i < j => w[i] < w[j]
<1> DEFINE R == Where(RightPad(LabelCotRows, Pad)[b], Compress)
           at == Ascending(R)
           e(j) == <<"enc", at[j]>>
<1>1. Ranked(w, c, R) /\ c \in Nat
  BY LabelCotPadded
<1>2. SoftLabels(b) = [j \in DOMAIN at |-> e(j)]
  BY Zenon DEF SoftLabels
<1> HIDE DEF R
<1>3. DOMAIN at = 1..c /\ \A j \in 1..c : at[j] = w[j]
  BY <1>1, AscendingIs
<1>4. /\ \A j \in 1..c : w[j] \in Int
      /\ \A i, j \in 1..c : i < j => w[i] < w[j]
  BY <1>1 DEF Ranked
<1>5. \A j \in 1..c : e(j) \in Embeds /\ e(j)[2] = w[j] /\ e(j) = <<"enc", w[j]>>
  BY <1>3, <1>4 DEF Embeds
<1>6. SoftLabels(b) = [j \in 1..c |-> e(j)]
  BY <1>2, <1>3, Zenon
<1> HIDE DEF e
<1>7. [j \in 1..c |-> e(j)] \in Seq(Embeds)
  BY <1>1, <1>5, IsASeq
<1>8. SoftLabels(b) \in Seq(Embeds) /\ Len(SoftLabels(b)) = c /\ \A j \in 1..c : SoftLabels(b)[j] = e(j)
  BY <1>1, <1>6, <1>7
<1> QED
  BY <1>1, <1>4, <1>5, <1>8

Stage2Rows == [b \in Rows |-> Stage2Features(input.examples[b], SoftLabels(b)).input_ids]

(* A padded row of stage 2 has its latents behind the prompt.              *)
LEMMA Stage2Padded ==
  ASSUME input \in Batches, NEW b \in Rows, NEW x, x = input.examples[b],
         NEW s, s = Len(Opening(x)), NEW c, c = LabelCount(x)
  PROVE  /\ RightPad(Stage2Rows, Pad)[b] \in Seq(AnyToken)
         /\ s \in Nat \ {0} /\ c \in Nat
         /\ s + c <= Len(RightPad(Stage2Rows, Pad)[b])
         /\ Ranked([r \in 1..c |-> s + r], c, Where(RightPad(Stage2Rows, Pad)[b], Ignored))
<1> DEFINE n == Len(input.examples)
           y(i) == input.examples[i]
           C(i) == LabelCount(y(i))
           a(i) == Opening(y(i))
           f(i) == Fill(Ignored, C(i))
           z(i) == Closing(y(i))
           u(i) == Stage2Rows[i]
<1>1. InputOK /\ Rows = 1..n /\ n \in Nat \ {0} /\ \A i \in Rows : y(i) \in Examples
  BY Inputs DEF InputOK
<1>2. Pad \in AnyToken /\ Ignored \in AnyToken /\ Pad # Ignored
  BY Specials
<1>3. ASSUME NEW i \in Rows
      PROVE  /\ u(i) \in Seq(AnyToken) /\ Framed(u(i), a(i), f(i), z(i))
             /\ a(i) \in Seq(AnyToken) /\ f(i) \in Seq(AnyToken) /\ z(i) \in Seq(AnyToken)
             /\ Without(a(i), Ignored) /\ Without(z(i), Ignored) /\ C(i) \in Nat
             /\ Len(a(i)) \in Nat \ {0} /\ Len(f(i)) = C(i) /\ Len(z(i)) \in Nat
  <2>1. C(i) \in Nat
    BY SoftLabelsMean
  <2>2. a(i) \in Seq(Plain) /\ z(i) \in Seq(Plain) /\ Len(a(i)) \in Nat \ {0} /\ Len(z(i)) \in Nat
    BY <1>1, Sides
  <2>3. /\ a(i) \in Seq(AnyToken) /\ z(i) \in Seq(AnyToken)
        /\ Without(a(i), Ignored) /\ Without(z(i), Ignored)
    BY <2>2, PlainMeans
  <2>4. f(i) \in Seq(AnyToken) /\ Len(f(i)) = C(i)
    BY <1>2, <2>1, FillProperties
  <2>5. Len(SoftLabels(i)) = C(i)
    BY SoftLabelsMean
  <2>6. u(i) = (a(i) \o f(i)) \o z(i)
    BY <2>5, Zenon DEF Stage2Rows, Stage2Features, Opening, Closing
  <2> HIDE DEF u, a, f, z, C
  <2>7. a(i) \o f(i) \in Seq(AnyToken)
    BY <2>3, <2>4, ConcatProperties
  <2>8. u(i) \in Seq(AnyToken)
    BY <2>3, <2>6, <2>7, ConcatProperties
  <2> QED
    BY <2>1, <2>2, <2>3, <2>4, <2>6, <2>8 DEF Framed
<1>4. Family(Stage2Rows, n, AnyToken)
  BY <1>1, <1>3 DEF Family, Stage2Rows
<1> DEFINE m == MaxLen(Stage2Rows) - Len(Stage2Rows[b])
           p == RightPad(Stage2Rows, Pad)[b]
           U == u(b)
           A == a(b)
           F == f(b)
           Z == z(b)
<1>5. Joins(p, U, Fill(Pad, m)) /\ m \in Nat /\ p \in Seq(AnyToken)
  <2>1. b \in 1..n
    BY <1>1
  <2> HIDE DEF n
  <2> QED
    BY <1>1, <1>2, <1>4, <2>1, RightPadRow
<1>6. s = Len(A) /\ c = C(b)
  OBVIOUS
<1>7. /\ U \in Seq(AnyToken) /\ Framed(U, A, F, Z)
      /\ A \in Seq(AnyToken) /\ F \in Seq(AnyToken) /\ Z \in Seq(AnyToken)
      /\ Without(A, Ignored) /\ Without(Z, Ignored) /\ c \in Nat
      /\ Len(A) = s /\ s \in Nat \ {0} /\ s \in Nat /\ Len(F) = c /\ Len(Z) \in Nat
  BY <1>3
<1>8. F = Fill(Ignored, c)
  BY <1>6
<1> DEFINE w == [r \in 1..c |-> r]
           v == [r \in 1..c |-> s + r]
<1> HIDE DEF m, p, U, A, F, Z, C
<1>9. \A r \in 1..c : w[r] = r /\ v[r] = Len(A) + w[r]
  BY <1>7
<1> HIDE DEF w, v
<1>10. Ranked(w, c, Where(F, Ignored))
  BY <1>2, <1>7, <1>8, <1>9, FillRanked
<1>11. Ranked(v, c, Where(U, Ignored))
  BY <1>7, <1>9, <1>10, RankedFrame
<1>12. Len(U) = s + c + Len(Z)
  BY <1>7, FramedAt
<1>13. Padded(p, U, m)
  BY <1>5 DEF Padded, Joins
<1>14. Where(p, Ignored) = Where(U, Ignored)
  BY <1>2, <1>5, <1>7, <1>13, WherePadded
<1>15. Len(p) = Len(U) + m
  BY <1>5, <1>7, <1>13, PaddedProperties
<1>16. s + c <= Len(p)
  BY <1>5, <1>7, <1>12, <1>15
<1>17. Ranked(v, c, Where(p, Ignored))
  BY <1>11, <1>14, Zenon
<1> QED
  BY <1>5, <1>7, <1>16, <1>17 DEF p, v

\* row is p with the elements after the s-th replaced by t.
Replaces(row, p, s, t) ==
  row = (SubSeq(p, 1, s) \o t) \o SubSeq(p, s + Len(t) + 1, Len(p))

(* The replacement is where the latents were.                              *)
LEMMA ReplacedAt ==
  ASSUME NEW S, NEW p \in Seq(S), NEW t \in Seq(S), NEW s \in Nat, NEW c \in Nat, Len(t) = c,
         s + c <= Len(p), NEW row, Replaces(row, p, s, t)
  PROVE  \A j \in 1..c : row[s + j] = t[j]
<1> DEFINE n == Len(p)
           k == s + c + 1
           a == SubSeq(p, 1, s)
           z == SubSeq(p, k, n)
<1>1. n \in Nat /\ s + c <= n /\ \A i \in 1..n : p[i] \in S
  BY ElementOfSeq, LenProperties
<1>2. Framed(row, a, t, z)
  BY DEF Framed, Replaces
<1> HIDE DEF n
<1>3. k \in Int /\ n \in Int /\ 1 \in Int /\ s \in Int
      /\ (\A i \in 1..s : p[i] \in S) /\ (\A i \in k..n : p[i] \in S)
  BY <1>1
<1> HIDE DEF k
<1>4. a \in Seq(S) /\ Len(a) = s
  <2>1. a \in Seq(S) /\ Len(a) = IF 1 <= s THEN s - 1 + 1 ELSE 0
    BY <1>3, SubSeqProperties
  <2> QED
    BY <2>1
<1>5. z \in Seq(S) /\ Len(z) \in Nat
  <2>1. z \in Seq(S)
    BY <1>3, SubSeqProperties
  <2> HIDE DEF z
  <2> QED
    BY <2>1, LenProperties
<1> HIDE DEF a, z
<1>6. PICK l \in Nat : l = Len(z)
  BY <1>5
<1>7. /\ a \in Seq(S) /\ t \in Seq(S) /\ z \in Seq(S) /\ Framed(row, a, t, z)
      /\ s \in Nat /\ Len(a) = s /\ c \in Nat /\ Len(t) = c /\ l \in Nat /\ Len(z) = l
  BY <1>2, <1>4, <1>5, <1>6
<1> QED
  BY <1>7, FramedAt, SMTT(30)

(* A token may be embedded.                                                *)
LEMMA TokensEmbed ==
  ASSUME NEW s \in Seq(AnyToken)
  PROVE  s \in Seq(Embeds)
<1>1. AnyToken \subseteq Embeds
  BY DEF AnyToken, Embeds
<1> QED
  BY <1>1
-----------------------------------------------------------------------------
(* The states of a batch.                                                  *)

Stages == {"raw", "tokenized", "collated", "trained", "validated", "labelled",
           "tokenized2", "collated2", "trained2", "rejected"}

Features1 == [b \in Rows |-> Stage1Features(input.examples[b])]
Features2 == [b \in Rows |-> Stage2Features(input.examples[b], SoftLabels(b))]
Labelled == [b \in Rows |-> [latent_state |-> SoftLabels(b)]]

\* A column of the features.
Field(f, name) == [b \in DOMAIN f |-> f[b][name]]

Batch1 ==
  [input_ids |-> RightPad(Field(Features1, "input_ids"), Pad),
   cot_ids |-> RightPad(Field(Features1, "cot_ids"), Pad),
   labels |-> RightPad(Field(Features1, "labels"), Ignored),
   position_ids |-> RightPad(Field(Features1, "position_ids"), 0)]
Batch2 ==
  [input_ids |-> RightPad(Field(Features2, "input_ids"), Pad),
   labels |-> RightPad(Field(Features2, "labels"), Ignored),
   latent_index |-> Field(Features2, "latent_index"),
   latent_state |-> Field(Features2, "latent_state")]

BatchV == [input_ids |-> LeftPad(ValidationRows, Pad), cot_ids |-> RightPad(ValidCotRows, Pad)]

\* What a batch of stage 1 is embedded as.
Scattered(r) == [b \in Rows |-> Scatter(r.input_ids[b], r.cot_ids[b])]

SomeRefused == \E b \in Rows : Refused(input.examples[b])
SomeNotLabelled == \E b \in Rows : NotLabelled(input.examples[b])

\* At every stage the batch is what the input makes of it.
IInv ==
  /\ pc \in Stages /\ input \in Batches
  /\ pc = "rejected" => SomeRefused \/ SomeNotLabelled
  /\ pc \notin {"raw", "rejected"} => ~SomeRefused
  /\ pc \in {"tokenized", "collated", "trained", "validated"} => feats = Features1
  /\ pc \in {"collated", "trained"} => batch = Batch1
  /\ pc = "validated" => batch = BatchV
  /\ pc \in {"trained", "validated"} => embeds = Scattered(batch)
  /\ pc = "labelled" => feats = Labelled
  /\ pc \in {"tokenized2", "collated2", "trained2"} => feats = Features2
  /\ pc \in {"collated2", "trained2"} => batch = Batch2
  /\ pc = "trained2" => embeds = [b \in Rows |-> Stage2Row(b)]

(* The columns of the features are the rows.                               *)
LEMMA Columns ==
  /\ Field(Features1, "input_ids") = DecoderRows /\ Field(Features1, "cot_ids") = CotRows
  /\ Field(Features1, "labels") = LabelRows /\ Field(Features1, "position_ids") = PositionRows
  /\ Field(Features2, "input_ids") = Stage2Rows
<1>1. Field(Features1, "input_ids") = DecoderRows
  BY DEF Field, Features1, DecoderRows, DecoderIds
<1>2. Field(Features1, "cot_ids") = CotRows
  BY DEF Field, Features1, CotRows, Stage1Features
<1>3. Field(Features1, "labels") = LabelRows
  BY DEF Field, Features1, LabelRows
<1>4. Field(Features1, "position_ids") = PositionRows
  BY DEF Field, Features1, PositionRows
<1>5. Field(Features2, "input_ids") = Stage2Rows
  BY DEF Field, Features2, Stage2Rows
<1> QED
  BY <1>1, <1>2, <1>3, <1>4, <1>5

(* The columns of the batches of stage 1.                                  *)
LEMMA Batch1Is ==
  /\ Batch1.input_ids = RightPad(DecoderRows, Pad)
  /\ Batch1.cot_ids = RightPad(CotRows, Pad)
  /\ Batch1.labels = RightPad(LabelRows, Ignored)
  /\ Batch1.position_ids = RightPad(PositionRows, 0)
BY Columns, Zenon DEF Batch1

(* Nothing is made of the input but once.                                  *)
LEMMA SameInput ==
  ASSUME input' = input
  PROVE  /\ Features1' = Features1 /\ Features2' = Features2 /\ Labelled' = Labelled
         /\ Batch1' = Batch1 /\ Batch2' = Batch2 /\ BatchV' = BatchV
         /\ SomeRefused' = SomeRefused /\ SomeNotLabelled' = SomeNotLabelled /\ Rows' = Rows
<1>1. EndThink' = EndThink /\ Eos' = Eos /\ Rows' = Rows
  BY DEF EndThink, Eos, Rows
<1>2. ASSUME NEW x
      PROVE  /\ CotText(x)' = CotText(x) /\ SolutionText(x)' = SolutionText(x)
             /\ TrainText(x)' = TrainText(x) /\ LabelText(x)' = LabelText(x)
             /\ ValidationText(x)' = ValidationText(x)
  <2>1. CotText(x)' = CotText(x) /\ Think' = Think
    BY Zenon DEF CotText, Think
  <2>2. SolutionText(x)' = SolutionText(x)
    BY <2>1, Zenon DEF SolutionText
  <2>3. \A t : Unstripped(t)' = Unstripped(t)
    BY <1>1, <2>1, Zenon DEF Unstripped
  <2>4. TrainText(x)' = TrainText(x) /\ LabelText(x)' = LabelText(x)
    BY <2>1, <2>2, Zenon DEF TrainText, LabelText, Stripped
  <2>5. /\ Unstripped(CotText(x))' = Unstripped(CotText(x))
        /\ Unstripped(SolutionText(x))' = Unstripped(SolutionText(x))
    BY <1>1, <2>1, <2>2, Zenon DEF Unstripped
  <2>6. ValidationText(x)' = ValidationText(x)
    BY <2>5, Zenon DEF ValidationText
  <2> QED
    BY <2>1, <2>2, <2>4, <2>6
<1>3. ASSUME NEW x
      PROVE  /\ Stage1Features(x)' = Stage1Features(x)
             /\ PromptIds(x)' = PromptIds(x) /\ SuffixIds(x)' = SuffixIds(x)
             /\ Refused(x)' = Refused(x) /\ NotLabelled(x)' = NotLabelled(x)
             /\ ValidationIds(x)' = ValidationIds(x)
             /\ EncoderIds(x, ValidationText(x))' = EncoderIds(x, ValidationText(x))
             /\ EncoderIds(x, LabelText(x))' = EncoderIds(x, LabelText(x))
  <2>1. PromptIds(x)' = PromptIds(x) /\ Think' = Think /\ SuffixIds(x)' = SuffixIds(x)
    BY <1>1, Zenon DEF PromptIds, Think, SuffixIds
  <2>2. /\ EncoderIds(x, ValidationText(x))' = EncoderIds(x, ValidationText(x))
        /\ EncoderIds(x, LabelText(x))' = EncoderIds(x, LabelText(x))
    BY <1>1, <1>2, <2>1, Zenon DEF EncoderIds
  <2>3. CotIds(x)' = CotIds(x)
    BY <1>1, <1>2, <2>1, Zenon DEF CotIds, EncoderIds
  <2>4. Stage1Features(x)' = Stage1Features(x)
    BY <1>1, <1>2, <2>1, <2>3, Zenon DEF Stage1Features
  <2>5. Refused(x)' = Refused(x)
    BY Zenon DEF Refused
  <2>6. NotLabelled(x)' = NotLabelled(x)
    BY <1>2, Zenon DEF NotLabelled
  <2>7. ValidationIds(x)' = ValidationIds(x)
    BY <1>1, <1>2, <2>1, Zenon DEF ValidationIds
  <2> QED
    BY <2>1, <2>2, <2>4, <2>5, <2>6, <2>7
<1>4. Features1' = Features1
  BY <1>1, <1>3, Zenon DEF Features1
<1>5. LabelCotRows' = LabelCotRows /\ ValidCotRows' = ValidCotRows
  BY <1>1, <1>3, Zenon DEF LabelCotRows, ValidCotRows
<1>6. ASSUME NEW b PROVE SoftLabels(b)' = SoftLabels(b)
  BY <1>5, Zenon DEF SoftLabels
<1>7. Labelled' = Labelled
  BY <1>1, <1>6, Zenon DEF Labelled
<1>8. ASSUME NEW x, NEW s PROVE Stage2Features(x, s)' = Stage2Features(x, s)
  BY <1>1, <1>3, Zenon DEF Stage2Features, Think
<1>9. Features2' = Features2
  BY <1>1, <1>6, <1>8, Zenon DEF Features2
<1>10. Batch1' = Batch1 /\ Batch2' = Batch2
  BY <1>4, <1>9, Zenon DEF Batch1, Batch2
<1>11. SomeRefused' = SomeRefused /\ SomeNotLabelled' = SomeNotLabelled
  BY <1>1, <1>3, Zenon DEF SomeRefused, SomeNotLabelled
<1>12. ValidationRows' = ValidationRows
  BY <1>1, <1>3, Zenon DEF ValidationRows
<1>13. BatchV' = BatchV
  BY <1>5, <1>12, Zenon DEF BatchV
<1> QED
  BY <1>1, <1>4, <1>7, <1>9, <1>10, <1>11, <1>13

(* A batch that is taken has no empty reasoning.                           *)
LEMMA TakenMeans ==
  ASSUME ~SomeRefused
  PROVE  NoneEmpty
BY DEF SomeRefused, NoneEmpty, Refused

(* There are as many latents as states to scatter over them.               *)
LEMMA CountsMatch ==
  ASSUME input \in Batches, NoneEmpty, NEW b \in Rows
  PROVE  /\ SameCount(RightPad(DecoderRows, Pad)[b], RightPad(CotRows, Pad)[b])
         /\ SameCount(LeftPad(ValidationRows, Pad)[b], RightPad(ValidCotRows, Pad)[b])
<1> DEFINE x == input.examples[b]
           c == Segments(x)
           D == Where(RightPad(DecoderRows, Pad)[b], Ignored)
           E == Where(RightPad(CotRows, Pad)[b], Compress)
           d == ValidCount(x)
           V == Where(LeftPad(ValidationRows, Pad)[b], Ignored)
           F == Where(RightPad(ValidCotRows, Pad)[b], Compress)
<1>1. c \in Nat
  <2>1. InputOK /\ x \in Examples /\ x.cot # 0
    BY Inputs DEF NoneEmpty
  <2> QED
    BY <2>1, SegmentsMeans
<1>2. Ranked(LatentAt(x), c, D) /\ Ranked(CompressAt(x), c, E)
  BY DecoderPadded, CotPadded
<1>3. Cardinality(V) = d
  BY ValidationPadded
<1>5. Ranked(TextAt(x, Len(ValidationText(x))), d, F) /\ d \in Nat
  BY ValidCotPadded
<1> HIDE DEF c, d, D, E, V, F
<1>4. Cardinality(D) = c /\ Cardinality(E) = c
  BY <1>1, <1>2, RankedCount
<1>6. Cardinality(F) = d
  BY <1>5, RankedCount
<1> QED
  BY <1>3, <1>4, <1>6 DEF SameCount, D, E, V, F

\* What forward of stage 2 requires of row b.
Fits(b) ==
  LET s == batch.latent_index[b][1]
      e == batch.latent_index[b][2]
  IN  s >= 1 /\ e > s /\ e - s = Len(batch.latent_state[b])

(* The row of the batch of stage 2.                                        *)
LEMMA Batch2Is ==
  ASSUME input \in Batches, batch = Batch2, NEW b \in Rows, NEW x, x = input.examples[b]
  PROVE  /\ batch.input_ids = RightPad(Stage2Rows, Pad)
         /\ batch.latent_state[b] = SoftLabels(b)
         /\ batch.latent_index[b][1] = Len(Opening(x))
         /\ batch.latent_index[b][2] = Len(Opening(x)) + LabelCount(x)
<1>1. batch.input_ids = RightPad(Stage2Rows, Pad)
  BY Columns, Zenon DEF Batch2
<1>2. batch.latent_state = Field(Features2, "latent_state")
      /\ batch.latent_index = Field(Features2, "latent_index")
  BY Zenon DEF Batch2
<1>3. /\ Field(Features2, "latent_state")[b] = Stage2Features(x, SoftLabels(b)).latent_state
      /\ Field(Features2, "latent_index")[b] = Stage2Features(x, SoftLabels(b)).latent_index
  BY Zenon DEF Field, Features2
<1>4. /\ Stage2Features(x, SoftLabels(b)).latent_state = SoftLabels(b)
      /\ Stage2Features(x, SoftLabels(b)).latent_index
           = <<Len(Opening(x)), Len(Opening(x)) + Len(SoftLabels(b))>>
  BY Zenon DEF Stage2Features, Opening
<1>5. Len(SoftLabels(b)) = LabelCount(x)
  BY SoftLabelsMean
<1> DEFINE i == batch.latent_index[b]
           s == Len(Opening(x))
<1>6. i = <<s, s + LabelCount(x)>>
  BY <1>2, <1>3, <1>4, <1>5, Zenon
<1> HIDE DEF i, s
<1>7. i[1] = s /\ i[2] = s + LabelCount(x)
  BY <1>6
<1>8. batch.latent_state[b] = SoftLabels(b)
  BY <1>2, <1>3, <1>4, Zenon
<1> QED
  BY <1>1, <1>7, <1>8 DEF i, s

(* The soft labels fit the latents, if there are some.                     *)
LEMMA LabelsFit ==
  ASSUME input \in Batches, batch = Batch2, ~SomeNotLabelled, NEW b \in Rows
  PROVE  Fits(b)
<1> DEFINE x == input.examples[b]
           s == Len(Opening(x))
           c == LabelCount(x)
<1>1. s \in Nat \ {0} /\ c \in Nat
  BY Stage2Padded
<1>2. /\ batch.latent_index[b][1] = s /\ batch.latent_index[b][2] = s + c
      /\ batch.latent_state[b] = SoftLabels(b)
  BY Batch2Is
<1>3. Len(SoftLabels(b)) = c
  BY SoftLabelsMean
<1>4. c # 0
  <2>1. Len(LabelText(x)) # 0
    BY DEF SomeNotLabelled, NotLabelled
  <2> QED
    BY <2>1, LabelCotPadded
<1> HIDE DEF s, c
<1>5. Len(batch.latent_state[b]) = c
  BY <1>2, <1>3
<1> QED
  BY <1>1, <1>2, <1>4, <1>5 DEF Fits
-----------------------------------------------------------------------------
(* The batch starts as it came.                                            *)
LEMMA Starts ==
  Init => IInv
BY DEF Init, IInv, Stages

(* Every step makes of it what the invariant says.                         *)
LEMMA Keeps ==
  IInv /\ [Next]_vars => IInv'
<1> SUFFICES ASSUME IInv, [Next]_vars PROVE IInv'
  OBVIOUS
<1>1. input' = input
  BY DEF Next, vars, Tokenize, Collate, Forward, Validate, Label, Tokenize2, Collate2, Forward2
<1>2. /\ Features1' = Features1 /\ Features2' = Features2 /\ Labelled' = Labelled
      /\ Batch1' = Batch1 /\ Batch2' = Batch2 /\ BatchV' = BatchV
      /\ SomeRefused' = SomeRefused /\ SomeNotLabelled' = SomeNotLabelled /\ Rows' = Rows
  BY <1>1, SameInput
<1>3. /\ pc \in Stages /\ input \in Batches /\ input' \in Batches
      /\ pc = "rejected" => SomeRefused \/ SomeNotLabelled
      /\ pc \notin {"raw", "rejected"} => ~SomeRefused
      /\ pc \in {"tokenized", "collated", "trained", "validated"} => feats = Features1
      /\ pc \in {"collated", "trained"} => batch = Batch1
      /\ pc = "validated" => batch = BatchV
      /\ pc \in {"trained", "validated"} => embeds = Scattered(batch)
      /\ pc = "labelled" => feats = Labelled
      /\ pc \in {"tokenized2", "collated2", "trained2"} => feats = Features2
      /\ pc \in {"collated2", "trained2"} => batch = Batch2
      /\ pc = "trained2" => embeds = [b \in Rows |-> Stage2Row(b)]
  BY <1>1 DEF IInv
\* What the other actions leave to show.
<1> DEFINE Now ==
             /\ pc' \in Stages
             /\ pc' = "rejected" => SomeRefused \/ SomeNotLabelled
             /\ pc' \notin {"raw", "rejected"} => ~SomeRefused
             /\ pc' \in {"tokenized", "collated", "trained", "validated"} => feats' = Features1
             /\ pc' \in {"collated", "trained"} => batch' = Batch1
             /\ pc' = "validated" => batch' = BatchV
             /\ pc' \in {"trained", "validated"} => embeds' = Scattered(batch')
             /\ pc' = "labelled" => feats' = Labelled
             /\ pc' \in {"tokenized2", "collated2", "trained2"} => feats' = Features2
             /\ pc' \in {"collated2", "trained2"} => batch' = Batch2
             /\ pc' = "trained2" => embeds' = [b \in Rows |-> Stage2Row(b)']
<1>4. Now => IInv'
  <2>1. Scattered(batch)' = Scattered(batch')
    BY <1>2, Zenon DEF Scattered
  <2> QED
    BY <1>1, <1>2, <1>3, <2>1, Zenon DEF IInv
<1>5. pc \notin {"raw", "rejected"} => NoneEmpty
  BY <1>3, TakenMeans
<1>6. CASE Tokenize
  <2>1. pc = "raw" /\ IF SomeRefused THEN pc' = "rejected" ELSE pc' = "tokenized" /\ feats' = Features1
    BY <1>6, Zenon DEF Tokenize, SomeRefused, Features1
  <2>2. Now
    BY <2>1 DEF Stages
  <2> QED
    BY <1>4, <2>2
<1>7. CASE Collate
  <2>1. pc = "tokenized" /\ pc' = "collated" /\ feats' = feats
    BY <1>7 DEF Collate
  <2>2. feats = Features1 /\ ~SomeRefused
    BY <1>3, <2>1
  <2>3. batch' = Batch1
    BY <1>7, <2>2, Zenon DEF Collate, Column, Field, Batch1
  <2>4. Now
    BY <2>1, <2>2, <2>3 DEF Stages
  <2> QED
    BY <1>4, <2>4
<1>8. CASE Forward
  <2>1. pc = "collated" /\ feats' = feats /\ batch' = batch
    BY <1>8 DEF Forward
  <2>2. feats = Features1 /\ batch = Batch1 /\ ~SomeRefused /\ NoneEmpty
    BY <1>3, <1>5, <2>1
  <2>3. \A b \in Rows : SameCount(batch.input_ids[b], batch.cot_ids[b])
    <3>1. batch.input_ids = RightPad(DecoderRows, Pad) /\ batch.cot_ids = RightPad(CotRows, Pad)
      BY <2>2, Batch1Is
    <3>2. \A b \in Rows : SameCount(RightPad(DecoderRows, Pad)[b], RightPad(CotRows, Pad)[b])
      BY <1>3, <2>2, CountsMatch
    <3> QED
      BY <3>1, <3>2, Zenon
  <2>4. pc' = "trained" /\ embeds' = Scattered(batch)
    BY <1>8, <2>3, Zenon DEF Forward, Scattered
  <2>5. embeds' = Scattered(batch')
    BY <2>1, <2>4, Zenon
  <2>6. Now
    BY <2>1, <2>2, <2>4, <2>5 DEF Stages
  <2> QED
    BY <1>4, <2>6
<1>9. CASE Validate
  <2>1. pc = "trained" /\ feats' = feats
    BY <1>9 DEF Validate
  <2>2. feats = Features1 /\ ~SomeRefused /\ NoneEmpty
    BY <1>3, <1>5, <2>1
  <2>3. \A b \in Rows : SameCount(LeftPad(ValidationRows, Pad)[b], RightPad(ValidCotRows, Pad)[b])
    BY <1>3, <2>2, CountsMatch
  <2>4. /\ pc' = "validated" /\ batch' = BatchV
        /\ embeds' = [b \in Rows |-> Scatter(LeftPad(ValidationRows, Pad)[b], RightPad(ValidCotRows, Pad)[b])]
    BY <1>9, <2>3, Zenon DEF Validate, ValidationRows, ValidCotRows, BatchV
  <2>5. embeds' = Scattered(batch')
    <3>1. batch'.input_ids = LeftPad(ValidationRows, Pad) /\ batch'.cot_ids = RightPad(ValidCotRows, Pad)
      BY <2>4, Zenon DEF BatchV
    <3> QED
      BY <2>4, <3>1, Zenon DEF Scattered
  <2>6. Now
    BY <2>1, <2>2, <2>4, <2>5 DEF Stages
  <2> QED
    BY <1>4, <2>6
<1>10. CASE Label
  <2>1. pc = "trained"
    BY <1>10 DEF Label
  <2>2. ASSUME \E b \in Rows : input.examples[b].solution = "absent" PROVE Now
    <3>1. pc' = "rejected"
      BY <1>10, <2>2, Zenon DEF Label
    <3>2. SomeNotLabelled
      BY <2>2, Zenon DEF SomeNotLabelled, NotLabelled
    <3> QED
      BY <3>1, <3>2 DEF Stages
  <2>3. ASSUME ~ \E b \in Rows : input.examples[b].solution = "absent" PROVE Now
    <3>1. pc' = "labelled"
      BY <1>10, <2>3, Zenon DEF Label
    <3>2. feats' = Labelled
      BY <1>10, <2>3, Zenon DEF Label, Labelled, SoftLabels, LabelCotRows
    <3> QED
      BY <1>3, <2>1, <3>1, <3>2 DEF Stages
  <2>4. Now
    BY <2>2, <2>3
  <2> QED
    BY <1>4, <2>4
<1>11. CASE Tokenize2
  <2>1. pc = "labelled" /\ pc' = "tokenized2"
    BY <1>11 DEF Tokenize2
  <2>2. feats = Labelled /\ ~SomeRefused
    BY <1>3, <2>1
  <2>3. \A b \in Rows : feats[b].latent_state = SoftLabels(b)
    BY <2>2 DEF Labelled
  <2>4. feats' = [b \in Rows |-> Stage2Features(input.examples[b], feats[b].latent_state)]
    BY <1>11 DEF Tokenize2
  <2>5. feats' = Features2
    BY <2>3, <2>4, Zenon DEF Features2
  <2>6. Now
    BY <2>1, <2>2, <2>5 DEF Stages
  <2> QED
    BY <1>4, <2>6
<1>12. CASE Collate2
  <2>1. pc = "tokenized2" /\ pc' = "collated2" /\ feats' = feats
    BY <1>12 DEF Collate2
  <2>2. feats = Features2 /\ ~SomeRefused
    BY <1>3, <2>1
  <2>3. batch' = Batch2
    BY <1>12, <2>2, Zenon DEF Collate2, Column, Field, Batch2
  <2>4. Now
    BY <2>1, <2>2, <2>3 DEF Stages
  <2> QED
    BY <1>4, <2>4
<1>13. CASE Forward2
  <2>1. pc = "collated2" /\ feats' = feats /\ batch' = batch
    BY <1>13 DEF Forward2
  <2>2. feats = Features2 /\ batch = Batch2 /\ ~SomeRefused /\ NoneEmpty
    BY <1>3, <1>5, <2>1
  <2>3. IF \A b \in Rows : Fits(b)
        THEN pc' = "trained2" /\ embeds' = [b \in Rows |-> Stage2Row(b)] ELSE pc' = "rejected"
    BY <1>13, Zenon DEF Forward2, Fits
  <2>4. \/ pc' = "trained2" /\ embeds' = [b \in Rows |-> Stage2Row(b)]
        \/ pc' = "rejected" /\ SomeNotLabelled
    BY <1>3, <2>2, <2>3, LabelsFit
  <2>5. \A b : Stage2Row(b)' = Stage2Row(b)
    BY <2>1, Zenon DEF Stage2Row
  <2>6. pc' = "trained2" => embeds' = [b \in Rows |-> Stage2Row(b)']
    BY <2>4, <2>5, Zenon
  <2>7. Now
    BY <2>1, <2>2, <2>4, <2>6 DEF Stages
  <2> QED
    BY <1>4, <2>7
<1>14. CASE UNCHANGED vars
  <2>1. pc' = pc /\ feats' = feats /\ batch' = batch /\ embeds' = embeds
    BY <1>14 DEF vars
  <2>2. \A b : Stage2Row(b)' = Stage2Row(b)
    BY <2>1, Zenon DEF Stage2Row
  <2>3. pc' = "trained2" => embeds' = [b \in Rows |-> Stage2Row(b)']
    BY <1>3, <2>1, <2>2, Zenon
  <2>4. pc' \in {"trained", "validated"} => embeds' = Scattered(batch')
    BY <1>3, <2>1, Zenon
  <2>5. Now
    BY <1>3, <2>1, <2>3, <2>4
  <2> QED
    BY <1>4, <2>5
<1> QED
  BY <1>6, <1>7, <1>8, <1>9, <1>10, <1>11, <1>12, <1>13, <1>14 DEF Next

(* In every state of a run the batch is what the input makes of it.        *)
THEOREM BatchOfItsInput == Spec => []IInv
<1>1. Init => IInv
  BY Starts
<1>2. IInv /\ [Next]_vars => IInv'
  BY Keeps
<1> QED
  BY <1>1, <1>2, PTL DEF Spec

(* The type invariant: the columns of a collated batch fit one another, and *)
(* only a batch with an example that stage 1 refuses, or that has no text  *)
(* to label, is rejected.                                                  *)
THEOREM TypeCorrect == Spec => []TypeOK
<1>1. ASSUME IInv PROVE TypeOK
  <2>1. /\ pc \in Stages /\ input \in Batches
        /\ pc = "rejected" => SomeRefused \/ SomeNotLabelled
        /\ pc \notin {"raw", "rejected"} => ~SomeRefused
        /\ pc \in {"tokenized", "collated", "trained", "validated"} => feats = Features1
        /\ pc = "collated" => batch = Batch1
        /\ pc = "labelled" => feats = Labelled
        /\ pc \in {"tokenized2", "collated2", "trained2"} => feats = Features2
    BY <1>1 DEF IInv
  <2> DEFINE n == Len(input.examples)
  <2>2. Rows = 1..n /\ n \in Nat \ {0}
    BY <2>1, Inputs DEF InputOK
  <2>3. Len(Features1) = n /\ Len(Features2) = n /\ Len(Labelled) = n
    <3> HIDE DEF n
    <3> QED
      BY <2>2 DEF Features1, Features2, Labelled
  <2>4. pc # "raw" /\ pc # "rejected" => Len(feats) = n
    BY <2>1, <2>3 DEF Stages
  <2>5. ASSUME pc = "collated", NEW b \in Rows
        PROVE  /\ Len(batch.input_ids[b]) = Len(batch.labels[b])
               /\ Len(batch.input_ids[b]) = Len(batch.position_ids[b])
               /\ Len(batch.input_ids[b]) = Len(batch.input_ids[1])
               /\ Len(batch.cot_ids[b]) = Len(batch.cot_ids[1])
    <3>1. NoneEmpty /\ 1 \in Rows
      BY <2>1, <2>2, <2>5, TakenMeans
    <3>2. /\ batch.input_ids = RightPad(DecoderRows, Pad)
          /\ batch.cot_ids = RightPad(CotRows, Pad)
          /\ batch.labels = RightPad(LabelRows, Ignored)
          /\ batch.position_ids = RightPad(PositionRows, 0)
      BY <2>1, <2>5, Batch1Is
    <3>3. \A i \in Rows : /\ Len(RightPad(DecoderRows, Pad)[i]) = MaxLen(DecoderRows)
                          /\ Len(RightPad(CotRows, Pad)[i]) = MaxLen(CotRows)
      BY <2>1, <3>1, DecoderPadded, CotPadded
    <3>4. /\ Len(RightPad(LabelRows, Ignored)[b]) = MaxLen(DecoderRows)
          /\ Len(RightPad(PositionRows, 0)[b]) = MaxLen(DecoderRows)
      BY <2>1, <3>1, ColumnsPadded
    <3> QED
      BY <3>1, <3>2, <3>3, <3>4, Zenon
  <2>6. pc = "rejected" =>
          \E b \in Rows : Refused(input.examples[b]) \/ NotLabelled(input.examples[b])
    BY <2>1, Zenon DEF SomeRefused, SomeNotLabelled
  <2> QED
    BY <2>1, <2>4, <2>5, <2>6, Zenon DEF TypeOK, Stages
<1> QED
  BY <1>1, BatchOfItsInput, PTL

(* An example is trained on the same way whatever it is batched with:      *)
(* padding changes neither mask.                                           *)
THEOREM PaddingChangesNothing == Spec => []PaddingIrrelevant
<1>1. ASSUME IInv, pc = "collated", NEW b \in Rows
      PROVE  /\ SupervisionMask(batch.input_ids[b]) = SupervisionMask(feats[b].input_ids)
             /\ InductionMask(batch.cot_ids[b]) = InductionMask(feats[b].cot_ids)
  <2>1. input \in Batches /\ ~SomeRefused /\ feats = Features1 /\ batch = Batch1
    BY <1>1 DEF IInv
  <2>2. NoneEmpty
    BY <2>1, TakenMeans
  <2>3. batch.input_ids = RightPad(DecoderRows, Pad) /\ batch.cot_ids = RightPad(CotRows, Pad)
    BY <2>1, Batch1Is
  <2>4. feats[b].input_ids = DecoderRows[b]
    BY <2>1 DEF Features1, DecoderRows, DecoderIds
  <2>5. feats[b].cot_ids = CotRows[b]
    BY <2>1 DEF Features1, CotRows, Stage1Features
  <2>6. SupervisionMask(RightPad(DecoderRows, Pad)[b]) = SupervisionMask(DecoderRows[b])
    BY <2>1, <2>2, DecoderPadded
  <2>7. InductionMask(RightPad(CotRows, Pad)[b]) = InductionMask(CotRows[b])
    BY <2>1, <2>2, CotPadded
  <2> QED
    BY <2>3, <2>4, <2>5, <2>6, <2>7, Zenon
<1>2. IInv => PaddingIrrelevant
  BY <1>1, Zenon DEF PaddingIrrelevant
<1> QED
  BY <1>2, BatchOfItsInput, PTL

(* The j-th soft label is embedded at the j-th latent, is compared with the *)
(* logits right before it, and the labels are in the order of the segments. *)
THEOREM SoftLabelsAligned == Spec => []KLTargetsAligned
<1>1. ASSUME IInv, pc = "trained2", NEW b \in Rows
      PROVE  /\ Len(batch.latent_state[b]) = Cardinality(Where(batch.input_ids[b], Ignored))
             /\ \A j \in DOMAIN batch.latent_state[b] :
                  /\ KLPosition(b, j) + 1 \in Where(batch.input_ids[b], Ignored)
                  /\ embeds[b][KLPosition(b, j) + 1] = batch.latent_state[b][j]
                  /\ \A i \in 1..j - 1 : batch.latent_state[b][i][2] < batch.latent_state[b][j][2]
  <2> DEFINE x == input.examples[b]
             s == Len(Opening(x))
             c == LabelCount(x)
             p == RightPad(Stage2Rows, Pad)[b]
             t == SoftLabels(b)
             L == Where(p, Ignored)
             w == TextAt(x, Len(LabelText(x)))
             row == embeds[b]
             v == [r \in 1..c |-> s + r]
  <2>1. /\ input \in Batches /\ ~SomeRefused /\ batch = Batch2
        /\ embeds = [i \in Rows |-> Stage2Row(i)]
    BY <1>1 DEF IInv
  <2>3. /\ p \in Seq(AnyToken) /\ s \in Nat \ {0} /\ c \in Nat /\ s + c <= Len(p)
        /\ Ranked(v, c, L)
    BY <2>1, Stage2Padded
  <2>4. /\ batch.input_ids = RightPad(Stage2Rows, Pad) /\ batch.latent_state[b] = t
        /\ batch.latent_index[b][1] = s /\ batch.latent_index[b][2] = s + c
    BY <2>1, Batch2Is
  <2>5. /\ t \in Seq(Embeds) /\ Len(t) = c
        /\ \A j \in 1..c : t[j][2] = w[j]
        /\ \A i, j \in 1..c : i < j => w[i] < w[j]
    <3>1. PICK y, d, u : y = x /\ d = c /\ u = w
      OBVIOUS
    <3>2. y = input.examples[b] /\ d = LabelCount(y) /\ u = TextAt(y, Len(LabelText(y)))
      BY <3>1, Zenon
    <3>3. /\ SoftLabels(b) \in Seq(Embeds) /\ Len(SoftLabels(b)) = d
          /\ \A j \in 1..d : SoftLabels(b)[j][2] = u[j]
          /\ \A i, j \in 1..d : i < j => u[i] < u[j]
      BY <2>1, <3>2, SoftLabelsMean
    <3> QED
      BY <3>1, <3>3, Zenon
  <2>6. p \in Seq(Embeds)
    BY <2>3, TokensEmbed
  <2>7. row = Stage2Row(b)
    BY <2>1
  <2>8. Stage2Row(b) = (SubSeq(p, 1, s) \o t) \o SubSeq(p, s + c + 1, Len(p))
    BY <2>4, Zenon DEF Stage2Row
  <2>9. \A r \in 1..c : v[r] = s + r
    OBVIOUS
  <2>10. batch.input_ids[b] = p
    BY <2>4
  <2> HIDE DEF s, c, p, t, L, w, row, v
  <2>11. Replaces(row, p, s, t)
    BY <2>5, <2>7, <2>8, Zenon DEF Replaces
  <2>12. \A j \in 1..c : row[s + j] = t[j]
    BY <2>3, <2>5, <2>6, <2>11, ReplacedAt
  <2>13. Cardinality(L) = c
    BY <2>3, RankedCount
  <2>14. \A j \in 1..c : s + j \in L
    BY <2>3, <2>9 DEF Ranked
  <2>15. \A j \in 1..c : KLPosition(b, j) + 1 = s + j
    BY <2>3, <2>4 DEF KLPosition
  <2>16. DOMAIN t = 1..c
    BY <2>5
  <2>17. ASSUME NEW j \in 1..c
         PROVE  /\ KLPosition(b, j) + 1 \in L
                /\ row[KLPosition(b, j) + 1] = t[j]
                /\ \A i \in 1..j - 1 : t[i][2] < t[j][2]
    <3>1. \A i \in 1..j - 1 : i \in 1..c /\ i < j
      BY <2>3
    <3> QED
      BY <2>5, <2>12, <2>14, <2>15, <3>1
  <2> QED
    BY <2>4, <2>5, <2>10, <2>13, <2>16, <2>17, Zenon DEF L, row
<1>2. IInv => KLTargetsAligned
  BY <1>1, Zenon DEF KLTargetsAligned
<1> QED
  BY <1>2, BatchOfItsInput, PTL
-----------------------------------------------------------------------------
\* What a row reaches, from what the rows before it reach.
Reached(acc, i, mask, n) ==
  {i} \cup UNION {IF j < i THEN acc[j] ELSE {j} : j \in {c \in 1..n : <<i, c>> \in mask}}

\* What the fold of Reach computes on every set of the first m rows.
Folds(g, mask, n, m) ==
  g = [s \in SUBSET (1..m) |->
         IF s = {} THEN <<>> ELSE Append(g[s \ {Max(s)}], Reached(g[s \ {Max(s)}], Max(s), mask, n))]

(* The greatest number of a set.                                           *)
LEMMA MaxIs ==
  ASSUME NEW S \in SUBSET Int, NEW m \in S, \A x \in S : x <= m
  PROVE  Max(S) = m
<1>1. Max(S) \in S /\ \A x \in S : Max(S) >= x
  BY DEF Max
<1>2. Max(S) <= m /\ m <= Max(S) /\ Max(S) \in Int
  BY <1>1
<1> QED
  BY <1>2

(* It can be computed however many rows there are.                         *)
LEMMA FoldExists ==
  ASSUME NEW mask, NEW n, NEW k \in Nat
  PROVE  \E g : Folds(g, mask, n, k)
<1> DEFINE T == {m \in Nat : ~ \E g : Folds(g, mask, n, m)}
<1> SUFFICES ASSUME T # {} PROVE FALSE
  OBVIOUS
<1>1. PICK m \in T : \A i \in T : m <= i
  BY LeastNatural
<1>2. m # 0
  <2> DEFINE e == [s \in SUBSET (1..0) |-> <<>>]
  <2>1. \A s \in SUBSET (1..0) : s = {}
    OBVIOUS
  <2>2. Folds(e, mask, n, 0)
    BY <2>1 DEF Folds
  <2> QED
    BY <2>2
<1>3. m - 1 \in Nat /\ m - 1 \notin T /\ m \in Nat \ {0}
  BY <1>1, <1>2
<1>4. PICK g : Folds(g, mask, n, m - 1)
  BY <1>3
<1> DEFINE S == SUBSET (1..m)
           R == SUBSET (1..m-1)
           next(f, s) == IF s = {} THEN <<>> ELSE Append(f[s \ {Max(s)}], Reached(f[s \ {Max(s)}], Max(s), mask, n))
           h == [s \in S |-> IF s \in R THEN g[s] ELSE next(g, s)]
<1>5. ASSUME NEW s \in S, s # {} 
      PROVE  s \ {Max(s)} \in R
  <2>1. PICK x \in s : \A y \in s : y <= x
    <3>1. s \in SUBSET Nat /\ \A y \in s : y <= m
      OBVIOUS
    <3> QED
      BY <1>3, <1>5, <3>1, GreatestNatural
  <2>2. Max(s) = x
    <3>1. s \in SUBSET Int
      OBVIOUS
    <3> QED
      BY <2>1, <3>1, MaxIs
  <2>3. \A y \in s \ {x} : y \in 1..m-1
    BY <2>1
  <2> QED
    BY <2>2, <2>3
<1>6. \A s \in R : s \in S
  <2>1. 1..m-1 \subseteq 1..m
    BY <1>3
  <2> QED
    BY <2>1
<1>7. \A s \in R : g[s] = next(g, s)
  BY <1>4 DEF Folds
<1>8. {} \in R
  OBVIOUS
<1> HIDE DEF S, R
<1>9. ASSUME NEW s \in S PROVE h[s] = next(h, s)
  <2>1. CASE s = {}
    BY <1>7, <1>8, <2>1
  <2>2. CASE s # {}
    <3>1. s \ {Max(s)} \in R /\ s \ {Max(s)} \in S
      BY <1>5, <1>6, <2>2
    <3>2. h[s \ {Max(s)}] = g[s \ {Max(s)}]
      BY <3>1
    <3>3. next(h, s) = next(g, s)
      <4> DEFINE r == s \ {Max(s)}
                 app(f) == Append(f, Reached(f, Max(s), mask, n))
      <4>1. h[r] = g[r]
        BY <3>2
      <4>2. next(h, s) = app(h[r]) /\ next(g, s) = app(g[r])
        <5> HIDE DEF h
        <5> QED
          BY <2>2
      <4> HIDE DEF h, next, app, r
      <4> QED
        BY <4>1, <4>2, Zenon
    <3>4. h[s] = next(g, s)
      <4> HIDE DEF next
      <4> QED
        BY <1>7
    <3> QED
      BY <3>3, <3>4, Zenon
  <2> QED
    BY <2>1, <2>2
<1>10. Folds(h, mask, n, m)
  <2>1. DOMAIN h = S /\ h = [s \in S |-> h[s]]
    OBVIOUS
  <2> HIDE DEF h
  <2>2. h = [s \in S |-> next(h, s)]
    <3> HIDE DEF next
    <3> QED
      BY <1>9, <2>1
  <2> QED
    BY <2>2, Zenon DEF Folds, S
<1> QED
  BY <1>1, <1>10

(* The fold runs over the rows in order.                                   *)
LEMMA ReachFolds ==
  ASSUME NEW mask, NEW n \in Nat
  PROVE  \E g : Folds(g, mask, n, n) /\ Reach(mask, n) = g[1..n]
<1> DEFINE seq == [i \in 1..n |-> i]
           D == DOMAIN seq
           row(acc, i) == {i} \cup UNION {IF j < i THEN acc[j] ELSE {j} : j \in {c \in 1..n : <<i, c>> \in mask}}
           step(f, s) == IF s = {} THEN <<>>
                         ELSE Append(f[s \ {Max(s)}], row(f[s \ {Max(s)}], seq[Max(s)]))
           it == CHOOSE iter : iter = [s \in SUBSET D |-> step(iter, s)]
<1>1. Reach(mask, n) = it[D]
  BY Zenon DEF Reach, FoldLeft, MapThenFoldSet
<1>2. D = 1..n
  OBVIOUS
<1>3. ASSUME NEW f, NEW s \in SUBSET (1..n)
      PROVE  step(f, s) = IF s = {} THEN <<>>
                ELSE Append(f[s \ {Max(s)}], Reached(f[s \ {Max(s)}], Max(s), mask, n))
  <2>1. CASE s = {}
    BY <2>1, Zenon
  <2>2. CASE s # {}
    <3>1. PICK x \in s : \A y \in s : y <= x
      <4>1. s \in SUBSET Nat /\ \A y \in s : y <= n
        OBVIOUS
      <4> QED
        BY <2>2, <4>1, GreatestNatural
    <3>2. Max(s) = x
      <4>1. s \in SUBSET Int
        OBVIOUS
      <4> QED
        BY <3>1, <4>1, MaxIs
    <3>3. Max(s) \in 1..n
      BY <3>1, <3>2
    <3>4. seq[Max(s)] = Max(s)
      BY <3>3
    <3> DEFINE app(i) == Append(f[s \ {Max(s)}], row(f[s \ {Max(s)}], i))
    <3> HIDE DEF seq
    <3>5. step(f, s) = app(seq[Max(s)])
      BY <2>2, Zenon
    <3>6. step(f, s) = app(Max(s))
      <4> HIDE DEF step, app
      <4> QED
        BY <3>4, <3>5, Zenon
    <3>7. app(Max(s)) = Append(f[s \ {Max(s)}], Reached(f[s \ {Max(s)}], Max(s), mask, n))
      BY Zenon DEF Reached
    <3> QED
      BY <2>2, <3>6, <3>7, Zenon
  <2> QED
    BY <2>1, <2>2
<1> HIDE DEF D, step
<1>4. ASSUME NEW f
      PROVE  f = [s \in SUBSET D |-> step(f, s)] <=> Folds(f, mask, n, n)
  <2>1. [s \in SUBSET (1..n) |-> step(f, s)] =
        [s \in SUBSET (1..n) |-> IF s = {} THEN <<>>
                ELSE Append(f[s \ {Max(s)}], Reached(f[s \ {Max(s)}], Max(s), mask, n))]
    BY <1>3, Zenon
  <2> QED
    BY <1>2, <2>1, Zenon DEF Folds
<1>5. PICK g : Folds(g, mask, n, n)
  BY FoldExists
<1>6. g = [s \in SUBSET D |-> step(g, s)]
  BY <1>4, <1>5
<1>7. it = [s \in SUBSET D |-> step(it, s)]
  BY <1>6, Zenon
<1>8. Folds(it, mask, n, n)
  BY <1>4, <1>7
<1> QED
  BY <1>1, <1>2, <1>8, Zenon

\* The rows before the i-th are the same.
SameBefore(u, v, i) == \A j \in 1..i-1 : u[j] = v[j]

(* It depends on the rows before it.                                       *)
LEMMA ReachedSame ==
  ASSUME NEW mask, NEW n, NEW i \in Nat, NEW u, NEW v, SameBefore(u, v, i)
  PROVE  Reached(u, i, mask, n) = Reached(v, i, mask, n)
<1> DEFINE C == {c \in 1..n : <<i, c>> \in mask}
<1>1. \A j \in C : j < i => j \in 1..i-1
  OBVIOUS
<1> HIDE DEF C
<1>2. \A j \in C : (IF j < i THEN u[j] ELSE {j}) = (IF j < i THEN v[j] ELSE {j})
  BY <1>1 DEF SameBefore
<1>3. {IF j < i THEN u[j] ELSE {j} : j \in C} = {IF j < i THEN v[j] ELSE {j} : j \in C}
  BY <1>2, Zenon
<1> QED
  BY <1>3, Zenon DEF Reached, C

\* The first m rows, each with what it reaches.
RowsReached(a, mask, n, m) ==
  /\ a \in Seq(SUBSET Int) /\ Len(a) = m
  /\ \A i \in 1..m : a[i] = Reached(a, i, mask, n)

(* One row more.                                                           *)
LEMMA RowReached ==
  ASSUME NEW mask, NEW n, NEW m \in Nat, NEW a, RowsReached(a, mask, n, m),
         NEW b, b = Append(a, Reached(a, m + 1, mask, n))
  PROVE  RowsReached(b, mask, n, m + 1)
<1> DEFINE t == Reached(a, m + 1, mask, n)
<1>1. a \in Seq(SUBSET Int) /\ Len(a) = m
  BY DEF RowsReached
<1>2. t \in SUBSET Int
  <2>1. ASSUME NEW j \in 1..n PROVE (IF j < m + 1 THEN a[j] ELSE {j}) \in SUBSET Int
    BY <1>1
  <2> DEFINE F == {IF j < m + 1 THEN a[j] ELSE {j} : j \in {c \in 1..n : <<m + 1, c>> \in mask}}
  <2>2. \A v \in F : v \in SUBSET Int
    BY <2>1
  <2>3. t = {m + 1} \cup UNION F
    BY Zenon DEF Reached
  <2> HIDE DEF F, t
  <2> QED
    BY <2>2, <2>3
<1> HIDE DEF t
<1>3. b \in Seq(SUBSET Int) /\ Len(b) = m + 1 /\ b[m + 1] = t /\ \A i \in 1..m : b[i] = a[i]
  <2> DEFINE P == SUBSET Int
             u == Append(a, t)
  <2>1. b = u
    BY DEF t
  <2>2. a \in Seq(P) /\ t \in P
    BY <1>1, <1>2
  <2> HIDE DEF P
  <2>3. u \in Seq(P) /\ Len(u) = Len(a) + 1 /\ u[Len(a) + 1] = t /\ \A i \in 1..Len(a) : u[i] = a[i]
    BY <2>2, AppendProperties
  <2> QED
    BY <1>1, <2>1, <2>3, Zenon DEF P
<1>4. ASSUME NEW i \in 1..m+1 PROVE b[i] = Reached(b, i, mask, n)
  <2>1. Reached(a, i, mask, n) = Reached(b, i, mask, n)
    <3>1. i \in Nat /\ SameBefore(a, b, i)
      BY <1>3 DEF SameBefore
    <3> QED
      BY <3>1, ReachedSame
  <2>2. CASE i = m + 1
    BY <1>3, <2>1, <2>2, Zenon DEF t
  <2>3. CASE i # m + 1
    <3>1. i \in 1..m
      BY <2>3
    <3>2. b[i] = a[i] /\ a[i] = Reached(a, i, mask, n)
      BY <1>3, <3>1 DEF RowsReached
    <3> QED
      BY <2>1, <3>2, Zenon
  <2> QED
    BY <2>2, <2>3
<1> QED
  BY <1>3, <1>4 DEF RowsReached

(* Reach gives for every row what it reaches.                              *)
LEMMA ReachRows ==
  ASSUME NEW mask, NEW n \in Nat
  PROVE  RowsReached(Reach(mask, n), mask, n, n)
<1>1. PICK g : Folds(g, mask, n, n) /\ Reach(mask, n) = g[1..n]
  BY ReachFolds
<1> DEFINE bad(m) == ~RowsReached(g[1..m], mask, n, m)
           T == {m \in 0..n : bad(m)}
<1> SUFFICES ASSUME n \in T PROVE FALSE
  <2>1. n \in 0..n
    OBVIOUS
  <2> QED
    BY <1>1, <2>1, Zenon
<1>2. PICK m \in T : \A i \in T : m <= i
  <2> HIDE DEF bad
  <2>1. T \in SUBSET Nat /\ T # {}
    OBVIOUS
  <2> QED
    BY <2>1, LeastNatural
<1>3. m \in 0..n /\ bad(m)
  BY <1>2
<1>4. ASSUME NEW s \in SUBSET (1..n)
      PROVE  g[s] = IF s = {} THEN <<>>
                    ELSE Append(g[s \ {Max(s)}], Reached(g[s \ {Max(s)}], Max(s), mask, n))
  BY <1>1 DEF Folds
<1>5. CASE m = 0
  <2>1. 1..0 = {} /\ {} \in SUBSET (1..n)
    OBVIOUS
  <2>2. g[1..0] = <<>>
    BY <1>4, <2>1
  <2>3. RowsReached(<<>>, mask, n, 0)
    BY DEF RowsReached
  <2> QED
    BY <1>3, <1>5, <2>2, <2>3, Zenon
<1>6. CASE m # 0
  <2>1. m - 1 \in 0..n /\ m - 1 \notin T /\ (m - 1) + 1 = m /\ m - 1 \in Nat
    <3> HIDE DEF bad
    <3> QED
      BY <1>2, <1>6
  <2>2. RowsReached(g[1..m-1], mask, n, m - 1)
    BY <2>1, Zenon
  <2>3. 1..m \in SUBSET (1..n) /\ 1..m # {} /\ Max(1..m) = m /\ (1..m) \ {m} = 1..m-1
    <3>1. m \in 1..m /\ 1..m \in SUBSET Int /\ \A x \in 1..m : x <= m
      BY <1>3, <1>6
    <3>2. Max(1..m) = m
      BY <3>1, MaxIs
    <3>3. 1..m \in SUBSET (1..n) /\ (1..m) \ {m} = 1..m-1
      BY <1>3, <1>6
    <3> QED
      BY <3>1, <3>2, <3>3, Zenon
  <2>4. g[1..m] = Append(g[1..m-1], Reached(g[1..m-1], m, mask, n))
    BY <1>4, <2>3, Zenon
  <2> DEFINE a == g[1..m-1]
             b == g[1..m]
             k == m - 1
  <2>5. k \in Nat /\ k + 1 = m /\ RowsReached(a, mask, n, k) /\ b = Append(a, Reached(a, m, mask, n))
    BY <2>1, <2>2, <2>4
  <2> HIDE DEF a, b, k
  <2>6. b = Append(a, Reached(a, k + 1, mask, n))
    BY <2>5, Zenon
  <2>7. RowsReached(b, mask, n, k + 1)
    BY <2>5, <2>6, RowReached
  <2>8. RowsReached(b, mask, n, m)
    BY <2>5, <2>7, Zenon
  <2> QED
    BY <1>3, <2>8, Zenon DEF b
<1> QED
  BY <1>5, <1>6

(* A row reaches itself and what the rows it looks at reach.               *)
LEMMA ReachMeans ==
  ASSUME NEW mask, NEW n \in Nat, NEW i \in 1..n, NEW j
  PROVE  j \in Reach(mask, n)[i] <=>
           j = i \/ \E k \in 1..n : <<i, k>> \in mask /\ IF k < i THEN j \in Reach(mask, n)[k] ELSE j = k
<1> DEFINE R == Reach(mask, n)
<1>1. R[i] = Reached(R, i, mask, n)
  BY ReachRows DEF RowsReached
<1> HIDE DEF R
<1>2. j \in Reached(R, i, mask, n) <=>
        j = i \/ \E k \in 1..n : <<i, k>> \in mask /\ IF k < i THEN j \in R[k] ELSE j = k
  BY DEF Reached
<1> QED
  BY <1>1, <1>2, Zenon DEF R

\* D is what the first m rows depend on in the end: a row on itself, and on
\* what a row before it that it looks at depends on.
Closes(D, mask, m) ==
  /\ \A i \in 1..m : <<i, i>> \in D
  /\ \A i, k : i \in 1..m /\ <<i, k>> \in mask => k \in 1..m /\ k <= i
  /\ \A i, k, j : i \in 1..m /\ <<i, k>> \in mask /\ <<k, j>> \in D => <<i, j>> \in D
  /\ \A i, j : i \in 1..m /\ <<i, j>> \in D /\ i # j =>
       \E k \in 1..m : k < i /\ <<i, k>> \in mask /\ <<k, j>> \in D

(* Then it is what they reach.                                             *)
LEMMA ReachIs ==
  ASSUME NEW mask, NEW n \in Nat, NEW m \in 0..n, NEW D, Closes(D, mask, m),
         NEW i \in 1..m, NEW j
  PROVE  j \in Reach(mask, n)[i] <=> <<i, j>> \in D
<1> DEFINE R == Reach(mask, n)
           bad(r) == \E q : ~(q \in R[r] <=> <<r, q>> \in D)
           T == {r \in 1..m : bad(r)}
<1> SUFFICES ASSUME T # {} PROVE FALSE
  OBVIOUS
<1>1. PICK r \in T : \A q \in T : r <= q
  <2> HIDE DEF bad
  <2>1. T \in SUBSET Nat
    OBVIOUS
  <2> QED
    BY <2>1, LeastNatural
<1>2. r \in 1..m /\ r \in 1..n /\ bad(r)
  BY <1>1
<1>3. \A k \in 1..m : k < r => \A q : q \in R[k] <=> <<k, q>> \in D
  <2>1. ASSUME NEW k \in 1..m, k < r PROVE k \notin T
    <3> HIDE DEF T
    <3> QED
      BY <1>1, <1>2, <2>1
  <2> QED
    BY <2>1
<1>4. PICK q : ~(q \in R[r] <=> <<r, q>> \in D)
  BY <1>2
<1>5. q \in R[r] <=>
        q = r \/ \E k \in 1..n : <<r, k>> \in mask /\ IF k < r THEN q \in R[k] ELSE q = k
  BY <1>2, ReachMeans
<1> HIDE DEF R, T, bad
<1>6. ASSUME q \in R[r] PROVE <<r, q>> \in D
  <2>1. CASE q = r
    BY <1>2, <2>1 DEF Closes
  <2>2. CASE q # r
    <3>1. PICK k \in 1..n : <<r, k>> \in mask /\ IF k < r THEN q \in R[k] ELSE q = k
      BY <1>5, <1>6, <2>2
    <3>2. k \in 1..m /\ k <= r
      BY <1>2, <3>1 DEF Closes
    <3>3. k < r
      BY <1>2, <2>2, <3>1, <3>2
    <3>4. <<k, q>> \in D
      BY <1>3, <3>1, <3>2, <3>3
    <3> QED
      BY <1>2, <3>1, <3>4 DEF Closes
  <2> QED
    BY <2>1, <2>2
<1>7. ASSUME <<r, q>> \in D PROVE q \in R[r]
  <2>1. CASE q = r
    BY <1>5, <2>1
  <2>2. CASE q # r
    <3>1. PICK k \in 1..m : k < r /\ <<r, k>> \in mask /\ <<k, q>> \in D
      BY <1>2, <1>7, <2>2 DEF Closes
    <3>2. k \in 1..n /\ q \in R[k]
      BY <1>3, <3>1
    <3> QED
      BY <1>5, <3>1, <3>2
  <2> QED
    BY <2>1, <2>2
<1> QED
  BY <1>4, <1>6, <1>7
-----------------------------------------------------------------------------
(* What a row of the decoder looks at and depends on.                      *)

\* The latents W are between the opening, which ends at a, and the end marker
\* at e: one right behind the opening, one right before the marker.
Latents(W, a, e) ==
  a \in Nat \ {0} /\ e \in Nat /\ W \in SUBSET Nat /\ (\A s \in W : a < s /\ s < e) /\ a + 1 \in W /\ e - 1 \in W

\* No latent comes after j up to i.
NoneAfter(W, j, i) == \A s \in W : ~(j < s /\ s <= i)

\* Row i looks at column j.
Looks(W, a, e, i, j) ==
  /\ j <= i
  /\ \/ i <= a
     \/ i \in W /\ (j <= a \/ j \in W)
     \/ a < i /\ i < e /\ i \notin W /\ NoneAfter(W, j, i)
     \/ e <= i /\ (e <= j \/ j <= a \/ j \in W)

\* Row i depends on row j.
Depends(W, a, i, j) == j <= i /\ (j <= a \/ j \in W \/ NoneAfter(W, j, i))

(* The latent that opens the segment of i.                                 *)
LEMMA Opens ==
  ASSUME NEW a, NEW e, NEW W, Latents(W, a, e), NEW i \in Nat, a < i
  PROVE  \E k \in W : k <= i /\ NoneAfter(W, k, i)
<1> DEFINE B == {s \in W : s <= i}
<1>0. a \in Nat /\ W \in SUBSET Nat /\ a + 1 \in W
  BY DEF Latents
<1>1. B \in SUBSET Nat /\ a + 1 \in B /\ \A s \in B : s <= i
  <2>1. a + 1 <= i
    BY <1>0
  <2> QED
    BY <1>0, <2>1
<1> HIDE DEF B
<1>2. PICK k \in B : \A s \in B : s <= k
  BY <1>1, GreatestNatural
<1>3. k \in W /\ k <= i /\ k \in Nat
  BY <1>1, <1>2 DEF B
<1>4. ASSUME NEW s \in W, k < s, s <= i PROVE FALSE
  <2>1. s \in B
    BY <1>4 DEF B
  <2>2. s <= k /\ s \in Nat
    BY <1>1, <1>2, <2>1
  <2> QED
    BY <1>3, <1>4, <2>2
<1> QED
  BY <1>3, <1>4 DEF NoneAfter

(* What the code writes with the latents before a row and its segment.     *)
LEMMA SeesLaid ==
  ASSUME NEW a, NEW e, NEW W, Latents(W, a, e), NEW n \in Nat, e <= n, NEW i \in 1..n, NEW j \in 1..n
  PROVE  Sees(W, e, n, i, j) <=> Looks(W, a, e, i, j)
<1> DEFINE before == {s \in W : s < i}
           x == Max(before)
           after == {t \in W : t > x}
           segEnd == IF \E t \in W : t > x THEN Min(after) - 1 ELSE IF e # 0 THEN e - 1 ELSE n
<1>1. /\ a \in Nat \ {0} /\ e \in Nat /\ W \in SUBSET Nat /\ a + 1 \in W /\ e - 1 \in W
      /\ \A s \in W : s \in Nat /\ a < s /\ s < e
  BY DEF Latents
<1>2. W # {} /\ Min(W) = a + 1
  <2>1. W \in SUBSET Int /\ \A s \in W : a + 1 <= s
    BY <1>1
  <2> QED
    BY <1>1, <2>1, MinIs
<1>3. Sees(W, e, n, i, j) <=>
        \/ i \in 1..a /\ j \in 1..a /\ j <= i
        \/ before # {} /\ i <= segEnd /\ j \in x..i
        \/ e # 0 /\ i >= e /\ j \in (e..i) \cup (1..a) \cup W
        \/ i \in W /\ j \in (1..a) \cup {s \in W : s <= i}
  <2>1. 1..(IF W = {} THEN n ELSE Min(W) - 1) = 1..a
    BY <1>1, <1>2
  <2> HIDE DEF segEnd
  <2>2. Sees(W, e, n, i, j) <=>
        \/ i \in 1..(IF W = {} THEN n ELSE Min(W) - 1) /\ j \in 1..(IF W = {} THEN n ELSE Min(W) - 1) /\ j <= i
        \/ before # {} /\ i <= segEnd /\ j \in x..i
        \/ e # 0 /\ i >= e /\ j \in (e..i) \cup (1..(IF W = {} THEN n ELSE Min(W) - 1)) \cup W
        \/ i \in W /\ j \in (1..(IF W = {} THEN n ELSE Min(W) - 1)) \cup {s \in W : s <= i}
    BY Zenon DEF Sees, segEnd
  <2> HIDE DEF before, x
  <2> QED
    BY <2>1, <2>2, Zenon
<1>4. CASE i <= a + 1
  <2>1. before = {}
    <3>1. ASSUME NEW s \in W, s < i PROVE FALSE
      <4>1. s \in Nat /\ a < s
        BY <1>1
      <4> QED
        BY <1>1, <1>4, <3>1, <4>1
    <3> QED
      BY <3>1
  <2>2. (e # 0 /\ i >= e) = FALSE
    BY <1>1, <1>4
  <2> HIDE DEF before, x, segEnd
  <2>3. i <= a \/ (i \in W /\ i = a + 1)
    BY <1>1, <1>4
  <2>4. CASE i <= a
    BY <1>1, <1>3, <2>1, <2>2, <2>4 DEF Looks
  <2>5. CASE i \in W /\ i = a + 1
    BY <1>1, <1>3, <2>1, <2>2, <2>5 DEF Looks
  <2> QED
    BY <2>3, <2>4, <2>5
<1>5. CASE a + 1 < i
  <2>1. PICK k \in W : k <= i - 1 /\ NoneAfter(W, k, i - 1)
    <3> DEFINE h == i - 1
    <3>1. h \in Nat /\ a < h
      BY <1>1, <1>5
    <3> HIDE DEF h
    <3>2. \E k \in W : k <= h /\ NoneAfter(W, k, h)
      BY <3>1, Opens
    <3> QED
      BY <3>2 DEF h
  <2>2. k \in Nat /\ k < i /\ k < e /\ a < k
    BY <1>1, <2>1
  <2>3. \A s \in W : s < i => s <= k
    <3>1. ASSUME NEW s \in W, s < i PROVE s <= k
      <4>1. s \in Nat /\ ~(k < s /\ s <= i - 1)
        BY <1>1, <2>1 DEF NoneAfter
      <4> QED
        BY <2>2, <3>1, <4>1
    <3> QED
      BY <3>1
  <2>4. before # {} /\ x = k
    <3>1. k \in before
      BY <2>2
    <3>2. before \in SUBSET Int
      <4>1. \A s \in before : s \in Int
        BY <1>1
      <4> HIDE DEF before
      <4> QED
        BY <4>1
    <3>3. \A s \in before : s <= k
      BY <2>3
    <3> HIDE DEF before
    <3> QED
      BY <3>1, <3>2, <3>3, MaxIs
  <2> DEFINE later == {t \in W : t > k}
  <2>5. segEnd = IF later # {} THEN Min(later) - 1 ELSE e - 1
    <3>1. (\E t \in W : t > k) <=> later # {}
      OBVIOUS
    <3>2. e # 0
      BY <1>1
    <3> HIDE DEF before, x
    <3> QED
      BY <2>4, <3>1, <3>2
  <2>6. \A t \in later : t \in Nat /\ i <= t /\ t \in W
    BY <1>1, <2>2, <2>3
  <2>7. i <= segEnd <=> i \notin W /\ i < e
    <3>1. CASE i \in W
      <4>1. i \in later /\ later \in SUBSET Int
        <5>1. i \in later /\ \A t \in later : t \in Int
          BY <2>2, <2>6, <3>1
        <5> HIDE DEF later
        <5> QED
          BY <5>1
      <4>2. Min(later) = i
        <5> HIDE DEF later
        <5> QED
          BY <2>6, <4>1, MinIs
      <4>3. segEnd = i - 1
        <5> HIDE DEF later, segEnd
        <5> QED
          BY <2>5, <4>1, <4>2
      <4> HIDE DEF segEnd
      <4> QED
        BY <3>1, <4>3
    <3>2. CASE i \notin W /\ i < e
      <4>1. e - 1 \in later
        <5>1. e - 1 # i /\ e - 1 \in W
          BY <1>1, <3>2
        <5> QED
          BY <1>1, <2>2, <3>2, <5>1
      <4>2. later \in SUBSET Nat
        BY <1>1
      <4> HIDE DEF later
      <4>3. PICK m \in later : \A t \in later : m <= t
        BY <4>1, <4>2, LeastNatural
      <4>4. Min(later) = m /\ later # {}
        BY <4>1, <4>2, <4>3, MinIs
      <4>5. m \in Nat /\ i < m
        BY <2>6, <3>2, <4>2, <4>3
      <4>6. segEnd = m - 1
        <5> HIDE DEF segEnd
        <5> QED
          BY <2>5, <4>4
      <4> HIDE DEF segEnd
      <4> QED
        BY <3>2, <4>5, <4>6
    <3>3. CASE e <= i
      <4>1. k = e - 1
        <5>1. e - 1 <= k
          BY <1>1, <2>3, <3>3
        <5> QED
          BY <1>1, <2>2, <5>1
      <4>2. later = {}
        <5>1. ASSUME NEW t \in later PROVE FALSE
          <6>1. t \in Nat /\ i <= t /\ t < e
            BY <1>1, <2>6, <5>1
          <6> QED
            BY <1>1, <3>3, <6>1
        <5> QED
          BY <5>1
      <4>3. segEnd = e - 1
        <5> HIDE DEF segEnd, later
        <5> QED
          BY <2>5, <4>2
      <4> HIDE DEF segEnd
      <4> QED
        BY <1>1, <3>3, <4>3
    <3> QED
      BY <1>1, <3>1, <3>2, <3>3
  <2>8. i \notin W => (j <= i /\ NoneAfter(W, j, i) <=> j \in k..i)
    <3>1. ASSUME i \notin W, NoneAfter(W, j, i) PROVE k <= j
      <4>1. ~(j < k /\ k <= i)
        BY <3>1 DEF NoneAfter
      <4> QED
        BY <2>2, <4>1
    <3>2. ASSUME i \notin W, k <= j PROVE NoneAfter(W, j, i)
      <4>1. ASSUME NEW s \in W, j < s, s <= i PROVE FALSE
        <5>1. s \in Nat /\ s # i
          BY <1>1, <3>2
        <5>2. s <= k
          BY <2>3, <4>1, <5>1
        <5> QED
          BY <2>2, <3>2, <4>1, <5>1, <5>2
      <4> QED
        BY <4>1 DEF NoneAfter
    <3> QED
      BY <2>2, <3>1, <3>2
  <2> HIDE DEF before, x, segEnd
  <2>9. Sees(W, e, n, i, j) <=>
          \/ i \notin W /\ i < e /\ j <= i /\ NoneAfter(W, j, i)
          \/ i >= e /\ j \in (e..i) \cup (1..a) \cup W
          \/ i \in W /\ j \in (1..a) \cup {s \in W : s <= i}
    <3>1. ~(i \in 1..a) /\ e # 0
      BY <1>1, <1>5
    <3> QED
      BY <1>3, <2>4, <2>7, <2>8, <3>1, Zenon
  <2>10. i >= e => (j \in (e..i) \cup (1..a) \cup W <=> j <= i /\ (e <= j \/ j <= a \/ j \in W))
    BY <1>1, <1>5
  <2>11. i \in W => (j \in (1..a) \cup {s \in W : s <= i} <=> j <= i /\ (j <= a \/ j \in W))
    BY <1>1, <1>5
  <2>12. Looks(W, a, e, i, j) <=>
          \/ i \notin W /\ i < e /\ j <= i /\ NoneAfter(W, j, i)
          \/ i >= e /\ j <= i /\ (e <= j \/ j <= a \/ j \in W)
          \/ i \in W /\ j <= i /\ (j <= a \/ j \in W)
    BY <1>1, <1>5 DEF Looks
  <2> QED
    BY <2>9, <2>10, <2>11, <2>12
<1> QED
  BY <1>1, <1>4, <1>5

\* The first m rows look at what Looks says, and depend on what Depends says.
LooksOf(mask, W, a, e, m) ==
  \A i \in 1..m : \A k : <<i, k>> \in mask <=> k \in 1..m /\ Looks(W, a, e, i, k)
DependsOf(W, a, m) == {p \in (1..m) \X (1..m) : Depends(W, a, p[1], p[2])}

(* To depend on what is looked at is to depend.                            *)
LEMMA DependsTransitive ==
  ASSUME NEW a, NEW e, NEW W, Latents(W, a, e), NEW i \in Nat, NEW k \in Nat, NEW j \in Nat,
         Looks(W, a, e, i, k), Depends(W, a, k, j)
  PROVE  Depends(W, a, i, j)
<1>1. /\ a \in Nat \ {0} /\ e \in Nat /\ e - 1 \in W
      /\ \A s \in W : s \in Nat /\ a < s /\ s < e
  BY DEF Latents
<1>2. j <= k /\ k <= i
  BY DEF Looks, Depends
<1>3. CASE j <= a \/ j \in W
  BY <1>2, <1>3 DEF Depends
<1>4. CASE ~(j <= a) /\ j \notin W
  <2>1. NoneAfter(W, j, k)
    BY <1>4 DEF Depends
  <2>2. k \notin W
    <3>1. ASSUME k \in W PROVE FALSE
      <4>1. ~(j < k /\ k <= k)
        BY <2>1, <3>1 DEF NoneAfter
      <4>2. j = k
        BY <1>2, <4>1
      <4> QED
        BY <1>4, <3>1, <4>2
    <3> QED
      BY <3>1
  <2>3. ~(k <= a) /\ ~(i <= a)
    BY <1>1, <1>2, <1>4
  <2>4. \/ a < i /\ i < e /\ i \notin W /\ NoneAfter(W, k, i)
        \/ e <= i /\ e <= k
    BY <2>2, <2>3 DEF Looks
  <2>5. CASE NoneAfter(W, k, i)
    <3>1. ASSUME NEW s \in W, j < s, s <= i PROVE FALSE
      <4>1. s \in Nat /\ ~(k < s /\ s <= i) /\ ~(j < s /\ s <= k)
        BY <1>1, <2>1, <2>5 DEF NoneAfter
      <4> QED
        BY <3>1, <4>1
    <3> QED
      BY <1>2, <3>1 DEF Depends, NoneAfter
  <2>6. CASE e <= i /\ e <= k
    <3>1. ASSUME NEW s \in W, j < s, s <= i PROVE FALSE
      <4>1. s \in Nat /\ s < e /\ ~(j < s /\ s <= k)
        BY <1>1, <2>1 DEF NoneAfter
      <4> QED
        BY <1>1, <2>6, <3>1, <4>1
    <3> QED
      BY <1>2, <3>1 DEF Depends, NoneAfter
  <2> QED
    BY <2>4, <2>5, <2>6
<1> QED
  BY <1>3, <1>4

(* What a row depends on is looked at by way of the latent of its segment. *)
LEMMA DependsThrough ==
  ASSUME NEW a, NEW e, NEW W, Latents(W, a, e), NEW i \in Nat \ {0}, NEW j \in Nat \ {0}, i # j,
         Depends(W, a, i, j)
  PROVE  \E k \in 1..i-1 : Looks(W, a, e, i, k) /\ Depends(W, a, k, j)
<1>1. /\ a \in Nat \ {0} /\ e \in Nat /\ e - 1 \in W
      /\ \A s \in W : s \in Nat /\ a < s /\ s < e
  BY DEF Latents
<1>2. j < i /\ j \in 1..i-1
  BY DEF Depends
<1>3. Depends(W, a, j, j)
  BY <1>1 DEF Depends, NoneAfter
<1>4. SUFFICES ASSUME ~Looks(W, a, e, i, j)
               PROVE  \E k \in 1..i-1 : Looks(W, a, e, i, k) /\ Depends(W, a, k, j)
  BY <1>2, <1>3
<1>5. ~(i <= a)
  BY <1>2, <1>4 DEF Looks
<1>6. i \notin W
  <2>1. ASSUME i \in W PROVE FALSE
    <3>1. ~NoneAfter(W, j, i)
      BY <1>2, <2>1 DEF NoneAfter
    <3> QED
      BY <1>2, <1>4, <2>1, <3>1 DEF Looks, Depends
  <2> QED
    BY <2>1
<1>7. i < e
  <2>1. ASSUME e <= i PROVE FALSE
    <3>1. NoneAfter(W, j, i) /\ ~(e <= j) /\ j \notin W
      BY <1>2, <1>4, <2>1 DEF Looks, Depends
    <3>2. ~(j < e - 1 /\ e - 1 <= i)
      BY <1>1, <3>1 DEF NoneAfter
    <3>3. j = e - 1
      BY <1>1, <2>1, <3>1, <3>2
    <3> QED
      BY <1>1, <3>1, <3>3
  <2> QED
    BY <1>1, <2>1
<1>8. ~NoneAfter(W, j, i)
  BY <1>1, <1>2, <1>4, <1>5, <1>6, <1>7 DEF Looks
<1>9. j <= a \/ j \in W
  BY <1>8 DEF Depends
<1>10. PICK k \in W : k <= i /\ NoneAfter(W, k, i)
  BY <1>1, <1>5, Opens
<1>11. k \in Nat /\ k # i /\ k < i /\ 0 < k
  BY <1>1, <1>6, <1>10
<1>12. Looks(W, a, e, i, k)
  BY <1>1, <1>5, <1>6, <1>7, <1>10 DEF Looks
<1>13. j <= k
  <2>1. PICK s \in W : j < s /\ s <= i
    BY <1>8 DEF NoneAfter
  <2>2. s \in Nat /\ ~(k < s /\ s <= i)
    BY <1>1, <1>10, <2>1 DEF NoneAfter
  <2> QED
    BY <1>11, <2>1, <2>2
<1>14. Depends(W, a, k, j)
  BY <1>9, <1>13 DEF Depends
<1> QED
  BY <1>11, <1>12, <1>14

(* What the first m rows look at closes to what they depend on.            *)
LEMMA LooksClose ==
  ASSUME NEW a, NEW e, NEW W, Latents(W, a, e), NEW m \in Nat, NEW mask, LooksOf(mask, W, a, e, m)
  PROVE  Closes(DependsOf(W, a, m), mask, m)
<1> DEFINE D == DependsOf(W, a, m)
<1>1. \A i, j : <<i, j>> \in D <=> i \in 1..m /\ j \in 1..m /\ Depends(W, a, i, j)
  BY DEF DependsOf
<1>2. \A i, k : i \in 1..m => (<<i, k>> \in mask <=> k \in 1..m /\ Looks(W, a, e, i, k))
  BY DEF LooksOf
<1> HIDE DEF D
<1>3. \A i \in 1..m : <<i, i>> \in D
  <2>1. \A i \in 1..m : Depends(W, a, i, i)
    BY DEF Depends, NoneAfter, Latents
  <2> QED
    BY <1>1, <2>1
<1>4. \A i, k : i \in 1..m /\ <<i, k>> \in mask => k \in 1..m /\ k <= i
  BY <1>2 DEF Looks
<1>5. ASSUME NEW i, NEW k, NEW j, i \in 1..m, <<i, k>> \in mask, <<k, j>> \in D
      PROVE  <<i, j>> \in D
  <2>1. k \in 1..m /\ Looks(W, a, e, i, k) /\ j \in 1..m /\ Depends(W, a, k, j)
    BY <1>1, <1>2, <1>5
  <2>2. i \in Nat /\ k \in Nat /\ j \in Nat
    BY <1>5, <2>1
  <2>3. Depends(W, a, i, j)
    BY <2>1, <2>2, DependsTransitive
  <2> QED
    BY <1>1, <1>5, <2>1, <2>3
<1>6. ASSUME NEW i, NEW j, i \in 1..m, <<i, j>> \in D, i # j
      PROVE  \E k \in 1..m : k < i /\ <<i, k>> \in mask /\ <<k, j>> \in D
  <2>1. j \in 1..m /\ Depends(W, a, i, j)
    BY <1>1, <1>6
  <2>2. i \in Nat \ {0} /\ j \in Nat \ {0}
    BY <1>6, <2>1
  <2>3. PICK k \in 1..i-1 : Looks(W, a, e, i, k) /\ Depends(W, a, k, j)
    BY <1>6, <2>1, <2>2, DependsThrough
  <2>4. k \in 1..m /\ k < i
    BY <1>6
  <2> QED
    BY <1>1, <1>2, <1>6, <2>1, <2>3, <2>4
<1> QED
  BY <1>3, <1>4, <1>5, <1>6 DEF Closes, D

\* A row of the decoder: n tokens, the latents between a and the end marker at e.
Laid(ids, a, e, n) ==
  /\ ids \in Seq(AnyToken) /\ Len(ids) = n /\ e <= n
  /\ Latents(Where(ids, Ignored), a, e) /\ EndMarkerAt(ids) = e
NoPad(ids, m) == \A i \in 1..m : ids[i] # Pad

(* The decoder's mask lets its rows look at what Looks says.               *)
LEMMA LaidLooks ==
  ASSUME NEW a, NEW e, NEW n \in Nat, NEW ids, Laid(ids, a, e, n), NEW m \in 0..n, NoPad(ids, m)
  PROVE  LooksOf(SupervisionMask(ids), Where(ids, Ignored), a, e, m)
<1> DEFINE W == Where(ids, Ignored)
<1>1. DOMAIN ids = 1..n /\ Len(ids) = n /\ EndMarkerAt(ids) = e /\ Latents(W, a, e) /\ e <= n
  BY DEF Laid
<1>2. ASSUME NEW i \in 1..n, NEW k \in 1..n
      PROVE  k \in LooksAt(ids, i) <=> Looks(W, a, e, i, k)
  <2>1. k \in LooksAt(ids, i) <=> k \in DOMAIN ids /\ Sees(W, EndMarkerAt(ids), Len(ids), i, k)
    BY SeesMeans, Zenon
  <2>2. k \in LooksAt(ids, i) <=> Sees(W, e, n, i, k)
    BY <1>1, <2>1, Zenon
  <2> HIDE DEF W
  <2>3. Sees(W, e, n, i, k) <=> Looks(W, a, e, i, k)
    BY <1>1, SeesLaid
  <2> QED
    BY <2>2, <2>3
<1>3. ASSUME NEW i \in 1..m, NEW k
      PROVE  <<i, k>> \in SupervisionMask(ids) <=> k \in 1..m /\ Looks(W, a, e, i, k)
  <2>1. <<i, k>> \in SupervisionMask(ids) <=>
          /\ <<i, k>> \in (DOMAIN ids) \X (DOMAIN ids)
          /\ k \in LooksAt(ids, i) /\ ids[i] # Pad /\ ids[k] # Pad
    BY DEF SupervisionMask
  <2> HIDE DEF W
  <2>2. \A j : Looks(W, a, e, i, j) => j <= i
    BY DEF Looks
  <2>3. i \in 1..n /\ \A j \in 1..m : j \in 1..n
    OBVIOUS
  <2>4. k \in 1..n /\ k <= i => k \in 1..m
    OBVIOUS
  <2> QED
    BY <1>1, <1>2, <2>1, <2>2, <2>3, <2>4 DEF NoPad
<1> QED
  BY <1>3 DEF LooksOf

(* What a row of the decoder depends on, in a batch of rows of q tokens.   *)
LEMMA DecoderReaches ==
  ASSUME NEW a, NEW e, NEW n \in Nat, NEW ids, Laid(ids, a, e, n), NEW m \in 0..n, NoPad(ids, m),
         NEW q \in Nat, n <= q, NEW i \in 1..m, NEW j
  PROVE  j \in Reach(SupervisionMask(ids), q)[i] <=>
           j \in 1..m /\ Depends(Where(ids, Ignored), a, i, j)
<1> DEFINE W == Where(ids, Ignored)
           M == SupervisionMask(ids)
<1>1. LooksOf(M, W, a, e, m)
  BY LaidLooks
<1>2. Latents(W, a, e) /\ m \in 0..q /\ m \in Nat
  BY DEF Laid
<1> HIDE DEF W, M
<1>3. Closes(DependsOf(W, a, m), M, m)
  BY <1>1, <1>2, LooksClose
<1>4. j \in Reach(M, q)[i] <=> <<i, j>> \in DependsOf(W, a, m)
  BY <1>2, <1>3, ReachIs
<1>5. <<i, j>> \in DependsOf(W, a, m) <=> j \in 1..m /\ Depends(W, a, i, j)
  BY DEF DependsOf
<1> QED
  BY <1>4, <1>5 DEF W, M

(* What a row of the encoder depends on is what it looks at.               *)
LEMMA EncoderReaches ==
  ASSUME NEW n \in Nat, NEW ids, DOMAIN ids = 1..n, NEW m \in 0..n, NoPad(ids, m),
         NEW q \in Nat, n <= q, NEW i \in 1..m, NEW j
  PROVE  j \in Reach(InductionMask(ids), q)[i] <=>
           j \in 1..m /\ j <= i /\ (ids[j] = Compress => j = i)
<1> DEFINE M == InductionMask(ids)
           D == {p \in (1..m) \X (1..m) : p[2] <= p[1] /\ (ids[p[2]] = Compress => p[2] = p[1])}
<1>1. \A r, k : <<r, k>> \in D <=>
                  r \in 1..m /\ k \in 1..m /\ k <= r /\ (ids[k] = Compress => k = r)
  OBVIOUS
<1>2. ASSUME NEW r \in 1..m, NEW k
      PROVE  <<r, k>> \in M <=> <<r, k>> \in D
  <2>1. <<r, k>> \in M <=> /\ r \in 1..n /\ k \in 1..n /\ k <= r /\ (ids[k] = Compress => k = r)
                           /\ ids[r] # Pad /\ ids[k] # Pad
    BY DEF InductionMask
  <2>2. r \in 1..n /\ (k \in 1..n /\ k <= r => k \in 1..m) /\ (k \in 1..m => k \in 1..n)
    OBVIOUS
  <2> HIDE DEF D, M
  <2> QED
    BY <1>1, <2>1, <2>2 DEF NoPad
<1> HIDE DEF M, D
<1>3. Closes(D, M, m)
  <2>1. \A r \in 1..m : <<r, r>> \in D
    BY <1>1
  <2>2. \A r, k : r \in 1..m /\ <<r, k>> \in M => k \in 1..m /\ k <= r
    BY <1>1, <1>2
  <2>3. ASSUME NEW r, NEW k, NEW h, r \in 1..m, <<r, k>> \in M, <<k, h>> \in D
        PROVE  <<r, h>> \in D
    <3>1. /\ k \in 1..m /\ k <= r /\ (ids[k] = Compress => k = r)
          /\ h \in 1..m /\ h <= k /\ (ids[h] = Compress => h = k)
      BY <1>1, <1>2, <2>3
    <3>2. h <= r /\ (ids[h] = Compress => h = r)
      BY <2>3, <3>1
    <3> QED
      BY <1>1, <2>3, <3>1, <3>2
  <2>4. ASSUME NEW r, NEW h, r \in 1..m, <<r, h>> \in D, r # h
        PROVE  \E k \in 1..m : k < r /\ <<r, k>> \in M /\ <<k, h>> \in D
    <3>1. h \in 1..m /\ h < r /\ <<h, h>> \in D /\ <<r, h>> \in M
      BY <1>1, <1>2, <2>1, <2>4
    <3> QED
      BY <3>1
  <2> QED
    BY <2>1, <2>2, <2>3, <2>4 DEF Closes
<1>4. m \in 0..q
  OBVIOUS
<1>5. j \in Reach(M, q)[i] <=> <<i, j>> \in D
  BY <1>3, <1>4, ReachIs
<1> QED
  BY <1>1, <1>5 DEF M
-----------------------------------------------------------------------------
(* The rows of an example token by token.                                  *)

\* The tokens before the reasoning and after it.
OpenToken(x, i) == IF i <= x.prompt THEN <<"prompt", i>> ELSE <<"think", 1>>
CloseToken(x, i) ==
  IF i <= input.endLen THEN <<"/think", i>>
  ELSE IF i <= input.endLen + x.answer THEN <<"answer", i - input.endLen>> ELSE Eos

\* s has the n tokens f(1), f(2) and so on of the opening, of the closing.
OpensAs(s, x, n) == s \in Seq(AnyToken) /\ Len(s) = n /\ \A i \in 1..n : s[i] = OpenToken(x, i)
ClosesAs(s, x, n) == s \in Seq(AnyToken) /\ Len(s) = n /\ \A i \in 1..n : s[i] = CloseToken(x, i)

(* Text that does not quote the end marker.                                *)
LEMMA CleanEnds ==
  ASSUME InputOK, NEW x \in Examples, x.marker = "none",
         NEW a, a = x.prompt + 1, NEW z, z = input.endLen + x.answer + 1
  PROVE  /\ a \in Nat \ {0} /\ z \in Nat \ {0}
         /\ OpensAs(Opening(x), x, a) /\ ClosesAs(Closing(x), x, z)
<1> DEFINE l == input.endLen
<1>1. x.prompt \in Nat /\ x.answer \in Nat /\ l \in Nat \ {0}
  BY DEF Examples, InputOK
<1>2. ASSUME NEW kind \in {"think", "/think", "prompt", "answer"}, NEW n \in Nat
      PROVE  /\ Tokens(kind, n) \in Seq(AnyToken) /\ Len(Tokens(kind, n)) = n
             /\ \A i \in 1..n : Tokens(kind, n)[i] = <<kind, i>>
  <2>1. \A i \in 1..n : <<kind, i>> \in AnyToken
    BY DEF AnyToken, Kinds
  <2> QED
    BY <2>1, TokensProperties
<1> DEFINE P == Tokens("prompt", x.prompt)
           A == Tokens("answer", x.answer)
           T == Tokens("think", 1)
           E == Tokens("/think", l)
           F == <<Eos>>
<1>3. /\ P \in Seq(AnyToken) /\ Len(P) = x.prompt /\ \A i \in 1..x.prompt : P[i] = <<"prompt", i>>
      /\ A \in Seq(AnyToken) /\ Len(A) = x.answer /\ \A i \in 1..x.answer : A[i] = <<"answer", i>>
      /\ T \in Seq(AnyToken) /\ Len(T) = 1 /\ T[1] = <<"think", 1>>
      /\ E \in Seq(AnyToken) /\ Len(E) = l /\ \A i \in 1..l : E[i] = <<"/think", i>>
  <2>1. P \in Seq(AnyToken) /\ Len(P) = x.prompt /\ \A i \in 1..x.prompt : P[i] = <<"prompt", i>>
    BY <1>1, <1>2, Zenon
  <2>2. A \in Seq(AnyToken) /\ Len(A) = x.answer /\ \A i \in 1..x.answer : A[i] = <<"answer", i>>
    BY <1>1, <1>2, Zenon
  <2>3. T \in Seq(AnyToken) /\ Len(T) = 1 /\ T[1] = <<"think", 1>>
    <3>1. 1 \in Nat /\ 1 \in 1..1 /\ "think" \in {"think", "/think", "prompt", "answer"}
      OBVIOUS
    <3> QED
      BY <1>2, <3>1, Zenon
  <2>4. E \in Seq(AnyToken) /\ Len(E) = l /\ \A i \in 1..l : E[i] = <<"/think", i>>
    <3>1. l \in Nat /\ "/think" \in {"think", "/think", "prompt", "answer"}
      BY <1>1
    <3> HIDE DEF l
    <3> QED
      BY <1>2, <3>1, Zenon
  <2> HIDE DEF P, A, T, E, l
  <2> QED
    BY <2>1, <2>2, <2>3, <2>4
<1>4. F \in Seq(AnyToken) /\ Len(F) = 1 /\ F[1] = Eos
  <2>1. Eos \in AnyToken
    BY DEF Eos, Pad, AnyToken, Kinds
  <2> QED
    BY <2>1
<1>5. Opening(x) = (<<>> \o P) \o T /\ Closing(x) = E \o ((<<>> \o A) \o F)
  <2>1. "none" # "problem" /\ "none" # "cot_answer"
    OBVIOUS
  <2>2. PromptIds(x) = <<>> \o P /\ SuffixIds(x) = (<<>> \o A) \o F
    BY <2>1, Zenon DEF PromptIds, SuffixIds
  <2> QED
    BY <2>2, Zenon DEF Opening, Closing, Think, EndThink
<1> HIDE DEF P, A, T, E, F, l
<1>6. <<>> \o P = P /\ <<>> \o A = A
  BY <1>3, ConcatEmptySeq
<1>7. OpensAs(Opening(x), x, a)
  <2> DEFINE u == Opening(x)
  <2>1. Joins(u, P, T)
    BY <1>5, <1>6, Zenon DEF Joins
  <2> HIDE DEF u
  <2>2. u \in Seq(AnyToken) /\ Len(u) = x.prompt + 1
        /\ \A i \in 1..x.prompt+1 : u[i] = IF i <= x.prompt THEN P[i] ELSE T[i - x.prompt]
    <3> DEFINE h == x.prompt
    <3>1. h \in Nat /\ 1 \in Nat /\ Len(P) = h /\ Len(T) = 1 /\ P \in Seq(AnyToken) /\ T \in Seq(AnyToken)
      BY <1>1, <1>3
    <3> HIDE DEF h
    <3>2. JoinOf(u, P, T, h, 1, AnyToken)
      BY <2>1, <3>1, Concatenation
    <3> QED
      BY <3>2 DEF JoinOf, h
  <2>3. ASSUME NEW i \in 1..x.prompt+1 PROVE u[i] = OpenToken(x, i)
    <3>1. i <= x.prompt => i \in 1..x.prompt
      BY <1>1
    <3>2. ~(i <= x.prompt) => i - x.prompt = 1
      BY <1>1
    <3> QED
      BY <1>3, <2>2, <3>1, <3>2 DEF OpenToken
  <2> QED
    BY <2>2, <2>3 DEF OpensAs, u
<1>8. ClosesAs(Closing(x), x, z)
  <2> DEFINE v == A \o F
             u == Closing(x)
  <2>1. Joins(v, A, F) /\ Joins(u, E, v)
    BY <1>5, <1>6, Zenon DEF Joins
  <2> HIDE DEF u, v
  <2>2. v \in Seq(AnyToken) /\ Len(v) = x.answer + 1
        /\ \A i \in 1..x.answer+1 : v[i] = IF i <= x.answer THEN A[i] ELSE F[i - x.answer]
    <3> DEFINE h == x.answer
    <3>1. h \in Nat /\ 1 \in Nat /\ Len(A) = h /\ Len(F) = 1 /\ A \in Seq(AnyToken) /\ F \in Seq(AnyToken)
      BY <1>1, <1>3, <1>4
    <3> HIDE DEF h
    <3>2. JoinOf(v, A, F, h, 1, AnyToken)
      BY <2>1, <3>1, Concatenation
    <3> QED
      BY <3>2 DEF JoinOf, h
  <2> DEFINE y == x.answer + 1
  <2>3. y \in Nat /\ Len(v) = y
    BY <1>1, <2>2
  <2> HIDE DEF y
  <2>4. u \in Seq(AnyToken) /\ Len(u) = l + y
        /\ \A i \in 1..l+y : u[i] = IF i <= l THEN E[i] ELSE v[i - l]
    <3>1. l \in Nat /\ E \in Seq(AnyToken) /\ Len(E) = l /\ v \in Seq(AnyToken)
      BY <1>1, <1>3, <2>2
    <3>2. JoinOf(u, E, v, l, y, AnyToken)
      BY <2>1, <2>3, <3>1, Concatenation
    <3> QED
      BY <3>2 DEF JoinOf
  <2>5. z = l + y
    BY <1>1 DEF l, y
  <2>6. ASSUME NEW i \in 1..l+y PROVE u[i] = CloseToken(x, i)
    <3>1. CASE i <= l
      <4>1. i \in 1..l
        BY <3>1
      <4> QED
        BY <1>3, <2>4, <3>1, <4>1 DEF CloseToken, l
    <3>2. CASE ~(i <= l)
      <4>1. i - l \in 1..x.answer+1 /\ u[i] = v[i - l]
        <5>1. l \in Nat /\ i \in 1..l+y /\ y \in Nat
          BY <1>1, <2>3
        <5>2. i - l \in 1..y
          BY <3>2, <5>1
        <5>3. u[i] = v[i - l]
          BY <2>4, <3>2
        <5> QED
          BY <5>2, <5>3 DEF y
      <4>2. CASE i <= l + x.answer
        <5>1. i - l \in 1..x.answer /\ i - l <= x.answer
          BY <1>1, <3>2, <4>2
        <5>2. u[i] = <<"answer", i - l>>
          BY <1>3, <2>2, <4>1, <5>1
        <5> QED
          BY <3>2, <4>2, <5>2 DEF CloseToken, l
      <4>3. CASE ~(i <= l + x.answer)
        <5>1. ~(i - l <= x.answer) /\ (i - l) - x.answer = 1
          BY <1>1, <3>2, <4>1, <4>3
        <5>2. u[i] = Eos
          <6> DEFINE h == i - l
          <6>1. h \in 1..x.answer+1 /\ ~(h <= x.answer) /\ h - x.answer = 1 /\ u[i] = v[h]
            BY <4>1, <5>1
          <6> HIDE DEF h
          <6> QED
            BY <1>4, <2>2, <6>1
        <5> QED
          BY <3>2, <4>3, <5>2 DEF CloseToken, l
      <4> QED
        BY <4>2, <4>3
    <3> QED
      BY <3>1, <3>2
  <2> QED
    BY <2>4, <2>5, <2>6 DEF ClosesAs, u
<1> QED
  BY <1>1, <1>7, <1>8 DEF l

\* A row of the decoder with an opening of a tokens, s - m + 1 tokens and
\* latents of the reasoning, from the m-th on, and a closing of z tokens.
DecoderTokens(ids, x, a, m, s, z) ==
  /\ a \in Nat \ {0} /\ a = x.prompt + 1
  /\ s \in Nat \ {0} /\ s = SpreadLen(x.cot, input.k)
  /\ m \in 1..s /\ m = Mark(x.cot, input.k, 1)
  /\ z \in Nat \ {0} /\ z = input.endLen + x.answer + 1
  /\ ids \in Seq(AnyToken) /\ Len(ids) = a + (s - m + 1) + z
  /\ \A i \in 1..a : ids[i] = OpenToken(x, i)
  /\ \A q \in m..s : ids[a + (q - m + 1)] = SpreadAt(x.cot, input.k, Ignored, q)
  /\ \A i \in 1..z : ids[a + (s - m + 1) + i] = CloseToken(x, i)

\* A row of the encoder.
EncoderTokens(ids, x, a, s) ==
  /\ a \in Nat \ {0} /\ a = x.prompt + 1
  /\ s \in Nat \ {0} /\ s = SpreadLen(x.cot, input.k)
  /\ ids \in Seq(AnyToken) /\ Len(ids) = a + s + input.endLen
  /\ \A i \in 1..a : ids[i] = OpenToken(x, i)
  /\ \A q \in 1..s : ids[a + q] = SpreadAt(x.cot, input.k, Compress, q)
  /\ \A i \in 1..input.endLen : ids[a + s + i] = <<"/think", i>>

\* u has the x elements of a, the y of m and the n of z.
FrameOf(u, a, m, z, x, y, n) ==
  /\ u \in Seq(AnyToken) /\ Len(u) = x + y + n
  /\ \A i \in 1..x : u[i] = a[i]
  /\ \A i \in 1..y : u[x + i] = m[i]
  /\ \A i \in 1..n : u[x + y + i] = z[i]

(* A frame, as one fact.                                                   *)
LEMMA FrameIs ==
  ASSUME NEW a \in Seq(AnyToken), NEW m \in Seq(AnyToken), NEW z \in Seq(AnyToken),
         NEW u, Framed(u, a, m, z), NEW x \in Nat, Len(a) = x, NEW y \in Nat, Len(m) = y,
         NEW n \in Nat, Len(z) = n
  PROVE  FrameOf(u, a, m, z, x, y, n)
BY FramedAt DEF FrameOf

\* u has the elements of w from the m-th to the d-th.
CutOf(u, w, m, d) ==
  u \in Seq(AnyToken) /\ Len(u) = d - m + 1 /\ \A i \in 1..d-m+1 : u[i] = w[m + i - 1]

(* What is cut off, as one fact.                                           *)
LEMMA CutIs ==
  ASSUME NEW n \in Nat \ {0}, NEW k \in Nat \ {0}, NEW w, Spread(w, n, k, Ignored),
         NEW u, Cut(u, w), NEW m \in Nat, m = Mark(n, k, 1), NEW d \in Nat, d = SpreadLen(n, k)
  PROVE  CutOf(u, w, m, d)
<1>1. CompressCount(n, k) \in Nat \ {0}
  BY CountMeans
<1>2. Ignored \in AnyToken /\ \A i : Ignored # <<"cot", i>>
  BY Specials DEF Ignored
<1>3. w \in Seq(AnyToken) /\ Len(w) = d
  BY <1>2, Inserted
<1>4. m \in 1..d
  BY <1>1, MarkProperties
<1>5. Min(Where(w, Ignored)) = m
  BY <1>2, InsertedAt
<1>6. u = SubSeq(w, m, d)
  BY <1>3, <1>5 DEF Cut, RemoveBefore
<1>7. \A i \in m..d : w[i] \in AnyToken
  BY <1>3, <1>4
<1>8. m \in Int /\ d \in Int /\ m <= d
  BY <1>4
<1>9. /\ SubSeq(w, m, d) \in Seq(AnyToken) /\ Len(SubSeq(w, m, d)) = d - m + 1
      /\ \A i \in 1..d-m+1 : SubSeq(w, m, d)[i] = w[m + i - 1]
  BY <1>7, <1>8, SubSeqProperties
<1> QED
  BY <1>6, <1>9 DEF CutOf

(* The decoder's input token by token.                                     *)
LEMMA DecoderTokensAre ==
  ASSUME InputOK, NEW x \in Examples, x.cot # 0, x.marker = "none"
  PROVE  \E a, m, s, z : DecoderTokens(DecoderIds(x), x, a, m, s, z)
<1> DEFINE n == x.cot
           k == input.k
           a == x.prompt + 1
           z == input.endLen + x.answer + 1
           s == SpreadLen(n, k)
           m == Mark(n, k, 1)
           ids == DecoderIds(x)
           u == Spacers(x)
           w == Spaced(x, Ignored)
           o == Opening(x)
           f == Closing(x)
           y == s - m + 1
<1>1. n \in Nat \ {0} /\ k \in Nat \ {0} /\ CompressCount(n, k) \in Nat \ {0}
  BY SegmentsMeans DEF Segments
<1>2. a \in Nat \ {0} /\ z \in Nat \ {0} /\ OpensAs(o, x, a) /\ ClosesAs(f, x, z)
  BY CleanEnds
<1>3. Spread(w, n, k, Ignored) /\ Cut(u, w)
  BY TrainTextIs DEF Spread, Spaced, Cut, Spacers
<1>4. s \in Nat /\ m \in 1..s
  <2>1. s \in Nat /\ \A i \in 1..CompressCount(n, k) : Mark(n, k, i) \in 1..s
    BY <1>1, MarkProperties
  <2> QED
    BY <1>1, <2>1
<1>5. Framed(ids, o, u, f)
  BY DecoderRow
<1> HIDE DEF n, k, a, z, s, m, ids, u, w, o, f
<1>6. /\ w \in Seq(AnyToken) /\ \A q \in 1..s : w[q] = SpreadAt(n, k, Ignored, q)
  <2>1. Ignored \in AnyToken
    BY Specials
  <2> QED
    BY <1>1, <1>3, <2>1, Inserted DEF s
<1>7. u \in Seq(AnyToken) /\ Len(u) = y /\ \A i \in 1..y : u[i] = w[m + i - 1]
  <2>1. m \in Nat /\ m = Mark(n, k, 1) /\ s = SpreadLen(n, k)
    BY <1>4 DEF m, s
  <2>2. u \in Seq(AnyToken) /\ Len(u) = s - m + 1 /\ \A i \in 1..s-m+1 : u[i] = w[m + i - 1]
    <3>1. n \in Nat \ {0} /\ k \in Nat \ {0} /\ Spread(w, n, k, Ignored) /\ Cut(u, w)
          /\ m \in Nat /\ m = Mark(n, k, 1) /\ s \in Nat /\ s = SpreadLen(n, k)
      BY <1>1, <1>3, <1>4, <2>1
    <3>2. CutOf(u, w, m, s)
      BY <3>1, CutIs
    <3> QED
      BY <3>2 DEF CutOf
  <2> QED
    BY <2>2
<1>8. y \in Nat
  BY <1>4
<1> HIDE DEF y
<1>9. /\ o \in Seq(AnyToken) /\ Len(o) = a /\ \A i \in 1..a : o[i] = OpenToken(x, i)
      /\ f \in Seq(AnyToken) /\ Len(f) = z /\ \A i \in 1..z : f[i] = CloseToken(x, i)
  BY <1>2 DEF OpensAs, ClosesAs
<1>10. a \in Nat /\ z \in Nat
  BY <1>2
<1>11. /\ ids \in Seq(AnyToken) /\ Len(ids) = a + y + z
       /\ \A i \in 1..a : ids[i] = o[i]
       /\ \A i \in 1..y : ids[a + i] = u[i]
       /\ \A i \in 1..z : ids[a + y + i] = f[i]
  <2>1. /\ o \in Seq(AnyToken) /\ u \in Seq(AnyToken) /\ f \in Seq(AnyToken) /\ Framed(ids, o, u, f)
        /\ a \in Nat /\ Len(o) = a /\ y \in Nat /\ Len(u) = y /\ z \in Nat /\ Len(f) = z
    BY <1>5, <1>7, <1>8, <1>9, <1>10
  <2>2. FrameOf(ids, o, u, f, a, y, z)
    BY <2>1, FrameIs
  <2> QED
    BY <2>2 DEF FrameOf
<1>12. ASSUME NEW q \in m..s PROVE ids[a + (q - m + 1)] = SpreadAt(n, k, Ignored, q)
  <2> DEFINE i == q - m + 1
  <2>1. i \in 1..y /\ m + i - 1 = q /\ q \in 1..s
    BY <1>4 DEF y
  <2> HIDE DEF i
  <2>2. ids[a + i] = u[i] /\ u[i] = w[m + i - 1]
    BY <1>7, <1>11, <2>1
  <2>3. ids[a + i] = w[q]
    BY <2>1, <2>2
  <2>4. ids[a + i] = SpreadAt(n, k, Ignored, q)
    BY <1>6, <2>1, <2>3
  <2> QED
    BY <2>4 DEF i
<1>13. DecoderTokens(ids, x, a, m, s, z)
  <2>1. s \in Nat \ {0} /\ a = x.prompt + 1 /\ s = SpreadLen(x.cot, input.k)
        /\ m = Mark(x.cot, input.k, 1) /\ z = input.endLen + x.answer + 1 /\ y = s - m + 1
        /\ n = x.cot /\ k = input.k
    BY <1>4 DEF a, s, m, z, y, n, k
  <2>2. a + y + z = a + (s - m + 1) + z /\ \A i \in 1..z : a + (s - m + 1) + i = a + y + i
    BY <2>1
  <2> QED
    BY <1>2, <1>4, <1>9, <1>11, <1>12, <2>1, <2>2 DEF DecoderTokens
<1> QED
  BY <1>13, Zenon DEF ids

(* The encoder's input token by token.                                     *)
LEMMA EncoderTokensAre ==
  ASSUME InputOK, NEW x \in Examples, x.cot # 0, x.marker = "none"
  PROVE  \E a, s : EncoderTokens(CotIds(x), x, a, s)
<1> DEFINE n == x.cot
           k == input.k
           a == x.prompt + 1
           s == SpreadLen(n, k)
           l == input.endLen
           ids == CotIds(x)
           w == Spaced(x, Compress)
           o == Opening(x)
           f == EndThink
<1>1. n \in Nat \ {0} /\ k \in Nat \ {0}
  BY SegmentsMeans
<1>2. a \in Nat \ {0} /\ OpensAs(o, x, a)
  BY CleanEnds
<1>3. Spread(w, n, k, Compress)
  BY TrainTextIs DEF Spread, Spaced
<1>4. s \in Nat \ {0}
  <2>1. CompressCount(n, k) \in Nat \ {0}
    BY <1>1, CountMeans
  <2> QED
    BY <1>1, <2>1 DEF SpreadLen
<1>5. Framed(ids, o, w, f)
  BY Zenon DEF CotIds, EncoderIds, Framed, Opening, Spaced
<1>6. f \in Seq(AnyToken) /\ Len(f) = l /\ \A i \in 1..l : f[i] = <<"/think", i>>
  <2>1. f \in Seq(Plain)
    BY Pieces
  <2> QED
    BY <2>1, Pieces, PlainMeans
<1>7. l \in Nat
  BY DEF InputOK
<1> HIDE DEF n, k, a, s, l, ids, w, o, f
<1>8. /\ w \in Seq(AnyToken) /\ Len(w) = s /\ \A q \in 1..s : w[q] = SpreadAt(n, k, Compress, q)
  <2>1. Compress \in AnyToken
    BY Specials
  <2> QED
    BY <1>1, <1>3, <2>1, Inserted DEF s
<1>9. o \in Seq(AnyToken) /\ Len(o) = a /\ \A i \in 1..a : o[i] = OpenToken(x, i)
  BY <1>2 DEF OpensAs
<1>10. a \in Nat /\ s \in Nat
  BY <1>2, <1>4
<1>11. /\ ids \in Seq(AnyToken) /\ Len(ids) = a + s + l
       /\ \A i \in 1..a : ids[i] = o[i]
       /\ \A i \in 1..s : ids[a + i] = w[i]
       /\ \A i \in 1..l : ids[a + s + i] = f[i]
  BY <1>5, <1>6, <1>7, <1>8, <1>9, <1>10, FramedAt
<1>12. a = x.prompt + 1 /\ s = SpreadLen(x.cot, input.k) /\ n = x.cot /\ k = input.k /\ l = input.endLen
  BY DEF a, s, n, k, l
<1>13. EncoderTokens(ids, x, a, s)
  BY <1>2, <1>4, <1>6, <1>8, <1>9, <1>11, <1>12 DEF EncoderTokens
<1> QED
  BY <1>13, Zenon DEF ids
-----------------------------------------------------------------------------
(* Which token of the reasoning stands between two special tokens.         *)

(* Quotient and remainder are unique.                                      *)
LEMMA DivModIs ==
  ASSUME NEW k \in Nat \ {0}, NEW r \in Nat, NEW d \in 0..k-1, NEW n, n = k * r + d
  PROVE  n \in Nat /\ n \div k = r /\ n % k = d
<1> DEFINE e == n \div k
           f == n % k
<1>0. n \in Nat
  OBVIOUS
<1>1. e \in Nat /\ f \in 0..k-1 /\ n = k * e + f
  BY <1>0, DivMod
<1> HIDE DEF e, f
<1>2. k * e \in Int /\ k * r \in Int
  BY <1>1
<1>3. e < r => k * e + k <= k * r
  BY <1>1, TimesGrows
<1>4. r < e => k * r + k <= k * e
  BY <1>1, TimesGrows
<1> DEFINE x == k * e
           y == k * r
<1>5. x \in Int /\ y \in Int /\ n = x + f /\ n = y + d /\ (e < r => x + k <= y) /\ (r < e => y + k <= x)
  BY <1>1, <1>2, <1>3, <1>4
<1>6. e = r => x = y
  OBVIOUS
<1> HIDE DEF x, y
<1>7. e = r
  BY <1>1, <1>5
<1>8. f = d
  BY <1>1, <1>5, <1>6, <1>7
<1> QED
  BY <1>0, <1>7, <1>8 DEF e, f

\* The q-th token of the spread reasoning is the v-th of the reasoning, the
\* d-th of the segment after r others.
Between(n, k, q, v, r, d) ==
  /\ r \in Nat /\ d \in 1..k /\ q = (k + 1) * r + d /\ v = k * r + d /\ v \in 1..n
  /\ q - (q \div (k + 1)) = v /\ (v - 1) \div k = r

(* It is, where no special token is.                                       *)
LEMMA BetweenMarks ==
  ASSUME NEW n \in Nat \ {0}, NEW k \in Nat \ {0}, NEW q \in 1..SpreadLen(n, k), ~IsMark(n, k, q)
  PROVE  Between(n, k, q, q - (q \div (k + 1)), q \div (k + 1), q % (k + 1))
<1> DEFINE h == k + 1
           r == q \div h
           d == q % h
           v == q - r
<1>1. SpreadLen(n, k) \in Nat
  BY MarkProperties
<1>2. q \in Nat /\ h \in Nat \ {0}
  BY <1>1
<1>3. r \in Nat /\ d \in 0..h-1 /\ q = h * r + d
  <2> HIDE DEF h
  <2> QED
    BY <1>2, DivMod
<1>4. d # 0
  BY DEF IsMark
<1>5. v \in 1..n
  BY MarkProperties
<1> HIDE DEF r, d
<1>6. h * r = k * r + r
  BY <1>3
<1>7. d \in 1..k
  BY <1>3, <1>4
<1> DEFINE y == k * r
<1>8. y \in Nat
  BY <1>3
<1>9. v = y + d
  <2> HIDE DEF y
  <2>1. q = (y + r) + d
    BY <1>3, <1>6 DEF y
  <2> QED
    BY <1>3, <1>7, <1>8, <2>1
<1>10. d - 1 \in 0..k-1 /\ v - 1 = k * r + (d - 1)
  BY <1>7, <1>8, <1>9
<1> HIDE DEF v
<1>11. (v - 1) \div k = r
  BY <1>3, <1>10, DivModIs
<1>12. q = (k + 1) * r + d
  BY <1>3
<1>13. q - (q \div (k + 1)) = v
  BY DEF v, r
<1>14. Between(n, k, q, v, r, d)
  BY <1>3, <1>5, <1>7, <1>9, <1>11, <1>12, <1>13 DEF Between
<1> QED
  BY <1>14 DEF v, r, d

(* Between tokens of two segments there is a special token.                *)
LEMMA SameSegment ==
  ASSUME NEW n \in Nat \ {0}, NEW k \in Nat \ {0}, NEW q, NEW v, NEW r, NEW d, NEW p, NEW w, NEW t, NEW f,
         Between(n, k, q, v, r, d), Between(n, k, p, w, t, f), q <= p,
         \A i \in q..p : ~IsMark(n, k, i)
  PROVE  r = t
<1> DEFINE h == k + 1
           x == h * r
           y == h * t
<1>1. /\ r \in Nat /\ d \in 1..k /\ q = x + d
      /\ t \in Nat /\ f \in 1..k /\ p = y + f
  BY DEF Between
<1>2. x \in Nat /\ y \in Nat
  BY <1>1
<1>3. r < t => x + h <= y
  <2> HIDE DEF h
  <2>1. h \in Nat
    BY DEF h
  <2> QED
    BY <1>1, <2>1, TimesGrows
<1>4. t < r => y + h <= x
  <2> HIDE DEF h
  <2>1. h \in Nat
    BY DEF h
  <2> QED
    BY <1>1, <2>1, TimesGrows
<1>5. IsMark(n, k, y)
  <2>1. h \in Nat \ {0} /\ 0 \in 0..h-1 /\ y = h * t + 0
    BY <1>1, <1>2
  <2>2. y % h = 0
    <3> HIDE DEF h, y
    <3>1. PICK c : c = 0
      OBVIOUS
    <3>2. h \in Nat \ {0} /\ t \in Nat /\ c \in 0..h-1 /\ y = h * t + c
      BY <1>1, <2>1, <3>1
    <3>3. y % h = c
      BY <3>2, DivModIs
    <3> QED
      BY <3>1, <3>3
  <2> QED
    BY <2>2 DEF IsMark
<1> HIDE DEF x, y
<1>6. ~(t < r)
  BY <1>1, <1>2, <1>4
<1>7. ASSUME r < t PROVE FALSE
  <2>1. y \in q..p
    BY <1>1, <1>2, <1>3, <1>7
  <2> QED
    BY <1>5, <2>1
<1> QED
  BY <1>1, <1>6, <1>7
-----------------------------------------------------------------------------
(* The layout of a row of the decoder.                                     *)

(* The tokens outside the reasoning.                                       *)
LEMMA EndTokens ==
  ASSUME InputOK, NEW x \in Examples, NEW i \in Nat
  PROVE  /\ OpenToken(x, i) # Ignored /\ OpenToken(x, i) # Pad /\ OpenToken(x, i) # Compress
         /\ OpenToken(x, i)[1] # "cot" /\ OpenToken(x, i)[1] # "/think" /\ OpenToken(x, i)[1] # "enc"
         /\ CloseToken(x, i) # Ignored /\ CloseToken(x, i) # Compress
         /\ CloseToken(x, i)[1] # "cot" /\ CloseToken(x, i)[1] # "enc"
         /\ i <= input.endLen + x.answer => CloseToken(x, i) # Pad
<1>1. /\ OpenToken(x, i) # Ignored /\ OpenToken(x, i) # Pad /\ OpenToken(x, i) # Compress
      /\ OpenToken(x, i)[1] # "cot" /\ OpenToken(x, i)[1] # "/think" /\ OpenToken(x, i)[1] # "enc"
  BY DEF OpenToken, Ignored, Pad, Compress
<1>2. /\ Eos # Ignored /\ Eos # Compress /\ Eos[1] # "cot" /\ Eos[1] # "enc"
  BY DEF Eos, Ignored, Pad, Compress
<1>3. /\ CloseToken(x, i) # Ignored /\ CloseToken(x, i) # Compress
      /\ CloseToken(x, i)[1] # "cot" /\ CloseToken(x, i)[1] # "enc"
  BY <1>2 DEF CloseToken, Ignored, Compress
<1>4. i <= input.endLen + x.answer => CloseToken(x, i) # Pad
  BY DEF CloseToken, Pad
<1> QED
  BY <1>1, <1>3, <1>4

\* The position of the q-th token of the spread reasoning.
At(a, m, q) == a + (q - m + 1)

\* Such a row, whose end marker is at e and whose length is n.
DecoderIs(ids, x, a, m, s, z, e, n) ==
  DecoderTokens(ids, x, a, m, s, z) /\ e = At(a, m, s) + 1 /\ n = Len(ids)

\* Which part of such a row p is in, and the token there.
PartAt(ids, x, a, m, s, z, e, n, p) ==
  /\ a \in Nat \ {0} /\ s \in Nat \ {0} /\ m \in 1..s /\ z \in Nat \ {0}
  /\ e \in Nat /\ n \in Nat /\ e + z = n + 1 /\ a + 1 < e
  /\ p <= a => p \in 1..a /\ ids[p] = OpenToken(x, p)
  /\ a < p /\ p < e => \E q \in m..s : /\ p = At(a, m, q)
                                       /\ ids[p] = SpreadAt(x.cot, input.k, Ignored, q)
  /\ e <= p => p - e + 1 \in 1..z /\ ids[p] = CloseToken(x, p - e + 1)

(* The tokens of a row of the decoder by their position.                   *)
LEMMA DecoderParts ==
  ASSUME NEW ids, NEW x, NEW a, NEW m, NEW s, NEW z, NEW e, NEW n, DecoderIs(ids, x, a, m, s, z, e, n),
         NEW p \in 1..n
  PROVE  PartAt(ids, x, a, m, s, z, e, n, p)
<1> DEFINE y == s - m + 1
<1>0. DecoderTokens(ids, x, a, m, s, z) /\ e = At(a, m, s) + 1 /\ n = Len(ids)
  BY DEF DecoderIs
<1>1. /\ a \in Nat \ {0} /\ s \in Nat \ {0} /\ m \in 1..s /\ z \in Nat \ {0}
      /\ Len(ids) = a + (s - m + 1) + z
      /\ \A i \in 1..a : ids[i] = OpenToken(x, i)
      /\ \A q \in m..s : ids[a + (q - m + 1)] = SpreadAt(x.cot, input.k, Ignored, q)
      /\ \A i \in 1..z : ids[a + (s - m + 1) + i] = CloseToken(x, i)
  BY <1>0 DEF DecoderTokens
<1>2. /\ y \in Nat \ {0} /\ n = a + y + z /\ e = a + y + 1
      /\ \A i \in 1..z : ids[a + y + i] = CloseToken(x, i)
  BY <1>0, <1>1 DEF At
<1>3. e \in Nat /\ n \in Nat /\ e + z = n + 1 /\ a + 1 < e
  <2>1. a \in Nat \ {0} /\ y \in Nat \ {0} /\ z \in Nat \ {0} /\ n = a + y + z /\ e = a + y + 1
    BY <1>1, <1>2
  <2> HIDE DEF y
  <2> QED
    BY <2>1
<1>4. p <= a => p \in 1..a /\ ids[p] = OpenToken(x, p)
  BY <1>1
<1>5. ASSUME a < p, p < e
      PROVE  \E q \in m..s : p = At(a, m, q) /\ ids[p] = SpreadAt(x.cot, input.k, Ignored, q)
  <2> DEFINE q == p - a + m - 1
  <2>1. q = (p - a) + (m - 1)
    BY <1>1, <1>3
  <2> HIDE DEF q
  <2>2. q \in m..s /\ a + (q - m + 1) = p
    BY <1>1, <1>2, <1>3, <1>5, <2>1
  <2>3. ids[p] = SpreadAt(x.cot, input.k, Ignored, q)
    BY <1>1, <2>2
  <2> QED
    BY <2>2, <2>3 DEF At
<1>6. ASSUME e <= p PROVE p - e + 1 \in 1..z /\ ids[p] = CloseToken(x, p - e + 1)
  <2> DEFINE i == p - e + 1
  <2>0. a \in Nat /\ y \in Nat /\ z \in Nat /\ n = a + y + z /\ e = a + y + 1
    BY <1>1, <1>2
  <2>1. i \in 1..z /\ a + y + i = p
    <3>1. i = p - (a + y)
      BY <1>3, <2>0
    <3> HIDE DEF i, y
    <3> QED
      BY <1>6, <2>0, <3>1
  <2> HIDE DEF i, y
  <2>2. ids[p] = CloseToken(x, i)
    BY <1>2, <2>1
  <2> QED
    BY <2>1, <2>2 DEF i
<1> QED
  BY <1>1, <1>3, <1>4, <1>5, <1>6 DEF PartAt

\* Its parts follow one another.
EndsOf(a, m, s, z, e, n) ==
  /\ a \in Nat \ {0} /\ s \in Nat \ {0} /\ m \in 1..s /\ z \in Nat \ {0}
  /\ e \in Nat /\ n \in Nat /\ e + z = n + 1 /\ a + 1 < e

(* So do the parts of every row of the decoder.                            *)
LEMMA DecoderEnds ==
  ASSUME NEW ids, NEW x, NEW a, NEW m, NEW s, NEW z, NEW e, NEW n, DecoderIs(ids, x, a, m, s, z, e, n)
  PROVE  EndsOf(a, m, s, z, e, n)
<1>1. DecoderTokens(ids, x, a, m, s, z) /\ n = Len(ids)
  BY DEF DecoderIs
<1>2. a \in Nat \ {0} /\ z \in Nat \ {0} /\ m \in 1..s /\ s \in Nat /\ n = a + (s - m + 1) + z
  BY <1>1 DEF DecoderTokens
<1>3. PICK p, y : p = 1 /\ y = s - m + 1
  OBVIOUS
<1>4. y \in Nat /\ n = a + y + z
  BY <1>2, <1>3
<1>5. p \in 1..n
  BY <1>2, <1>3, <1>4
<1>6. PartAt(ids, x, a, m, s, z, e, n, p)
  BY <1>5, DecoderParts, Zenon
<1> QED
  BY <1>6 DEF PartAt, EndsOf

\* The layout: the latents are where special tokens are, between a and e, the
\* first right behind the opening, the last right before the end marker.
DecoderLayout(ids, x, a, m, s, e, n) ==
  /\ Laid(ids, a, e, n) /\ NoPad(ids, n - 1) /\ n \in Nat \ {0}
  /\ \A q \in m..s : At(a, m, q) \in Where(ids, Ignored) <=> IsMark(x.cot, input.k, q)

(* Every row of the decoder has it.                                        *)
LEMMA LayoutOfDecoder ==
  ASSUME InputOK, EndLen, NEW x \in Examples, x.cot # 0,
         NEW ids, NEW a, NEW m, NEW s, NEW z, DecoderTokens(ids, x, a, m, s, z),
         NEW e, e = At(a, m, s) + 1, NEW n, n = Len(ids)
  PROVE  DecoderLayout(ids, x, a, m, s, e, n)
<1> DEFINE W == Where(ids, Ignored)
           t(q) == SpreadAt(x.cot, input.k, Ignored, q)
           mark(q) == IsMark(x.cot, input.k, q)
           l == input.endLen
<1>1. /\ a \in Nat \ {0} /\ s \in Nat \ {0} /\ m \in 1..s /\ z \in Nat \ {0}
      /\ e \in Nat /\ n \in Nat /\ e + z = n + 1 /\ a + 1 < e
  <2>1. DecoderIs(ids, x, a, m, s, z, e, n)
    BY DEF DecoderIs
  <2>2. EndsOf(a, m, s, z, e, n)
    BY <2>1, DecoderEnds, Zenon
  <2> QED
    BY <2>2 DEF EndsOf
<1>2. ASSUME NEW p \in 1..n
      PROVE  /\ p <= a => p \in 1..a /\ ids[p] = OpenToken(x, p)
             /\ a < p /\ p < e => \E q \in m..s : p = At(a, m, q) /\ ids[p] = t(q)
             /\ e <= p => p - e + 1 \in 1..z /\ ids[p] = CloseToken(x, p - e + 1)
  <2>1. DecoderIs(ids, x, a, m, s, z, e, n)
    BY DEF DecoderIs
  <2>2. PartAt(ids, x, a, m, s, z, e, n, p)
    BY <2>1, DecoderParts, Zenon
  <2> QED
    BY <2>2 DEF PartAt
<1>3. /\ \A i \in 1..a : ids[i] = OpenToken(x, i)
      /\ \A q \in m..s : ids[At(a, m, q)] = t(q)
      /\ ids \in Seq(AnyToken) /\ Len(ids) = n /\ DOMAIN ids = 1..n
      /\ z = l + x.answer + 1 /\ s = SpreadLen(x.cot, input.k) /\ m = Mark(x.cot, input.k, 1)
  BY DEF DecoderTokens, At
<1>4. /\ l \in Nat \ {0} /\ x.answer \in Nat /\ x.cot \in Nat \ {0} /\ input.k \in Nat \ {0}
      /\ z = l + x.answer + 1
  BY <1>3 DEF InputOK, Examples
<1> DEFINE h == x.answer
<1>16. l \in Nat \ {0} /\ h \in Nat /\ e + l + h = n /\ 1 <= e
  <2>1. l \in Nat \ {0} /\ h \in Nat /\ z = l + h + 1
    BY <1>4
  <2> HIDE DEF l, h
  <2>2. z = l + h + 1 /\ e + z = n + 1 /\ e \in Nat /\ z \in Nat /\ n \in Nat /\ a \in Nat /\ a + 1 < e
    BY <1>1, <2>1
  <2> QED
    BY <2>1, <2>2
<1>5. ASSUME NEW q PROVE /\ t(q) = Ignored <=> mark(q)
                         /\ t(q) # Pad /\ t(q)[1] # "/think"
  BY DEF SpreadAt, Ignored, Pad
<1>6. \A q \in m..s : At(a, m, q) \in 1..n /\ a < At(a, m, q) /\ At(a, m, q) < e
  BY <1>1 DEF At
<1>7. ASSUME NEW q \in m..s PROVE At(a, m, q) \in W <=> mark(q)
  BY <1>3, <1>5, <1>6 DEF Where
<1>8. ASSUME NEW p \in W PROVE p \in 1..n /\ a < p /\ p < e
  <2>1. p \in 1..n /\ ids[p] = Ignored
    BY <1>3 DEF Where
  <2>2. a < p
    <3>1. ASSUME p <= a PROVE FALSE
      <4>1. ids[p] = OpenToken(x, p) /\ p \in Nat
        BY <1>2, <2>1, <3>1
      <4> QED
        BY <2>1, <4>1, EndTokens
    <3> QED
      BY <1>1, <2>1, <3>1
  <2>3. p < e
    <3>1. ASSUME e <= p PROVE FALSE
      <4>1. ids[p] = CloseToken(x, p - e + 1) /\ p - e + 1 \in Nat
        BY <1>2, <2>1, <3>1
      <4> QED
        BY <2>1, <4>1, EndTokens
    <3> QED
      BY <1>1, <2>1, <3>1
  <2> QED
    BY <2>1, <2>2, <2>3
<1>9. mark(m) /\ mark(s)
  <2> DEFINE c == CompressCount(x.cot, input.k)
  <2>1. c \in Nat \ {0}
    BY <1>4, CountMeans
  <2>2. 1 \in 1..c /\ c \in 1..c
    BY <2>1
  <2>3. Mark(x.cot, input.k, c) = s /\ s \in 1..s
    <3>1. Mark(x.cot, input.k, c) = SpreadLen(x.cot, input.k)
      BY <1>4, MarkProperties
    <3> QED
      BY <1>1, <1>3, <3>1
  <2>4. \A q \in 1..s : mark(q) <=> \E i \in 1..c : q = Mark(x.cot, input.k, i)
    BY <1>3, <1>4, MarkProperties, ZenonT(60)
  <2>5. m \in 1..s /\ m = Mark(x.cot, input.k, 1)
    BY <1>1, <1>3
  <2> HIDE DEF c, mark
  <2> QED
    BY <2>2, <2>3, <2>4, <2>5, Zenon
<1>10. Latents(W, a, e)
  <2>1. At(a, m, m) = a + 1 /\ At(a, m, s) = e - 1 /\ m \in m..s /\ s \in m..s
    BY <1>1 DEF At
  <2>2. a + 1 \in W /\ e - 1 \in W
    <3> HIDE DEF W, mark
    <3> QED
      BY <1>7, <1>9, <2>1
  <2>3. W \in SUBSET Nat /\ \A p \in W : a < p /\ p < e
    <3> HIDE DEF W
    <3> QED
      BY <1>8
  <2> QED
    BY <1>1, <2>2, <2>3 DEF Latents
<1>11. EndMarkerAt(ids) = e
  <2>1. ASSUME NEW i \in Int
        PROVE  i \in Found(ids) <=> i \in 1..n-l+1 /\ \A j \in 1..l : ids[i + j - 1] = <<"/think", j>>
    BY <1>3, FoundMeans
  <2>2. e \in Found(ids)
    <3>1. e \in 1..n-l+1 /\ e \in Int
      <4> HIDE DEF l, h
      <4> QED
        BY <1>1, <1>16, SMTT(30)
    <3>2. ASSUME NEW j \in 1..l PROVE ids[e + j - 1] = <<"/think", j>>
      <4> DEFINE p == e + j - 1
      <4>1. p = e + (j - 1)
        BY <1>1, <1>4
      <4> HIDE DEF p
      <4>2. p \in 1..n /\ e <= p /\ p - e + 1 = j
        <5> HIDE DEF l, h
        <5>1. e \in Nat /\ j \in 1..l /\ l \in Nat /\ e + l <= n /\ n \in Nat /\ 1 <= e
          BY <1>1, <1>16
        <5> QED
          BY <4>1, <5>1
      <4>3. ids[p] = CloseToken(x, j)
        BY <1>2, <4>2
      <4>4. ids[p] = <<"/think", j>>
        BY <4>3 DEF CloseToken
      <4> QED
        BY <4>4 DEF p
    <3> HIDE DEF l
    <3> QED
      BY <2>1, <3>1, <3>2
  <2>3. ASSUME NEW i \in Found(ids) PROVE i \in Int /\ e <= i
    <3>1. i \in Int
      BY DEF Found
    <3>2. i \in 1..n-l+1 /\ \A j \in 1..l : ids[i + j - 1] = <<"/think", j>>
      BY <2>1, <3>1
    <3>3. ids[i] = <<"/think", 1>>
      <4>1. 1 \in 1..l
        BY <1>4
      <4>2. ids[i + 1 - 1] = <<"/think", 1>>
        BY <3>2, <4>1, Zenon
      <4>3. i + 1 - 1 = i
        BY <3>1
      <4> QED
        BY <4>2, <4>3, Zenon
    <3>4. i \in 1..n
      BY <1>1, <1>4, <3>2, SMTT(30)
    <3>5. ASSUME i <= a PROVE FALSE
      <4>1. ids[i] = OpenToken(x, i) /\ i \in Nat
        BY <1>2, <3>4, <3>5
      <4>2. OpenToken(x, i)[1] # "/think"
        BY <4>1, EndTokens
      <4> QED
        BY <3>3, <4>1, <4>2
    <3>6. ASSUME a < i, i < e PROVE FALSE
      <4>1. PICK q \in m..s : ids[i] = t(q)
        BY <1>2, <3>4, <3>6
      <4>2. t(q)[1] # "/think"
        BY <1>5
      <4> HIDE DEF t
      <4> QED
        BY <3>3, <4>1, <4>2
    <3> QED
      BY <1>1, <3>1, <3>5, <3>6
  <2>4. Found(ids) \in SUBSET Int
    BY <2>3
  <2>5. Min(Found(ids)) = e
    BY <2>2, <2>3, <2>4, MinIs
  <2> QED
    BY <2>2, <2>5, SeesMeans
<1>12. ASSUME NEW p \in 1..n-1 PROVE ids[p] # Pad
  <2>1. p \in 1..n /\ p \in Nat
    BY <1>1
  <2>2. CASE p <= a
    <3>1. ids[p] = OpenToken(x, p)
      BY <1>2, <2>1, <2>2
    <3> QED
      BY <2>1, <3>1, EndTokens
  <2>3. CASE a < p /\ p < e
    <3>1. PICK q \in m..s : ids[p] = t(q)
      BY <1>2, <2>1, <2>3
    <3>2. t(q) # Pad
      BY <1>5
    <3> HIDE DEF t
    <3> QED
      BY <3>1, <3>2
  <2>4. CASE e <= p
    <3> DEFINE i == p - e + 1
    <3>1. ids[p] = CloseToken(x, i) /\ i \in 1..z
      BY <1>2, <2>1, <2>4
    <3>2. i \in Nat /\ i <= l + x.answer
      <4>1. i = (p - e) + 1
        BY <1>1
      <4> HIDE DEF l, h, i
      <4>2. i \in Nat /\ i <= l + h
        <5>1. p \in Nat /\ p <= n - 1 /\ e \in Nat /\ n \in Nat /\ e <= p
          BY <1>1, <2>1, <2>4
        <5>2. p - e \in Nat /\ p - e <= (n - 1) - e
          BY <5>1
        <5>3. (n - 1) - e = l + h - 1 /\ l \in Nat /\ h \in Nat
          BY <1>16, <5>1
        <5> QED
          BY <4>1, <5>2, <5>3
      <4> QED
        BY <4>2 DEF h
    <3> HIDE DEF i
    <3> QED
      BY <3>1, <3>2, EndTokens
  <2> QED
    BY <1>1, <2>1, <2>2, <2>3, <2>4
<1>13. e <= n /\ n \in Nat \ {0}
  BY <1>1
<1>14. Laid(ids, a, e, n)
  BY <1>3, <1>10, <1>11, <1>13 DEF Laid
<1>15. NoPad(ids, n - 1)
  BY <1>12 DEF NoPad
<1> QED
  BY <1>7, <1>13, <1>14, <1>15 DEF DecoderLayout

\* At p is the q-th token of the spread reasoning, the d-th of the segment
\* after r others and the v-th of them all.
SpacerAt(ids, x, a, m, p, q, v, r, d) ==
  /\ p = At(a, m, q) /\ ~IsMark(x.cot, input.k, q)
  /\ Between(x.cot, input.k, q, v, r, d) /\ ids[p] = <<"cot", v>>

(* A token of the reasoning in the decoder.                                *)
LEMMA SpacerMeans ==
  ASSUME InputOK, NEW x \in Examples, x.cot # 0,
         NEW ids, NEW a, NEW m, NEW s, NEW z, DecoderTokens(ids, x, a, m, s, z),
         NEW e, NEW n, DecoderLayout(ids, x, a, m, s, e, n), e = At(a, m, s) + 1, n = Len(ids),
         NEW p \in 1..n, a < p, p < e, p \notin Where(ids, Ignored)
  PROVE  \E q \in m..s : \E v, r, d : SpacerAt(ids, x, a, m, p, q, v, r, d)
<1> DEFINE c == x.cot
           k == input.k
<1>1. PICK q \in m..s : p = At(a, m, q) /\ ids[p] = SpreadAt(c, k, Ignored, q)
  <2>1. DecoderIs(ids, x, a, m, s, z, e, n)
    BY DEF DecoderIs
  <2>2. PartAt(ids, x, a, m, s, z, e, n, p)
    BY <2>1, DecoderParts, Zenon
  <2> QED
    BY <2>2 DEF PartAt
<1>2. ~IsMark(c, k, q)
  BY <1>1 DEF DecoderLayout
<1>3. c \in Nat \ {0} /\ k \in Nat \ {0} /\ q \in 1..SpreadLen(c, k)
  <2>1. c \in Nat \ {0} /\ k \in Nat \ {0} /\ m \in 1..s /\ s = SpreadLen(c, k) /\ s \in Nat
    BY DEF Examples, InputOK, DecoderTokens
  <2> QED
    BY <2>1
<1> DEFINE v == q - (q \div (k + 1))
<1> HIDE DEF c, k
<1>4. Between(c, k, q, v, q \div (k + 1), q % (k + 1))
  BY <1>2, <1>3, BetweenMarks
<1>5. ids[p] = <<"cot", v>>
  BY <1>1, <1>2 DEF SpreadAt
<1>6. SpacerAt(ids, x, a, m, p, q, v, q \div (k + 1), q % (k + 1))
  BY <1>1, <1>2, <1>4, <1>5, Zenon DEF SpacerAt, c, k
<1> QED
  BY <1>6, Zenon

(* What a label depends on in the decoder has tokens of its segment alone. *)
LEMMA OwnSegmentOnly ==
  ASSUME InputOK, NEW x \in Examples, x.cot # 0,
         NEW ids, NEW a, NEW m, NEW s, NEW z, DecoderTokens(ids, x, a, m, s, z),
         NEW e, NEW n, DecoderLayout(ids, x, a, m, s, e, n), e = At(a, m, s) + 1, n = Len(ids),
         NEW i \in 1..n-1, NEW p, p = i + 1, a < p, ids[p] # Ignored,
         NEW j \in 1..n-1, Depends(Where(ids, Ignored), a, i, j), ids[j][1] = "cot"
  PROVE  ids[p][1] = "cot" /\ (ids[j][2] - 1) \div input.k = (ids[p][2] - 1) \div input.k
<1> DEFINE W == Where(ids, Ignored)
<1>1. /\ n \in Nat /\ ids \in Seq(AnyToken) /\ DOMAIN ids = 1..n
      /\ Latents(W, a, e)
  BY DEF DecoderLayout, Laid
<1>2. p \in 1..n /\ j \in 1..n /\ i \in Nat /\ j \in Nat /\ a \in Nat /\ e \in Nat /\ e - 1 \in W
  BY <1>1 DEF Latents
<1>3. p \notin W
  BY DEF Where
<1>4. j \notin W
  BY DEF Where, Ignored
<1>0. PartAt(ids, x, a, m, s, z, e, n, j)
  <2>1. DecoderIs(ids, x, a, m, s, z, e, n)
    BY DEF DecoderIs
  <2> QED
    BY <1>2, <2>1, DecoderParts, Zenon
<1>5. a < j /\ j < e
  <2>1. ASSUME j <= a PROVE FALSE
    <3>1. ids[j] = OpenToken(x, j)
      BY <1>0, <2>1 DEF PartAt
    <3>2. OpenToken(x, j)[1] # "cot"
      BY <1>2, EndTokens
    <3> QED
      BY <3>1, <3>2
  <2>2. ASSUME e <= j PROVE FALSE
    <3>1. ids[j] = CloseToken(x, j - e + 1) /\ j - e + 1 \in Nat
      <4>1. j - e + 1 \in 1..z /\ ids[j] = CloseToken(x, j - e + 1)
        BY <1>0, <2>2 DEF PartAt
      <4> QED
        BY <4>1
    <3>2. CloseToken(x, j - e + 1)[1] # "cot"
      BY <3>1, EndTokens
    <3> QED
      BY <3>1, <3>2
  <2> QED
    BY <1>2, <2>1, <2>2
<1>6. j <= i /\ NoneAfter(W, j, i)
  BY <1>2, <1>4, <1>5 DEF Depends
<1>7. p < e
  <2>1. ASSUME e <= p PROVE FALSE
    <3>1. ~(j < e - 1 /\ e - 1 <= i)
      BY <1>2, <1>6 DEF NoneAfter
    <3>2. j = e - 1
      BY <1>2, <1>5, <2>1, <3>1
    <3> QED
      BY <1>2, <1>4, <3>2
  <2> QED
    BY <1>2, <2>1
<1>8. PICK q \in m..s : \E v, r, d : SpacerAt(ids, x, a, m, p, q, v, r, d)
  <2>1. p \in 1..n /\ a < p /\ p < e /\ p \notin Where(ids, Ignored)
    BY <1>2, <1>3, <1>7
  <2> QED
    BY <2>1, SpacerMeans
<1>9. PICK v, r, d : SpacerAt(ids, x, a, m, p, q, v, r, d)
  BY <1>8
<1>10. PICK h \in m..s : \E w, t, f : SpacerAt(ids, x, a, m, j, h, w, t, f)
  <2>1. j \in 1..n /\ a < j /\ j < e /\ j \notin Where(ids, Ignored)
    BY <1>2, <1>4, <1>5
  <2> QED
    BY <2>1, SpacerMeans
<1>11. PICK w, t, f : SpacerAt(ids, x, a, m, j, h, w, t, f)
  BY <1>10
<1>12. m \in Nat /\ s \in Nat
  BY DEF DecoderTokens
<1>13. h <= q
  <2>1. a + (h - m + 1) = j /\ a + (q - m + 1) = i + 1
    BY <1>9, <1>11 DEF SpacerAt, At
  <2>2. a \in Nat /\ j \in Int /\ i \in Int /\ j <= i /\ h \in Int /\ q \in Int
    <3>1. a \in Nat /\ n \in Nat /\ i \in 1..n /\ j \in 1..n
      BY <1>2, <1>4, <1>5
    <3> QED
      BY <1>6, <1>12, <3>1
  <2>3. m \in Nat
    BY <1>12
  <2>4. h - m + 1 <= q - m
    BY <2>1, <2>2, <2>3
  <2> QED
    BY <2>2, <2>3, <2>4
<1>14. ASSUME NEW g \in h..q PROVE ~IsMark(x.cot, input.k, g)
  <2>1. CASE g = h \/ g = q
    BY <1>9, <1>11, <2>1 DEF SpacerAt
  <2>2. CASE g # h /\ g # q
    <3>1. g \in m..s
      BY <1>12
    <3> DEFINE y == At(a, m, g)
    <3>2. y = a + (g - m + 1) /\ a + (h - m + 1) = j /\ a + (q - m + 1) = i + 1
      BY <1>9, <1>11 DEF SpacerAt, At
    <3> HIDE DEF y
    <3>3. j < y /\ y <= i
      BY <1>2, <1>12, <2>2, <3>2
    <3>4. y \notin W
      BY <1>6, <3>3 DEF NoneAfter
    <3> QED
      BY <3>1, <3>4 DEF DecoderLayout, y
  <2> QED
    BY <2>1, <2>2
<1>15. x.cot \in Nat \ {0} /\ input.k \in Nat \ {0}
  BY DEF Examples, InputOK
<1>16. /\ Between(x.cot, input.k, q, v, r, d) /\ ids[p] = <<"cot", v>>
       /\ Between(x.cot, input.k, h, w, t, f) /\ ids[j] = <<"cot", w>>
  BY <1>9, <1>11 DEF SpacerAt
<1>17. t = r
  BY <1>13, <1>14, <1>15, <1>16, SameSegment
<1>18. (v - 1) \div input.k = r /\ (w - 1) \div input.k = t
  BY <1>16 DEF Between
<1>19. ids[p][1] = "cot" /\ ids[p][2] = v /\ ids[j][2] = w
  BY <1>16
<1> QED
  BY <1>17, <1>18, <1>19, Zenon

\* The labels of a row of n tokens, a of them before the reasoning.
LabelsOf(lab, ids, a, n) ==
  /\ lab \in Seq(AnyToken) /\ Len(lab) = n
  /\ \A i \in 1..n : lab[i] = IF i <= a THEN Ignored ELSE ids[i]

(* The label of a position is its token, after the opening.                *)
LEMMA LabelsAre ==
  ASSUME InputOK, NEW x \in Examples, x.cot # 0, NEW a, a = Len(Opening(x)),
         NEW n, n = Len(DecoderIds(x))
  PROVE  LabelsOf(Stage1Features(x).labels, DecoderIds(x), a, n)
<1> DEFINE u == DecoderIds(x)
           o == Opening(x)
           t == Spacers(x) \o Closing(x)
           l == Stage1Features(x).labels
           r == (Spacers(x) \o EndThink) \o SuffixIds(x)
<1>1. u \in Seq(AnyToken) /\ Spacers(x) \in Seq(AnyToken) /\ u = o \o t
  BY DecoderRow
<1>2. o \in Seq(AnyToken) /\ Closing(x) \in Seq(AnyToken)
  BY Sides, PlainMeans
<1>3. EndThink \in Seq(AnyToken) /\ SuffixIds(x) \in Seq(AnyToken)
  BY Pieces, PlainMeans
<1>4. r = t
  <2> DEFINE A == Spacers(x)
             B == EndThink
             C == SuffixIds(x)
  <2>1. A \in Seq(AnyToken) /\ B \in Seq(AnyToken) /\ C \in Seq(AnyToken)
    BY <1>1, <1>3
  <2> HIDE DEF A, B, C
  <2>2. (A \o B) \o C = A \o (B \o C)
    BY <2>1, ConcatAssociative, SMTT(20)
  <2> QED
    BY <2>2, Zenon DEF Closing, A, B, C
<1>5. l = Fill(Ignored, Len(u) - Len(r)) \o r
  BY Zenon DEF Stage1Features, DecoderIds, Spacers, Spaced
<1>6. t \in Seq(AnyToken)
  BY <1>1, <1>2, ConcatProperties
<1>7. a = Len(o) /\ n = Len(u)
  OBVIOUS
<1> HIDE DEF u, o, t, l, r
<1> DEFINE y == Len(t)
           f == Fill(Ignored, Len(u) - Len(r))
<1>8. a \in Nat /\ y \in Nat /\ Len(o) = a /\ Len(t) = y
  BY <1>2, <1>6, <1>7, LenProperties
<1> HIDE DEF y
<1>9. JoinOf(u, o, t, a, y, AnyToken)
  <2>1. Joins(u, o, t)
    BY <1>1 DEF Joins
  <2> QED
    BY <1>2, <1>6, <1>8, <2>1, Concatenation
<1>10. Len(u) - Len(r) = a
  <2>1. Len(u) = a + y
    BY <1>9 DEF JoinOf
  <2> QED
    BY <1>4, <1>8, <2>1
<1>11. f \in Seq(AnyToken) /\ Len(f) = a /\ \A i \in 1..a : f[i] = Ignored
  <2>1. f = Fill(Ignored, a)
    BY <1>10, Zenon
  <2> HIDE DEF f
  <2> QED
    BY <1>8, <2>1, FillProperties, Specials
<1>12. JoinOf(l, f, t, a, y, AnyToken)
  <2>1. Joins(l, f, t)
    BY <1>4, <1>5, Zenon DEF Joins
  <2> HIDE DEF f
  <2> QED
    BY <1>6, <1>8, <1>11, <2>1, Concatenation
<1> HIDE DEF f
<1>13. /\ l \in Seq(AnyToken) /\ Len(l) = a + y /\ n = a + y
       /\ \A i \in 1..a+y : /\ l[i] = IF i <= a THEN f[i] ELSE t[i - a]
                            /\ u[i] = IF i <= a THEN o[i] ELSE t[i - a]
  BY <1>7, <1>9, <1>12 DEF JoinOf
<1>14. ASSUME NEW i \in 1..n PROVE l[i] = IF i <= a THEN Ignored ELSE u[i]
  <2>1. i \in 1..a+y /\ (i <= a => i \in 1..a)
    BY <1>8, <1>13
  <2>2. CASE i <= a
    BY <1>11, <1>13, <2>1, <2>2
  <2>3. CASE ~(i <= a)
    BY <1>13, <2>1, <2>3
  <2> QED
    BY <2>2, <2>3
<1> QED
  BY <1>13, <1>14 DEF LabelsOf, u, l

(* In a batch, the labels behind the row are ignored.                      *)
LEMMA LabelRow ==
  ASSUME input \in Batches, NoneEmpty, NEW b \in Rows,
         NEW ids, ids = DecoderIds(input.examples[b]), NEW n, n = Len(ids),
         NEW a, a = Len(Opening(input.examples[b])),
         NEW lab, lab = RightPad(LabelRows, Ignored)[b]
  PROVE  /\ n \in Nat /\ MaxLen(DecoderRows) \in Nat /\ n <= MaxLen(DecoderRows)
         /\ lab \in Seq(AnyToken) /\ Len(lab) = MaxLen(DecoderRows)
         /\ \A i \in 1..MaxLen(DecoderRows) :
              lab[i] = IF i <= a \/ n < i THEN Ignored ELSE ids[i]
<1> DEFINE c == Len(input.examples)
           x == input.examples[b]
           s == LabelRows[b]
           q == MaxLen(DecoderRows)
           m == q - n
           f == Fill(Ignored, m)
<1>1. InputOK /\ Rows = 1..c /\ x \in Examples /\ x.cot # 0 /\ c \in Nat \ {0}
  BY Inputs DEF NoneEmpty, InputOK
<1>2. /\ Family(LabelRows, c, AnyToken) /\ Family(DecoderRows, c, AnyToken) /\ Ignored \in AnyToken
      /\ \A i \in Rows : Len(LabelRows[i]) = Len(DecoderRows[i])
  BY DecoderFamily, Specials
<1>3. MaxLen(LabelRows) = q
  <2>1. DOMAIN LabelRows = 1..c /\ DOMAIN DecoderRows = 1..c /\ \A i \in 1..c : Len(LabelRows[i]) = Len(DecoderRows[i])
    BY <1>1, <1>2 DEF Family
  <2> QED
    BY <2>1, MaxLenSame
<1>4. LabelsOf(s, ids, a, n)
  <2>1. s = Stage1Features(x).labels
    BY DEF LabelRows
  <2> QED
    BY <1>1, <2>1, LabelsAre
<1>5. /\ Joins(lab, s, Fill(Ignored, MaxLen(LabelRows) - Len(s)))
      /\ MaxLen(LabelRows) - Len(s) \in Nat /\ MaxLen(LabelRows) \in Nat
  <2>1. b \in 1..c
    BY <1>1
  <2> HIDE DEF c
  <2> QED
    BY <1>1, <1>2, <2>1, RightPadRow
<1>6. s \in Seq(AnyToken) /\ Len(s) = n /\ n \in Nat
  BY <1>4, LenProperties DEF LabelsOf
<1> HIDE DEF c, x, s, q
<1>7. m \in Nat /\ q \in Nat /\ q = n + m /\ Joins(lab, s, f)
  <2>1. MaxLen(LabelRows) - Len(s) = m
    BY <1>3, <1>6
  <2>2. m \in Nat /\ q \in Nat
    BY <1>3, <1>5, <2>1, Zenon
  <2>3. Joins(lab, s, f)
    BY <1>5, <2>1, Zenon
  <2> QED
    BY <1>6, <2>2, <2>3
<1> HIDE DEF m
<1>8. f \in Seq(AnyToken) /\ Len(f) = m /\ \A i \in 1..m : f[i] = Ignored
  BY <1>7, FillProperties, Specials
<1> HIDE DEF f
<1>9. JoinOf(lab, s, f, n, m, AnyToken)
  BY <1>6, <1>7, <1>8, Concatenation
<1>10. /\ lab \in Seq(AnyToken) /\ Len(lab) = q
       /\ \A i \in 1..q : lab[i] = IF i <= n THEN s[i] ELSE f[i - n]
  BY <1>7, <1>9 DEF JoinOf
<1>11. ASSUME NEW i \in 1..q PROVE lab[i] = IF i <= a \/ n < i THEN Ignored ELSE ids[i]
  <2>1. CASE n < i
    <3>1. i - n \in 1..m /\ ~(i <= n)
      BY <1>6, <1>7, <2>1
    <3> QED
      BY <1>8, <1>10, <2>1, <3>1
  <2>2. CASE ~(n < i)
    <3>1. i \in 1..n /\ i <= n
      BY <1>6, <2>2
    <3> QED
      BY <1>4, <1>10, <2>2, <3>1 DEF LabelsOf
  <2> QED
    BY <2>1, <2>2
<1>12. n <= q
  BY <1>6, <1>7
<1> QED
  BY <1>6, <1>7, <1>10, <1>11, <1>12 DEF q
-----------------------------------------------------------------------------
(* The batch of stage 1 while the text does not quote the end marker.      *)

\* Row b of the batch: x its example, ids its n tokens, a before the reasoning
\* and the end marker at e, in rows of q tokens.
RowOf(b, x, ids, a, m, s, z, e, n, q) ==
  /\ x = input.examples[b] /\ x \in Examples /\ x.cot # 0 /\ x.marker = "none"
  /\ ids = DecoderIds(x) /\ DecoderTokens(ids, x, a, m, s, z)
  /\ e = At(a, m, s) + 1 /\ n = Len(ids) /\ DecoderLayout(ids, x, a, m, s, e, n)
  /\ q = MaxLen(DecoderRows) /\ q \in Nat /\ n <= q /\ a = Len(Opening(x))

(* Every row is one.                                                       *)
LEMMA RowIs ==
  ASSUME input \in Batches, NoneEmpty, NEW b \in Rows, input.examples[b].marker = "none"
  PROVE  \E x, ids, a, m, s, z, e, n, q : RowOf(b, x, ids, a, m, s, z, e, n, q)
<1> DEFINE x == input.examples[b]
           ids == DecoderIds(x)
           q == MaxLen(DecoderRows)
<1>1. InputOK /\ EndLen /\ x \in Examples /\ x.cot # 0 /\ x.marker = "none"
  BY Inputs DEF NoneEmpty
<1>2. /\ Len(ids) \in Nat /\ q \in Nat /\ Len(ids) <= q
  <2>1. PICK d, lab : d = Len(Opening(x)) /\ lab = RightPad(LabelRows, Ignored)[b]
    OBVIOUS
  <2>2. PICK u, n : u = ids /\ n = Len(u)
    OBVIOUS
  <2>3. u = DecoderIds(input.examples[b]) /\ d = Len(Opening(input.examples[b]))
    BY <2>1, <2>2
  <2>4. n \in Nat /\ MaxLen(DecoderRows) \in Nat /\ n <= MaxLen(DecoderRows)
    BY <2>1, <2>2, <2>3, LabelRow
  <2> QED
    BY <2>2, <2>4, Zenon
<1> HIDE DEF x, ids, q
<1>3. PICK a, m, s, z : DecoderTokens(ids, x, a, m, s, z)
  <2>1. \E a, m, s, z : DecoderTokens(DecoderIds(x), x, a, m, s, z)
    BY <1>1, DecoderTokensAre
  <2> QED
    BY <2>1, Zenon DEF ids
<1>4. PICK e, n : e = At(a, m, s) + 1 /\ n = Len(ids)
  OBVIOUS
<1>5. DecoderLayout(ids, x, a, m, s, e, n)
  BY <1>1, <1>3, <1>4, LayoutOfDecoder
<1>6. a = Len(Opening(x))
  <2>1. OpensAs(Opening(x), x, x.prompt + 1)
    BY <1>1, CleanEnds
  <2> QED
    BY <1>3, <2>1 DEF OpensAs, DecoderTokens
<1>7. n <= q
  BY <1>2, <1>4
<1>8. RowOf(b, x, ids, a, m, s, z, e, n, q)
  BY <1>1, <1>2, <1>3, <1>4, <1>5, <1>6, <1>7, Zenon DEF RowOf, x, ids, q
<1> QED
  BY <1>8, Zenon

\* A padded row, its mask and its labels.
RowPadded(p, lab, ids, a, n, q) ==
  /\ p \in Seq(AnyToken) /\ Len(p) = q /\ (\A i \in 1..n : p[i] = ids[i])
  /\ (\A i \in 1..q : n < i => p[i] = Pad)
  /\ Where(p, Ignored) = Where(ids, Ignored)
  /\ SupervisionMask(p) = SupervisionMask(ids)
  /\ Len(lab) = q /\ \A i \in 1..q : lab[i] = IF i <= a \/ n < i THEN Ignored ELSE ids[i]

(* What the collator makes of a row.                                       *)
LEMMA RowCollated ==
  ASSUME input \in Batches, NoneEmpty, batch = Batch1, NEW b \in Rows,
         NEW x, NEW ids, NEW a, NEW m, NEW s, NEW z, NEW e, NEW n, NEW q,
         RowOf(b, x, ids, a, m, s, z, e, n, q)
  PROVE  RowPadded(batch.input_ids[b], batch.labels[b], ids, a, n, q)
<1> DEFINE p == RightPad(DecoderRows, Pad)[b]
           lab == RightPad(LabelRows, Ignored)[b]
           c == Len(input.examples)
           d == q - n
<1>1. batch.input_ids[b] = p /\ batch.labels[b] = lab
  BY Batch1Is
<1>2. /\ x = input.examples[b] /\ ids = DecoderIds(x) /\ n = Len(ids) /\ q = MaxLen(DecoderRows)
      /\ a = Len(Opening(x)) /\ q \in Nat /\ n <= q
  BY DEF RowOf
<1>3. n \in Nat /\ Len(lab) = q /\ \A i \in 1..q : lab[i] = IF i <= a \/ n < i THEN Ignored ELSE ids[i]
  BY <1>2, LabelRow
<1>4. SupervisionMask(p) = SupervisionMask(ids)
  <2>1. SupervisionMask(p) = SupervisionMask(DecoderRows[b])
    BY DecoderPadded
  <2> QED
    BY <1>2, <2>1, Zenon DEF DecoderRows
<1>5. Rows = 1..c /\ c \in Nat \ {0} /\ Family(DecoderRows, c, AnyToken) /\ Pad \in AnyToken
  BY Inputs, DecoderFamily, Specials DEF InputOK
<1>6. DecoderRows[b] = ids
  BY <1>2 DEF DecoderRows
<1>7. Joins(p, ids, Fill(Pad, d)) /\ ids \in Seq(AnyToken)
  <2>1. b \in 1..c
    BY <1>5
  <2> HIDE DEF c
  <2>2. Joins(p, DecoderRows[b], Fill(Pad, MaxLen(DecoderRows) - Len(DecoderRows[b])))
    BY <1>5, <2>1, RightPadRow
  <2>3. DecoderRows[b] \in Seq(AnyToken)
    BY <1>5, <2>1 DEF Family
  <2> QED
    BY <1>2, <1>6, <2>2, <2>3, Zenon
<1>8. d \in Nat /\ n + d = q
  BY <1>2, <1>3
<1> HIDE DEF p, lab, c, d
<1>9. Padded(p, ids, d)
  BY <1>7 DEF Padded, Joins
<1>10. /\ p \in Seq(AnyToken) /\ Len(p) = Len(ids) + d
       /\ \A i \in 1..Len(ids) : p[i] = ids[i]
       /\ \A i \in 1..Len(ids) + d : i > Len(ids) => p[i] = Pad
  BY <1>7, <1>8, <1>9, PaddedProperties
<1>11. Where(p, Ignored) = Where(ids, Ignored)
  BY <1>7, <1>8, <1>9, WherePadded, Specials
<1>12. /\ p \in Seq(AnyToken) /\ Len(p) = q
       /\ \A i \in 1..n : p[i] = ids[i]
       /\ \A i \in 1..q : n < i => p[i] = Pad
  BY <1>2, <1>3, <1>8, <1>10
<1>13. RowPadded(p, lab, ids, a, n, q)
  BY <1>3, <1>4, <1>11, <1>12 DEF RowPadded
<1> QED
  BY <1>1, <1>13, Zenon

\* The text that is not refused does not quote the end marker.
CleanText ==
  \A b \in Batches : b.family # "deepseek" =>
    \A e \in DOMAIN b.examples : b.examples[e].marker = "none"

(* Then no row of a batch that is taken does.                              *)
LEMMA CleanRows ==
  ASSUME CleanText, input \in Batches, ~SomeRefused, NEW b \in Rows
  PROVE  input.examples[b].marker = "none"
<1>1. CASE input.family = "deepseek"
  BY <1>1 DEF SomeRefused, Refused
<1>2. CASE input.family # "deepseek"
  <2>1. b \in DOMAIN input.examples
    BY Inputs DEF Rows, InputOK
  <2> QED
    BY <1>2, <2>1 DEF CleanText
<1> QED
  BY <1>1, <1>2

(* Reasoning text reaches other segments and the answer through the latents *)
(* alone: a label depends in the decoder on spacers of its own segment      *)
(* only, whatever the batch, the segment length and the texts, as long as   *)
(* no text that is taken quotes the end marker.                            *)
THEOREM LatentsCarryAll == CleanText => (Spec => []OnlyThroughLatents)
<1>1. ASSUME CleanText, IInv, pc = "trained", NEW b \in Rows,
             NEW i \in 1..Len(batch.labels[b]) - 1, batch.labels[b][i + 1] # Ignored,
             NEW j \in Reach(SupervisionMask(batch.input_ids[b]), Len(batch.input_ids[b]))[i],
             batch.input_ids[b][j][1] = "cot"
      PROVE  /\ batch.labels[b][i + 1][1] = "cot"
             /\ (batch.input_ids[b][j][2] - 1) \div input.k
                  = (batch.labels[b][i + 1][2] - 1) \div input.k
  <2> DEFINE p == batch.input_ids[b]
             lab == batch.labels[b]
  <2>1. input \in Batches /\ ~SomeRefused /\ batch = Batch1 /\ NoneEmpty
    <3>1. input \in Batches /\ ~SomeRefused /\ batch = Batch1
      BY <1>1 DEF IInv
    <3> QED
      BY <3>1, TakenMeans
  <2>2. InputOK /\ input.examples[b].marker = "none"
    BY <1>1, <2>1, Inputs, CleanRows
  <2>3. PICK x, ids, a, m, s, z, e, n, q : RowOf(b, x, ids, a, m, s, z, e, n, q)
    BY <2>1, <2>2, RowIs
  <2>4. RowPadded(p, lab, ids, a, n, q)
    BY <2>1, <2>3, RowCollated
  <2> HIDE DEF p, lab
  <2>5. /\ x \in Examples /\ x.cot # 0 /\ DecoderTokens(ids, x, a, m, s, z)
        /\ e = At(a, m, s) + 1 /\ n = Len(ids) /\ DecoderLayout(ids, x, a, m, s, e, n)
        /\ q \in Nat /\ n <= q
    BY <2>3 DEF RowOf
  <2>6. /\ Len(p) = q /\ (\A h \in 1..n : p[h] = ids[h])
        /\ SupervisionMask(p) = SupervisionMask(ids)
        /\ Len(lab) = q /\ \A h \in 1..q : lab[h] = IF h <= a \/ n < h THEN Ignored ELSE ids[h]
    BY <2>4 DEF RowPadded
  <2>7. /\ Laid(ids, a, e, n) /\ NoPad(ids, n - 1) /\ n \in Nat \ {0} /\ a \in Nat
    BY <2>5 DEF DecoderLayout, DecoderTokens
  <2>8. i \in 1..q-1 /\ lab[i + 1] # Ignored
    BY <1>1, <2>6, Zenon DEF lab
  <2>9. i + 1 \in 1..q
    BY <2>5, <2>8
  <2>10. a < i + 1 /\ i + 1 <= n /\ lab[i + 1] = ids[i + 1]
    <3>1. ~(i + 1 <= a \/ n < i + 1) /\ lab[i + 1] = ids[i + 1]
      BY <2>6, <2>8, <2>9
    <3> QED
      BY <2>7, <2>8, <3>1
  <2>11. i \in 1..n-1 /\ n - 1 \in 0..n
    BY <2>7, <2>8, <2>10
  <2>12. j \in Reach(SupervisionMask(ids), q)[i]
    <3>1. j \in Reach(SupervisionMask(p), Len(p))[i]
      BY <1>1 DEF p
    <3> QED
      BY <2>6, <3>1, Zenon
  <2>13. j \in 1..n-1 /\ Depends(Where(ids, Ignored), a, i, j)
    <3>1. PICK h : h = n - 1
      OBVIOUS
    <3>2. h \in 0..n /\ NoPad(ids, h) /\ i \in 1..h /\ n \in Nat
      BY <2>7, <2>11, <3>1
    <3>4. Laid(ids, a, e, n) /\ q \in Nat /\ n <= q /\ j \in Reach(SupervisionMask(ids), q)[i]
      BY <2>5, <2>7, <2>12
    <3>3. j \in 1..h /\ Depends(Where(ids, Ignored), a, i, j)
      BY <3>2, <3>4, DecoderReaches
    <3> QED
      BY <3>1, <3>3
  <2>14. p[j] = ids[j] /\ ids[j][1] = "cot"
    <3>1. j \in 1..n
      BY <2>7, <2>13
    <3> QED
      BY <1>1, <2>6, <3>1 DEF p
  <2>15. /\ ids[i + 1][1] = "cot"
         /\ (ids[j][2] - 1) \div input.k = (ids[i + 1][2] - 1) \div input.k
    <3>1. PICK g : g = i + 1
      OBVIOUS
    <3>2. a < g /\ ids[g] # Ignored
      BY <2>8, <2>10, <3>1
    <3>3. /\ InputOK /\ x \in Examples /\ x.cot # 0 /\ DecoderTokens(ids, x, a, m, s, z)
          /\ DecoderLayout(ids, x, a, m, s, e, n) /\ e = At(a, m, s) + 1 /\ n = Len(ids)
          /\ i \in 1..n-1 /\ g = i + 1 /\ a < g /\ ids[g] # Ignored
          /\ j \in 1..n-1 /\ Depends(Where(ids, Ignored), a, i, j) /\ ids[j][1] = "cot"
      BY <2>2, <2>5, <2>11, <2>13, <2>14, <3>1, <3>2
    <3>4. ids[g][1] = "cot" /\ (ids[j][2] - 1) \div input.k = (ids[g][2] - 1) \div input.k
      BY <3>3, OwnSegmentOnly
    <3> QED
      BY <3>1, <3>4, Zenon
  <2> QED
    BY <2>10, <2>14, <2>15, Zenon DEF p, lab
<1>2. CleanText /\ IInv => OnlyThroughLatents
  BY <1>1, Zenon DEF OnlyThroughLatents
<1> SUFFICES ASSUME CleanText PROVE Spec => []OnlyThroughLatents
  OBVIOUS
<1>3. IInv => OnlyThroughLatents
  BY <1>2
<1> QED
  BY <1>3, BatchOfItsInput, PTL
-----------------------------------------------------------------------------
(* The reasoning keeps its order between the special tokens.               *)

(* Tokens of the reasoning are in the order of their positions.            *)
LEMMA SpreadOrder ==
  ASSUME NEW n \in Nat \ {0}, NEW k \in Nat \ {0},
         NEW q, NEW v, NEW r, NEW d, Between(n, k, q, v, r, d),
         NEW p, NEW w, NEW t, NEW f, Between(n, k, p, w, t, f)
  PROVE  q \in Nat /\ p \in Nat /\ v \in 1..n /\ w \in 1..n /\ (p < q <=> w < v)
<1> DEFINE h == k + 1
           x == h * r
           y == h * t
           a == k * r
           b == k * t
<1>1. /\ r \in Nat /\ d \in 1..k /\ q = x + d /\ v = a + d /\ v \in 1..n
      /\ t \in Nat /\ f \in 1..k /\ p = y + f /\ w = b + f /\ w \in 1..n
  BY DEF Between
<1>2. x \in Nat /\ y \in Nat /\ a \in Nat /\ b \in Nat
  BY <1>1
<1>3. /\ r < t => x + h <= y /\ a + k <= b
      /\ t < r => y + h <= x /\ b + k <= a
  <2>0. h \in Nat
    BY DEF h
  <2>1. r < t => a + k <= b
    BY <1>1, TimesGrows
  <2>2. t < r => b + k <= a
    BY <1>1, TimesGrows
  <2> HIDE DEF h
  <2>3. r < t => x + h <= y
    BY <1>1, <2>0, TimesGrows
  <2>4. t < r => y + h <= x
    BY <1>1, <2>0, TimesGrows
  <2> QED
    BY <2>1, <2>2, <2>3, <2>4
<1>4. r = t => x = y /\ a = b
  OBVIOUS
<1>5. h = k + 1
  OBVIOUS
<1> HIDE DEF x, y, a, b, h
<1>6. CASE r = t
  BY <1>1, <1>2, <1>4, <1>6
<1>7. CASE r < t
  BY <1>1, <1>2, <1>3, <1>5, <1>7
<1>8. CASE t < r
  BY <1>1, <1>2, <1>3, <1>5, <1>8
<1> QED
  BY <1>1, <1>6, <1>7, <1>8

(* Every token of the reasoning is there.                                  *)
LEMMA SpreadOnto ==
  ASSUME NEW n \in Nat \ {0}, NEW k \in Nat \ {0}, NEW v \in 1..n
  PROVE  \E q \in 1..SpreadLen(n, k) : \E r, d : ~IsMark(n, k, q) /\ Between(n, k, q, v, r, d)
<1> DEFINE u == v - 1
           r == u \div k
           g == u % k
           c == n \div k
           h == k + 1
           x == k * r
           d == g + 1
           q == x + r + d
<1>1. r \in Nat /\ g \in 0..k-1 /\ u = x + g
  <2>1. u \in Nat
    OBVIOUS
  <2> HIDE DEF u
  <2> QED
    BY <2>1, DivMod
<1>2. x \in Nat /\ d \in 1..k /\ v = x + d
  BY <1>1
<1>3. r <= c /\ c \in Nat
  <2> DEFINE y == k * c
             m == n % k
  <2>1. c \in Nat /\ m \in 0..k-1 /\ n = y + m
    BY DivMod
  <2>2. y \in Nat
    BY <2>1
  <2>3. c < r => y + k <= x
    BY <1>1, <2>1, TimesGrows
  <2> HIDE DEF x, y, m, c, r, d
  <2>4. ~(c < r)
    BY <1>2, <2>1, <2>2, <2>3
  <2> QED
    BY <1>1, <2>1, <2>4
<1>4. q = h * r + d /\ h \in Nat \ {0} /\ d \in 0..h-1
  <2>1. h * r = x + r
    BY <1>1
  <2> HIDE DEF x
  <2> QED
    BY <1>1, <1>2, <2>1
<1>5. CompressCount(n, k) \in Nat /\ c <= CompressCount(n, k)
  <2>1. CompressCount(n, k) = c \/ CompressCount(n, k) = c + 1
    BY CountMeans
  <2> HIDE DEF c
  <2> QED
    BY <1>3, <2>1
<1>6. q = v + r /\ q \in 1..n+c /\ q \in Nat
  <2> HIDE DEF x, c, r, d
  <2> QED
    BY <1>1, <1>2, <1>3
<1>7. q \div h = r /\ q % h = d
  <2> HIDE DEF q, h, d, r
  <2> QED
    BY <1>1, <1>4, DivModIs
<1>8. q \in 1..SpreadLen(n, k)
  BY <1>3, <1>5, <1>6 DEF SpreadLen
<1>9. ~IsMark(n, k, q)
  <2>1. ~(q % h = 0) /\ ~(q > n + c)
    BY <1>2, <1>3, <1>6, <1>7
  <2> QED
    BY <2>1 DEF IsMark
<1>10. q - (q \div h) = v
  BY <1>1, <1>6, <1>7
<1>11. Between(n, k, q, v, r, d)
  <2>1. r \in Nat /\ d \in 1..k /\ v \in 1..n
    BY <1>1, <1>2
  <2>2. q = (k + 1) * r + d /\ v = k * r + d /\ q - (q \div (k + 1)) = v
    BY <1>2, <1>4, <1>10
  <2>3. (v - 1) \div k = r
    OBVIOUS
  <2> HIDE DEF q, r, d
  <2> QED
    BY <2>1, <2>2, <2>3 DEF Between
<1> QED
  BY <1>8, <1>9, <1>11

(* The first special token and the last.                                   *)
LEMMA OuterMarks ==
  ASSUME NEW n \in Nat \ {0}, NEW k \in Nat \ {0},
         NEW m, m = Mark(n, k, 1), NEW s, s = SpreadLen(n, k)
  PROVE  /\ s \in Nat \ {0} /\ m \in 1..s /\ IsMark(n, k, m) /\ IsMark(n, k, s)
         /\ \A q \in 1..s : IsMark(n, k, q) => m <= q
<1> DEFINE c == CompressCount(n, k)
<1>1. c \in Nat \ {0}
  BY CountMeans
<1>2. s \in Nat /\ (\A i \in 1..c : Mark(n, k, i) \in 1..s) /\ Mark(n, k, c) = s
  BY MarkProperties
<1>3. \A i, j \in 1..c : i < j => Mark(n, k, i) < Mark(n, k, j)
  BY MarkProperties
<1>4. \A q \in 1..s : IsMark(n, k, q) <=> \E i \in 1..c : q = Mark(n, k, i)
  BY MarkProperties
<1> HIDE DEF c
<1>5. 1 \in 1..c /\ c \in 1..c
  BY <1>1
<1>6. m \in 1..s /\ s \in 1..s /\ s \in Nat \ {0}
  BY <1>2, <1>5
<1>7. IsMark(n, k, m) /\ IsMark(n, k, s)
  BY <1>2, <1>4, <1>5, <1>6
<1>8. ASSUME NEW q \in 1..s, IsMark(n, k, q) PROVE m <= q
  <2>1. PICK i \in 1..c : q = Mark(n, k, i)
    BY <1>4, <1>8
  <2>2. i = 1 \/ 1 < i
    BY <1>1
  <2>3. 1 < i => m < q
    BY <1>3, <1>5, <2>1
  <2> QED
    BY <1>6, <2>1, <2>2, <2>3
<1> QED
  BY <1>6, <1>7, <1>8

(* What comes after the first special token are the segments but the first.*)
LEMMA AfterFirst ==
  ASSUME NEW n \in Nat \ {0}, NEW k \in Nat \ {0}, NEW m, m = Mark(n, k, 1),
         NEW q \in 1..SpreadLen(n, k), ~IsMark(n, k, q), NEW v, NEW r, NEW d, Between(n, k, q, v, r, d)
  PROVE  m < q <=> k < v
<1> DEFINE c == n \div k
           h == k + 1
           x == h * r
           a == k * r
<1>1. r \in Nat /\ d \in 1..k /\ q = x + d /\ v = a + d /\ v \in 1..n
  BY DEF Between
<1>2. x \in Nat /\ a \in Nat
  BY <1>1
<1>3. c \in Nat /\ (c = 0 => n < k)
  <2> DEFINE y == k * c
             g == n % k
  <2>1. c \in Nat /\ g \in 0..k-1 /\ n = y + g
    BY DivMod
  <2>2. c = 0 => y = 0
    OBVIOUS
  <2> HIDE DEF y, g, c
  <2> QED
    BY <2>1, <2>2
<1>4. CASE c # 0
  <2>1. m = k + 1
    BY <1>3, <1>4 DEF Mark
  <2>2. r = 0 => x = 0 /\ a = 0
    OBVIOUS
  <2>3. r # 0 => h <= x /\ k <= a
    <3>1. k * 0 = 0 /\ h * 0 = 0 /\ 0 \in Nat /\ h \in Nat
      OBVIOUS
    <3>2. r # 0 => 0 < r
      BY <1>1
    <3>3. 0 < r => k * 0 + k <= k * r
      BY <1>1, TimesGrows
    <3>4. 0 < r => h * 0 + h <= h * r
      <4> HIDE DEF h
      <4> QED
        BY <1>1, <3>1, TimesGrows
    <3> QED
      BY <1>2, <3>1, <3>2, <3>3, <3>4
  <2>4. h = k + 1
    OBVIOUS
  <2> HIDE DEF x, a, h
  <2> QED
    BY <1>1, <1>2, <2>1, <2>2, <2>3, <2>4
<1>5. CASE c = 0
  <2>1. m = SpreadLen(n, k) /\ SpreadLen(n, k) \in Nat
    <3>1. ~(1 <= c)
      BY <1>5
    <3>2. SpreadLen(n, k) \in Nat
      BY OuterMarks
    <3> QED
      BY <3>1, <3>2 DEF Mark
  <2>2. IsMark(n, k, m)
    BY OuterMarks
  <2>3. q < m
    BY <2>1, <2>2
  <2>4. ~(k < v)
    BY <1>1, <1>3, <1>5
  <2> QED
    BY <2>1, <2>3, <2>4
<1> QED
  BY <1>4, <1>5
-----------------------------------------------------------------------------
(* The text of an example.                                                 *)

\* t is the text: a tokens of the opening, c of the reasoning, z of the closing.
TextOf(t, x, a, c, z) ==
  /\ a \in Nat \ {0} /\ a = x.prompt + 1 /\ c \in Nat \ {0} /\ c = x.cot
  /\ z \in Nat \ {0} /\ z = input.endLen + x.answer + 1
  /\ t \in Seq(AnyToken) /\ Len(t) = a + c + z
  /\ \A i \in 1..a : t[i] = OpenToken(x, i)
  /\ \A v \in 1..c : t[a + v] = <<"cot", v>>
  /\ \A i \in 1..z : t[a + c + i] = CloseToken(x, i)

(* It is.                                                                  *)
LEMMA TextIs ==
  ASSUME InputOK, NEW x \in Examples, x.cot # 0, x.marker = "none",
         NEW a, a = x.prompt + 1, NEW c, c = x.cot, NEW z, z = input.endLen + x.answer + 1
  PROVE  TextOf(Text(x), x, a, c, z)
<1> DEFINE t == Text(x)
           o == Opening(x)
           w == Tokens("cot", c)
           f == Closing(x)
<1>1. c \in Nat \ {0}
  BY DEF Examples
<1>2. a \in Nat \ {0} /\ z \in Nat \ {0} /\ OpensAs(o, x, a) /\ ClosesAs(f, x, z)
  BY CleanEnds
<1>3. /\ o \in Seq(AnyToken) /\ Len(o) = a /\ \A i \in 1..a : o[i] = OpenToken(x, i)
      /\ f \in Seq(AnyToken) /\ Len(f) = z /\ \A i \in 1..z : f[i] = CloseToken(x, i)
  BY <1>2 DEF OpensAs, ClosesAs
<1>4. w \in Seq(AnyToken) /\ Len(w) = c /\ \A v \in 1..c : w[v] = <<"cot", v>>
  <2>1. \A i \in 1..c : <<"cot", i>> \in AnyToken
    BY DEF AnyToken, Kinds
  <2> QED
    BY <1>1, <2>1, TokensProperties
<1>5. Framed(t, o, w, f)
  <2> DEFINE g == o \o w
             E == EndThink
             S == SuffixIds(x)
  <2>1. E \in Seq(AnyToken) /\ S \in Seq(AnyToken)
    BY Pieces, PlainMeans
  <2> HIDE DEF o, w
  <2>2. g \in Seq(AnyToken)
    BY <1>3, <1>4, ConcatProperties
  <2>3. t = (g \o E) \o S
    BY Zenon DEF Text, Opening, o, w
  <2>4. f = E \o S
    BY DEF Closing
  <2> HIDE DEF g, E, S, t, f
  <2>5. (g \o E) \o S = g \o (E \o S)
    BY <2>1, <2>2, ConcatAssociative, SMTT(30)
  <2> QED
    BY <2>3, <2>4, <2>5, Zenon DEF Framed, g
<1> HIDE DEF t, o, w, f
<1>6. a \in Nat /\ c \in Nat /\ z \in Nat
  BY <1>1, <1>2
<1>7. FrameOf(t, o, w, f, a, c, z)
  BY <1>3, <1>4, <1>5, <1>6, FrameIs
<1>8. /\ t \in Seq(AnyToken) /\ Len(t) = a + c + z
      /\ \A i \in 1..a : t[i] = OpenToken(x, i)
      /\ \A v \in 1..c : t[a + v] = <<"cot", v>>
      /\ \A i \in 1..z : t[a + c + i] = CloseToken(x, i)
  BY <1>3, <1>4, <1>7 DEF FrameOf
<1>9. TextOf(t, x, a, c, z)
  BY <1>1, <1>2, <1>8 DEF TextOf
<1> QED
  BY <1>9, Zenon DEF t

\* Where a token stands in the text.
PlaceOf(token, a, c, l, h) ==
  IF token[1] = "prompt" THEN token[2]
  ELSE IF token[1] = "think" THEN a
  ELSE IF token[1] = "cot" THEN a + token[2]
  ELSE IF token[1] = "/think" THEN a + c + token[2]
  ELSE IF token[1] = "answer" THEN a + c + (l + token[2])
  ELSE a + c + (l + h + 1)

\* No two of the n tokens of t are the same.
AllDistinct(t, n) == \A i, j \in 1..n : t[i] = t[j] => i = j

(* No token is in the text twice.                                          *)
LEMMA TextDistinct ==
  ASSUME InputOK, NEW x \in Examples, NEW t, NEW a, NEW c, NEW z, TextOf(t, x, a, c, z),
         NEW n, n = a + c + z
  PROVE  AllDistinct(t, n)
<1> DEFINE l == input.endLen
           h == x.answer
           place(y) == PlaceOf(y, a, c, l, h)
<1>1. /\ a \in Nat \ {0} /\ a = x.prompt + 1 /\ c \in Nat \ {0} /\ z \in Nat \ {0} /\ z = l + h + 1
      /\ \A i \in 1..a : t[i] = OpenToken(x, i)
      /\ \A v \in 1..c : t[a + v] = <<"cot", v>>
      /\ \A i \in 1..z : t[a + c + i] = CloseToken(x, i)
  BY DEF TextOf
<1>2. l \in Nat \ {0} /\ h \in Nat /\ x.prompt \in Nat
  BY DEF InputOK, Examples
<1>3. ASSUME NEW i \in 1..a PROVE place(t[i]) = i
  <2>1. t[i] = OpenToken(x, i)
    BY <1>1
  <2>2. CASE i <= x.prompt
    BY <2>1, <2>2 DEF OpenToken, PlaceOf
  <2>3. CASE ~(i <= x.prompt)
    <3>1. i = a
      BY <1>1, <1>2, <2>3
    <3>2. t[i] = <<"think", 1>>
      BY <2>1, <2>3 DEF OpenToken
    <3> QED
      BY <3>1, <3>2 DEF PlaceOf
  <2> QED
    BY <2>2, <2>3
<1>4. ASSUME NEW v \in 1..c PROVE place(t[a + v]) = a + v
  <2>1. t[a + v] = <<"cot", v>>
    BY <1>1
  <2> QED
    BY <2>1 DEF PlaceOf
<1>5. ASSUME NEW i \in 1..z PROVE place(t[a + c + i]) = a + c + i
  <2>1. t[a + c + i] = CloseToken(x, i)
    BY <1>1
  <2>2. CASE i <= l
    BY <2>1, <2>2 DEF CloseToken, PlaceOf
  <2>3. CASE ~(i <= l) /\ i <= l + h
    <3>1. t[a + c + i] = <<"answer", i - l>>
      BY <2>1, <2>3 DEF CloseToken
    <3>2. place(t[a + c + i]) = a + c + (l + (i - l))
      BY <3>1 DEF PlaceOf
    <3>3. l + (i - l) = i
      <4> HIDE DEF l
      <4> QED
        BY <1>2
    <3> QED
      BY <3>2, <3>3
  <2>4. CASE ~(i <= l) /\ ~(i <= l + h)
    <3>1. i = l + h + 1
      BY <1>1, <1>2, <2>4
    <3>2. t[a + c + i] = Eos
      BY <2>1, <2>4 DEF CloseToken
    <3>3. Eos[1] \in {"pad", "eos"}
      BY DEF Eos, Pad
    <3>4. place(Eos) = a + c + (l + h + 1)
      BY <3>3 DEF PlaceOf
    <3> QED
      BY <3>1, <3>2, <3>4
  <2> QED
    BY <2>2, <2>3, <2>4
<1>6. ASSUME NEW i \in 1..n PROVE place(t[i]) = i
  <2> HIDE DEF place
  <2>1. CASE i <= a
    <3>1. i \in 1..a
      BY <1>1, <2>1
    <3> QED
      BY <1>3, <3>1
  <2>2. CASE a < i /\ i <= a + c
    <3>1. i - a \in 1..c /\ a + (i - a) = i
      BY <1>1, <2>2
    <3> QED
      BY <1>4, <3>1
  <2>3. CASE a + c < i
    <3>1. PICK g : g = i - (a + c)
      OBVIOUS
    <3>2. g \in 1..z /\ a + c + g = i
      <4>1. a \in Nat /\ c \in Nat /\ z \in Nat /\ n = a + c + z
        BY <1>1
      <4> QED
        BY <2>3, <3>1, <4>1
    <3> QED
      BY <1>5, <3>2
  <2> QED
    BY <1>1, <2>1, <2>2, <2>3
<1> HIDE DEF place
<1> QED
  BY <1>6 DEF AllDistinct

\* y comes before the token at h, which is looked for by what it is.
ComesBefore(t, h, y) == y \in ToSet(SubSeq(t, 1, Min(Where(t, t[h])) - 1))
AmongFirst(t, h, y) == \E i \in 1..h-1 : y = t[i]

(* What comes before the h-th token of such a text.                        *)
LEMMA BeforeToken ==
  ASSUME NEW n \in Nat, NEW t \in Seq(AnyToken), Len(t) = n, AllDistinct(t, n), NEW h \in 1..n, NEW y
  PROVE  ComesBefore(t, h, y) <=> AmongFirst(t, h, y)
<1> DEFINE S == Where(t, t[h])
           m == Min(S) - 1
           u == SubSeq(t, 1, m)
<1>1. S = {h}
  BY DEF Where, AllDistinct
<1>2. m = h - 1
  <2>1. h \in {h} /\ {h} \in SUBSET Int /\ \A g \in {h} : h <= g
    OBVIOUS
  <2>2. Min({h}) = h
    BY <2>1, MinIs
  <2> QED
    BY <1>1, <2>2, Zenon
<1> HIDE DEF m
<1>3. m \in Nat /\ m < n
  BY <1>2
<1>4. \A i \in 1..m : t[i] \in AnyToken
  BY <1>3
<1>5. u \in Seq(AnyToken) /\ Len(u) = m /\ \A i \in 1..m : u[i] = t[i]
  <2>1. 1 \in Int /\ m \in Int
    BY <1>3
  <2>2. /\ u \in Seq(AnyToken) /\ Len(u) = IF 1 <= m THEN m - 1 + 1 ELSE 0
        /\ \A i \in 1..m-1+1 : u[i] = t[1 + i - 1]
    BY <1>4, <2>1, SubSeqProperties
  <2> HIDE DEF u
  <2> QED
    BY <1>3, <2>2
<1> HIDE DEF u
<1>6. DOMAIN u = 1..m
  BY <1>5
<1>7. y \in ToSet(u) <=> \E i \in 1..m : y = t[i]
  BY <1>5, <1>6 DEF ToSet
<1> QED
  BY <1>2, <1>7, Zenon DEF u, m, S, ComesBefore, AmongFirst

\* y is a token of the opening, of the reasoning before the v-th, or of the
\* closing before the f-th.
Earlier(y, x, a, c, z, v, f) ==
  \/ \E i \in 1..a : y = OpenToken(x, i)
  \/ \E w \in 1..c : w < v /\ y = <<"cot", w>>
  \/ \E g \in 1..z : g < f /\ y = CloseToken(x, g)

(* What comes before the v-th token of the reasoning, and the f-th of the  *)
(* closing.                                                                *)
LEMMA EarlierIs ==
  ASSUME NEW x, NEW t, NEW a, NEW c, NEW z, TextOf(t, x, a, c, z),
         NEW v \in 1..c+1, NEW f \in 1..z, f = 1 \/ v = c + 1, NEW h, h = a + v + f - 1, NEW y
  PROVE  (\E i \in 1..h-1 : y = t[i]) <=> Earlier(y, x, a, c, z, v, f)
<1>1. /\ a \in Nat \ {0} /\ c \in Nat \ {0} /\ z \in Nat \ {0}
      /\ \A i \in 1..a : t[i] = OpenToken(x, i)
      /\ \A w \in 1..c : t[a + w] = <<"cot", w>>
      /\ \A i \in 1..z : t[a + c + i] = CloseToken(x, i)
  BY DEF TextOf
<1>2. v \in Nat /\ f \in Nat /\ h = a + (v - 1) + f /\ h \in Nat
  BY <1>1
<1>3. ASSUME NEW i \in 1..h-1, y = t[i] PROVE Earlier(y, x, a, c, z, v, f)
  <2>1. CASE i <= a
    <3>1. i \in 1..a
      BY <1>1, <2>1
    <3> QED
      BY <1>1, <1>3, <3>1 DEF Earlier
  <2>2. CASE a < i /\ i <= a + c
    <3>1. PICK w : w = i - a
      OBVIOUS
    <3>2. w \in 1..c /\ a + w = i /\ w < v
      BY <1>1, <1>2, <2>2, <3>1
    <3>3. y = <<"cot", w>>
      BY <1>1, <1>3, <3>2
    <3> QED
      BY <3>2, <3>3 DEF Earlier
  <2>3. CASE a + c < i
    <3>1. PICK g : g = i - (a + c)
      OBVIOUS
    <3>2. g \in 1..z /\ a + c + g = i /\ g < f
      BY <1>1, <1>2, <2>3, <3>1
    <3>3. y = CloseToken(x, g)
      BY <1>1, <1>3, <3>2
    <3> QED
      BY <3>2, <3>3 DEF Earlier
  <2> QED
    BY <1>1, <1>2, <2>1, <2>2, <2>3
<1>4. ASSUME NEW i \in 1..a, y = OpenToken(x, i) PROVE \E k \in 1..h-1 : y = t[k]
  <2>1. i \in 1..h-1 /\ y = t[i]
    BY <1>1, <1>2, <1>4
  <2> QED
    BY <2>1
<1>5. ASSUME NEW w \in 1..c, w < v, y = <<"cot", w>> PROVE \E k \in 1..h-1 : y = t[k]
  <2>1. a + w \in 1..h-1
    BY <1>1, <1>2, <1>5
  <2>2. y = t[a + w]
    BY <1>1, <1>5
  <2> QED
    BY <2>1, <2>2
<1>6. ASSUME NEW g \in 1..z, g < f, y = CloseToken(x, g) PROVE \E k \in 1..h-1 : y = t[k]
  <2>1. a + c + g \in 1..h-1
    BY <1>1, <1>2, <1>6
  <2>2. y = t[a + c + g]
    BY <1>1, <1>6
  <2> QED
    BY <2>1, <2>2
<1> QED
  BY <1>3, <1>4, <1>5, <1>6 DEF Earlier
-----------------------------------------------------------------------------
(* What is embedded, and what it stands for.                               *)

\* E embeds a row: its tokens, and a state of the encoder for each latent.
EmbedsOf(E, ids, x, a, m, s, n, q) ==
  /\ Len(E) = q
  /\ \A j \in 1..n : j \notin Where(ids, Ignored) => E[j] = ids[j]
  /\ \A g \in m..s : IsMark(x.cot, input.k, g) => E[At(a, m, g)] = <<"enc", a + g>>

(* forward scatters the states of the same rank over the latents.          *)
LEMMA EmbedsAre ==
  ASSUME input \in Batches, NoneEmpty, batch = Batch1, NEW b \in Rows,
         NEW x, NEW ids, NEW a, NEW m, NEW s, NEW z, NEW e, NEW n, NEW q,
         RowOf(b, x, ids, a, m, s, z, e, n, q),
         NEW E, E = Scatter(batch.input_ids[b], batch.cot_ids[b])
  PROVE  EmbedsOf(E, ids, x, a, m, s, n, q)
<1> DEFINE p == batch.input_ids[b]
           cot == batch.cot_ids[b]
           W == Where(p, Ignored)
           V == Where(cot, Compress)
           from == Ascending(V)
           rank(i) == Cardinality({j \in W : j <= i})
           c == Segments(x)
           enc(i) == <<"enc", from[rank(i)]>>
<1>1. /\ x = input.examples[b] /\ x \in Examples /\ x.cot # 0 /\ a = Len(Opening(x))
      /\ n <= q /\ q \in Nat /\ DecoderTokens(ids, x, a, m, s, z)
      /\ DecoderLayout(ids, x, a, m, s, e, n) /\ n \in Nat
  BY DEF RowOf, DecoderLayout
<1>2. p = RightPad(DecoderRows, Pad)[b] /\ cot = RightPad(CotRows, Pad)[b]
  BY Batch1Is, Zenon
<1>3. RowPadded(p, batch.labels[b], ids, a, n, q)
  BY RowCollated
<1>4. /\ DOMAIN p = 1..q /\ (\A i \in 1..n : p[i] = ids[i]) /\ W = Where(ids, Ignored)
  BY <1>1, <1>3, LenProperties DEF RowPadded
<1>5. Ranked(LatentAt(x), c, W) /\ Ranked(CompressAt(x), c, V)
  BY <1>1, <1>2, DecoderPadded, CotPadded, Zenon
<1>6. c \in Nat \ {0} /\ x.cot \in Nat \ {0} /\ input.k \in Nat \ {0}
  <2>1. InputOK
    BY Inputs
  <2> QED
    BY <1>1, <2>1, SegmentsMeans
<1>7. E = [i \in 1..q |-> IF p[i] = Ignored THEN enc(i) ELSE p[i]]
  BY <1>4, Zenon DEF Scatter
<1> HIDE DEF p, cot, W, V, from, rank, c, enc
<1>8. \A r \in 1..c : rank(LatentAt(x)[r]) = r /\ from[r] = CompressAt(x)[r]
  BY <1>5, <1>6, RankIs, AscendingIs DEF rank, from
<1>9. ASSUME NEW j \in 1..n, j \notin Where(ids, Ignored) PROVE E[j] = ids[j]
  <2>1. j \in 1..q /\ p[j] = ids[j]
    BY <1>1, <1>4
  <2>2. p[j] # Ignored
    BY <1>4, <1>9, <2>1 DEF W, Where
  <2>3. E[j] = IF p[j] = Ignored THEN enc(j) ELSE p[j]
    BY <1>7, <2>1, Zenon
  <2> QED
    BY <2>1, <2>2, <2>3, Zenon
<1>10. ASSUME NEW g \in m..s, IsMark(x.cot, input.k, g) PROVE E[At(a, m, g)] = <<"enc", a + g>>
  <2>1. m \in Nat /\ g \in 1..SpreadLen(x.cot, input.k) /\ m = Mark(x.cot, input.k, 1)
    <3>1. s \in Nat /\ m \in 1..s /\ s = SpreadLen(x.cot, input.k) /\ m = Mark(x.cot, input.k, 1)
      BY <1>1 DEF DecoderTokens
    <3>2. m \in Nat /\ g \in 1..s
      BY <3>1
    <3> QED
      BY <3>1, <3>2, Zenon
  <2>2. PICK r \in 1..CompressCount(x.cot, input.k) : g = Mark(x.cot, input.k, r)
    BY <1>6, <1>10, <2>1, MarkProperties
  <2>3. r \in 1..c /\ LatentAt(x)[r] = At(a, m, g) /\ CompressAt(x)[r] = a + g
    BY <1>1, <2>1, <2>2, Zenon DEF c, Segments, LatentAt, CompressAt, At
  <2>4. At(a, m, g) \in W
    BY <1>5, <2>3 DEF Ranked
  <2>5. At(a, m, g) \in 1..q /\ p[At(a, m, g)] = Ignored
    BY <1>4, <2>4 DEF W, Where
  <2>6. E[At(a, m, g)] = enc(At(a, m, g))
    BY <1>7, <2>5
  <2>7. from[rank(At(a, m, g))] = a + g
    BY <1>8, <2>3
  <2> QED
    BY <2>6, <2>7, Zenon DEF enc
<1>11. Len(E) = q
  BY <1>1, <1>7
<1> QED
  BY <1>9, <1>10, <1>11 DEF EmbedsOf

\* The token of the reasoning that stands at h of the spread reasoning.
CotAt(h) == <<"cot", h - (h \div (input.k + 1))>>

\* y is a token of the opening, or of the reasoning before u as it is spread.
ReadBefore(y, x, a, s, u) ==
  \/ \E i \in 1..a : y = OpenToken(x, i)
  \/ \E h \in 1..s : h < u /\ ~IsMark(x.cot, input.k, h) /\ y = CotAt(h)

\* The padded row of the encoder.
EncoderRead(cot, x, a, s) ==
  \E row : /\ EncoderTokens(row, x, a, s) /\ Len(row) <= Len(cot) /\ Len(cot) \in Nat
           /\ \A i \in 1..Len(row) : cot[i] = row[i]
           /\ InductionMask(cot) = InductionMask(row)

(* Every row of the encoder is one.                                        *)
LEMMA EncoderReadIs ==
  ASSUME input \in Batches, NoneEmpty, batch = Batch1, NEW b \in Rows,
         NEW x, NEW ids, NEW a, NEW m, NEW s, NEW z, NEW e, NEW n, NEW q,
         RowOf(b, x, ids, a, m, s, z, e, n, q)
  PROVE  EncoderRead(batch.cot_ids[b], x, a, s)
<1> DEFINE cot == batch.cot_ids[b]
           row == CotIds(x)
           c == Len(input.examples)
           d == MaxLen(CotRows) - Len(CotRows[b])
<1>1. /\ x = input.examples[b] /\ x \in Examples /\ x.cot # 0 /\ x.marker = "none"
      /\ DecoderTokens(ids, x, a, m, s, z)
  BY DEF RowOf
<1>2. InputOK /\ Rows = 1..c /\ c \in Nat \ {0}
  BY Inputs DEF InputOK
<1>3. PICK f, g : EncoderTokens(row, x, f, g)
  BY <1>1, <1>2, EncoderTokensAre
<1>4. EncoderTokens(row, x, a, s)
  <2>1. f = a /\ g = s
    BY <1>1, <1>3, Zenon DEF EncoderTokens, DecoderTokens
  <2> QED
    BY <1>3, <2>1, Zenon
<1>5. cot = RightPad(CotRows, Pad)[b] /\ CotRows[b] = row
  BY <1>1, Batch1Is DEF CotRows
<1>6. Family(CotRows, c, AnyToken) /\ Pad \in AnyToken
  BY CotFamily, Specials
<1>7. Joins(cot, row, Fill(Pad, d)) /\ d \in Nat
  <2>1. b \in 1..c
    BY <1>2
  <2> HIDE DEF c
  <2>2. Joins(RightPad(CotRows, Pad)[b], CotRows[b], Fill(Pad, MaxLen(CotRows) - Len(CotRows[b]))) /\ d \in Nat
    BY <1>2, <1>6, <2>1, RightPadRow
  <2> QED
    BY <1>5, <2>2, Zenon
<1>8. InductionMask(cot) = InductionMask(row)
  <2>1. InductionMask(RightPad(CotRows, Pad)[b]) = InductionMask(CotRows[b])
    BY CotPadded
  <2> QED
    BY <1>5, <2>1, Zenon
<1>9. row \in Seq(AnyToken)
  BY <1>4 DEF EncoderTokens
<1> HIDE DEF cot, row, c, d
<1>10. Padded(cot, row, d)
  BY <1>7 DEF Padded, Joins
<1>11. /\ Len(cot) = Len(row) + d /\ Len(row) \in Nat /\ \A i \in 1..Len(row) : cot[i] = row[i]
  BY <1>7, <1>9, <1>10, PaddedProperties
<1>12. Len(row) <= Len(cot) /\ Len(cot) \in Nat
  BY <1>7, <1>11
<1> QED
  BY <1>4, <1>8, <1>11, <1>12, Zenon DEF EncoderRead, cot

(* The state of a compress token stands for the text before it.            *)
LEMMA EncoderSources ==
  ASSUME InputOK, NEW x \in Examples, x.cot # 0, NEW cot, NEW a, NEW s, EncoderRead(cot, x, a, s),
         NEW g \in 1..s, IsMark(x.cot, input.k, g), NEW y
  PROVE  y \in {cot[r] : r \in Reach(InductionMask(cot), Len(cot))[a + g]} \ {Compress}
           <=> ReadBefore(y, x, a, s, g)
<1>1. PICK row : /\ EncoderTokens(row, x, a, s) /\ Len(row) <= Len(cot) /\ Len(cot) \in Nat
                 /\ \A i \in 1..Len(row) : cot[i] = row[i]
                 /\ InductionMask(cot) = InductionMask(row)
  BY DEF EncoderRead
<1> DEFINE l == input.endLen
           mark(h) == IsMark(x.cot, input.k, h)
           R == Reach(InductionMask(cot), Len(cot))[a + g]
<1>2. PICK w : w = Len(row)
  OBVIOUS
<1>3. /\ a \in Nat \ {0} /\ s \in Nat \ {0} /\ row \in Seq(AnyToken) /\ w = a + s + l
      /\ \A i \in 1..a : row[i] = OpenToken(x, i)
      /\ \A h \in 1..s : row[a + h] = SpreadAt(x.cot, input.k, Compress, h)
      /\ \A i \in 1..l : row[a + s + i] = <<"/think", i>>
  BY <1>1, <1>2 DEF EncoderTokens
<1>4. l \in Nat /\ w \in Nat /\ DOMAIN row = 1..w
  <2>1. l \in Nat
    BY DEF InputOK
  <2>2. w \in Nat /\ DOMAIN row = 1..w
    BY <1>2, <1>3, LenProperties
  <2> QED
    BY <2>1, <2>2
<1>5. \A h \in 1..s : row[a + h] = IF mark(h) THEN Compress ELSE CotAt(h)
  BY <1>3 DEF SpreadAt, CotAt
<1>6. \A i : OpenToken(x, i) # Compress /\ OpenToken(x, i) # Pad
  BY DEF OpenToken, Compress, Pad
<1>7. \A h : CotAt(h) # Compress /\ CotAt(h) # Pad
  BY DEF CotAt, Compress, Pad
<1>8. Compress # Pad /\ \A i : <<"/think", i>> # Pad
  BY DEF Compress, Pad
<1> HIDE DEF l, mark
<1>9. ASSUME NEW i \in 1..w
      PROVE  \/ i \in 1..a
             \/ \E h \in 1..s : i = a + h
             \/ \E h \in 1..l : i = a + s + h
  <2>1. i <= a => i \in 1..a
    BY <1>3
  <2>2. a < i /\ i <= a + s => i - a \in 1..s /\ i = a + (i - a)
    BY <1>3
  <2>3. a + s < i => \E h \in 1..l : i = a + s + h
    <3>1. PICK h : h = i - (a + s)
      OBVIOUS
    <3>2. a + s < i => h \in 1..l /\ i = a + s + h
      BY <1>3, <1>4, <3>1
    <3> QED
      BY <3>2
  <2> QED
    BY <1>3, <2>1, <2>2, <2>3
<1>10. NoPad(row, w)
  <2>1. ASSUME NEW i \in 1..w PROVE row[i] # Pad
    <3>1. CASE i \in 1..a
      BY <1>3, <1>6, <3>1
    <3>2. ASSUME NEW h \in 1..s, i = a + h PROVE row[i] # Pad
      BY <1>5, <1>7, <1>8, <3>2
    <3>3. ASSUME NEW h \in 1..l, i = a + s + h PROVE row[i] # Pad
      BY <1>3, <1>8, <3>3
    <3> QED
      BY <1>9, <3>1, <3>2, <3>3
  <2> QED
    BY <2>1 DEF NoPad
<1>11. PICK o : o = a + g
  OBVIOUS
<1>12. o \in 1..w /\ row[o] = Compress
  <2>1. mark(g)
    BY DEF mark
  <2> QED
    BY <1>3, <1>4, <1>5, <1>11, <2>1
<1>13. ASSUME NEW j PROVE j \in R <=> j \in 1..w /\ j <= o /\ (row[j] = Compress => j = o)
  <2>1. DOMAIN row = 1..w /\ w \in 0..w /\ NoPad(row, w) /\ Len(cot) \in Nat /\ w <= Len(cot) /\ o \in 1..w
    BY <1>1, <1>2, <1>4, <1>10, <1>12
  <2>2. j \in Reach(InductionMask(row), Len(cot))[o] <=> j \in 1..w /\ j <= o /\ (row[j] = Compress => j = o)
    BY <1>4, <2>1, EncoderReaches
  <2> QED
    BY <1>1, <1>11, <2>2, Zenon
<1> HIDE DEF R
<1>14. \A j \in 1..w : cot[j] = row[j]
  BY <1>1, <1>2
<1>15. ASSUME NEW j \in R, y = cot[j], y # Compress PROVE ReadBefore(y, x, a, s, g)
  <2>1. j \in 1..w /\ j < o /\ y = row[j] /\ row[j] # Compress
    <3>1. j \in 1..w /\ j <= o /\ (row[j] = Compress => j = o)
      BY <1>13, <1>15
    <3>2. y = row[j]
      BY <1>14, <1>15, <3>1
    <3> QED
      BY <1>12, <1>15, <3>1, <3>2
  <2>2. CASE j \in 1..a
    BY <1>3, <2>1, <2>2 DEF ReadBefore
  <2>3. ASSUME NEW h \in 1..s, j = a + h PROVE ReadBefore(y, x, a, s, g)
    <3>1. h < g
      BY <1>3, <1>11, <2>1, <2>3
    <3>2. ~mark(h) /\ y = CotAt(h)
      BY <1>5, <2>1, <2>3
    <3> QED
      BY <3>1, <3>2 DEF ReadBefore, mark
  <2>4. ASSUME NEW h \in 1..l, j = a + s + h PROVE FALSE
    BY <1>3, <1>4, <1>11, <2>1, <2>4
  <2> QED
    BY <1>9, <2>1, <2>2, <2>3, <2>4
<1>16. ASSUME NEW i \in 1..a, y = OpenToken(x, i) PROVE i \in R /\ y = cot[i] /\ y # Compress
  <2>1. i \in 1..w /\ i <= o
    BY <1>3, <1>4, <1>11
  <2> QED
    BY <1>3, <1>6, <1>13, <1>14, <1>16, <2>1
<1>17. ASSUME NEW h \in 1..s, h < g, ~mark(h), y = CotAt(h)
       PROVE  a + h \in R /\ y = cot[a + h] /\ y # Compress
  <2>1. a + h \in 1..w /\ a + h <= o
    BY <1>3, <1>4, <1>11, <1>17
  <2>2. row[a + h] = y
    BY <1>5, <1>17
  <2>3. a + h \in R
    BY <1>7, <1>13, <1>17, <2>1, <2>2
  <2> QED
    BY <1>7, <1>14, <1>17, <2>1, <2>2, <2>3
<1>18. ReadBefore(y, x, a, s, g) => \E j \in R : y = cot[j] /\ y # Compress
  <2>1. CASE \E i \in 1..a : y = OpenToken(x, i)
    BY <1>16, <2>1
  <2>2. CASE \E h \in 1..s : h < g /\ ~mark(h) /\ y = CotAt(h)
    BY <1>17, <2>2
  <2> QED
    BY <2>1, <2>2 DEF ReadBefore, mark
<1> QED
  BY <1>15, <1>18 DEF R
-----------------------------------------------------------------------------
(* What a row of the decoder depends on, as text.                          *)

\* The text that position j stands for.
Meaning(E, cot, j) ==
  IF E[j][1] = "enc"
  THEN {cot[r] : r \in Reach(InductionMask(cot), Len(cot))[E[j][2]]} \ {Compress}
  ELSE {E[j]}

\* What the positions of the row stand for.
MeaningsAre(E, cot, x, a, m, s, e, n) ==
  /\ \A j \in 1..n-1 : j <= a => Meaning(E, cot, j) = {OpenToken(x, j)}
  /\ \A g \in m..s : ~IsMark(x.cot, input.k, g) => Meaning(E, cot, At(a, m, g)) = {CotAt(g)}
  /\ \A g \in m..s : IsMark(x.cot, input.k, g) =>
       \A y : y \in Meaning(E, cot, At(a, m, g)) <=> ReadBefore(y, x, a, s, g)
  /\ \A j \in 1..n-1 : e <= j => Meaning(E, cot, j) = {CloseToken(x, j - e + 1)}

(* They do.                                                                *)
LEMMA MeaningIs ==
  ASSUME InputOK, EndLen, NEW x \in Examples, x.cot # 0,
         NEW ids, NEW a, NEW m, NEW s, NEW z, DecoderTokens(ids, x, a, m, s, z),
         NEW e, e = At(a, m, s) + 1, NEW n, n = Len(ids), DecoderLayout(ids, x, a, m, s, e, n),
         NEW cot, EncoderRead(cot, x, a, s), NEW E, NEW q, EmbedsOf(E, ids, x, a, m, s, n, q)
  PROVE  MeaningsAre(E, cot, x, a, m, s, e, n)
<1> DEFINE W == Where(ids, Ignored)
           mark(g) == IsMark(x.cot, input.k, g)
<1>1. /\ n \in Nat \ {0} /\ DOMAIN ids = 1..n /\ a \in Nat \ {0} /\ m \in 1..s /\ s \in Nat /\ e \in Nat
      /\ \A g \in m..s : At(a, m, g) \in W <=> mark(g)
      /\ \A g \in m..s : ids[At(a, m, g)] = SpreadAt(x.cot, input.k, Ignored, g)
      /\ \A w \in W : a < w /\ w < e
  <2>1. n \in Nat \ {0} /\ a \in Nat \ {0} /\ m \in 1..s /\ s \in Nat /\ e \in Nat
    BY DEF DecoderLayout, Laid, Latents, DecoderTokens
  <2>2. \A g \in m..s : ids[At(a, m, g)] = SpreadAt(x.cot, input.k, Ignored, g)
    BY DEF DecoderTokens, At
  <2>3. (\A g \in m..s : At(a, m, g) \in W <=> mark(g)) /\ \A w \in W : a < w /\ w < e
    BY DEF DecoderLayout, Laid, Latents
  <2>4. DOMAIN ids = 1..n
    BY LenProperties DEF DecoderLayout, Laid
  <2> QED
    BY <2>1, <2>2, <2>3, <2>4
<1>2. /\ \A j \in 1..n : j \notin W => E[j] = ids[j]
      /\ \A g \in m..s : mark(g) => E[At(a, m, g)] = <<"enc", a + g>>
  BY DEF EmbedsOf
<1>3. ASSUME NEW j \in 1..n, j \notin W, ids[j][1] # "enc" PROVE Meaning(E, cot, j) = {ids[j]}
  BY <1>2, <1>3, Zenon DEF Meaning
<1> HIDE DEF W, mark
<1>10. ASSUME NEW j \in 1..n PROVE PartAt(ids, x, a, m, s, z, e, n, j)
  <2>1. DecoderIs(ids, x, a, m, s, z, e, n)
    BY DEF DecoderIs
  <2> QED
    BY <2>1, DecoderParts, Zenon
<1>4. ASSUME NEW j \in 1..n-1, j <= a PROVE Meaning(E, cot, j) = {OpenToken(x, j)}
  <2>1. j \in 1..n /\ j \notin W
    BY <1>1, <1>4
  <2>4. PartAt(ids, x, a, m, s, z, e, n, j)
    BY <1>10, <2>1
  <2>2. ids[j] = OpenToken(x, j)
    BY <1>4, <2>4 DEF PartAt
  <2>3. OpenToken(x, j)[1] # "enc"
    BY EndTokens
  <2> QED
    BY <1>3, <2>1, <2>2, <2>3, Zenon
<1>5. ASSUME NEW j \in 1..n-1, e <= j PROVE Meaning(E, cot, j) = {CloseToken(x, j - e + 1)}
  <2>1. j \in 1..n /\ j \notin W
    BY <1>1, <1>5
  <2>5. PartAt(ids, x, a, m, s, z, e, n, j)
    BY <1>10, <2>1
  <2>2. j - e + 1 \in 1..z /\ ids[j] = CloseToken(x, j - e + 1)
    BY <1>5, <2>5 DEF PartAt
  <2>3. j - e + 1 \in Nat
    BY <2>2
  <2>4. CloseToken(x, j - e + 1)[1] # "enc"
    BY <2>3, EndTokens
  <2> QED
    BY <1>3, <2>1, <2>2, <2>4, Zenon
<1>6. ASSUME NEW g \in m..s PROVE At(a, m, g) \in 1..n
  <2>1. PICK j : j = At(a, m, g)
    OBVIOUS
  <2>2. e <= n
    BY DEF DecoderLayout, Laid
  <2>3. j = a + (g - m + 1) /\ e = a + (s - m + 1) + 1
    BY <2>1 DEF At
  <2>4. j \in 1..n
    BY <1>1, <2>2, <2>3
  <2> QED
    BY <2>1, <2>4
<1>7. ASSUME NEW g \in m..s, ~mark(g) PROVE Meaning(E, cot, At(a, m, g)) = {CotAt(g)}
  <2>1. ids[At(a, m, g)] = CotAt(g)
    BY <1>1, <1>7 DEF SpreadAt, CotAt, mark
  <2>2. CotAt(g)[1] # "enc"
    BY DEF CotAt
  <2>3. At(a, m, g) \notin W
    BY <1>1, <1>7
  <2> QED
    BY <1>3, <1>6, <2>1, <2>2, <2>3, Zenon
<1>8. ASSUME NEW g \in m..s, mark(g), NEW y
      PROVE  y \in Meaning(E, cot, At(a, m, g)) <=> ReadBefore(y, x, a, s, g)
  <2>1. E[At(a, m, g)] = <<"enc", a + g>>
    BY <1>2, <1>8
  <2>2. E[At(a, m, g)][1] = "enc" /\ E[At(a, m, g)][2] = a + g
    BY <2>1
  <2>3. Meaning(E, cot, At(a, m, g))
          = {cot[r] : r \in Reach(InductionMask(cot), Len(cot))[a + g]} \ {Compress}
    BY <2>2, Zenon DEF Meaning
  <2>4. g \in 1..s /\ IsMark(x.cot, input.k, g)
    BY <1>1, <1>8 DEF mark
  <2>5. y \in {cot[r] : r \in Reach(InductionMask(cot), Len(cot))[a + g]} \ {Compress}
          <=> ReadBefore(y, x, a, s, g)
    BY <2>4, EncoderSources
  <2> QED
    BY <2>3, <2>5, Zenon
<1> QED
  BY <1>4, <1>5, <1>7, <1>8 DEF MeaningsAre, mark

\* y is read before u of the spread reasoning, or of the closing before its f-th.
ReadUpTo(y, x, a, s, z, u, f) ==
  ReadBefore(y, x, a, s, u) \/ \E g \in 1..z : g < f /\ y = CloseToken(x, g)

\* Where the row before the f-th token at or after u is.
Span(a, m, s, z, e, n, u, f, i) ==
  /\ n \in Nat /\ a \in Nat \ {0} /\ m \in Nat /\ s \in Nat /\ m <= s /\ e \in Nat /\ z \in Nat \ {0}
  /\ u \in Nat /\ f \in Nat /\ i \in Nat /\ m < u /\ u <= s + 1 /\ 1 <= f /\ f <= z /\ i < n
  /\ e = a + (s - m + 1) + 1 /\ i = a + (u - m + 1) + (f - 2) /\ e + z = n + 1

(* A token of the spread reasoning at or before that row.                  *)
LEMMA SpanSpacer ==
  ASSUME NEW a, NEW m, NEW s, NEW z, NEW e, NEW n, NEW u, NEW f, NEW i, Span(a, m, s, z, e, n, u, f, i),
         NEW g \in m..s, NEW j, j = a + (g - m + 1)
  PROVE  /\ j \in 1..n-1 /\ a < j /\ j < e
         /\ j <= i /\ (f = 1 \/ u = s + 1) => g < u
         /\ g < u => j <= i
BY DEF Span

(* The opening is before it.                                               *)
LEMMA SpanOpening ==
  ASSUME NEW a, NEW m, NEW s, NEW z, NEW e, NEW n, NEW u, NEW f, NEW i, Span(a, m, s, z, e, n, u, f, i),
         NEW k \in 1..a
  PROVE  k \in 1..n-1 /\ k <= i
BY DEF Span

(* A token of the closing.                                                 *)
LEMMA SpanClosing ==
  ASSUME NEW a, NEW m, NEW s, NEW z, NEW e, NEW n, NEW u, NEW f, NEW i, Span(a, m, s, z, e, n, u, f, i),
         NEW j \in 1..n-1, e <= j, NEW g, g = j - e + 1
  PROVE  g \in 1..z /\ (j <= i => g < f) /\ (u = s + 1 /\ g < f => j <= i)
BY DEF Span

(* A token of the closing before the f-th.                                 *)
LEMMA SpanBack ==
  ASSUME NEW a, NEW m, NEW s, NEW z, NEW e, NEW n, NEW u, NEW f, NEW i, Span(a, m, s, z, e, n, u, f, i),
         NEW k \in 1..z, k < f, NEW j, j = e + k - 1, u = s + 1
  PROVE  j \in 1..n-1 /\ e <= j /\ j <= i /\ j - e + 1 = k
BY DEF Span

(* The row before the f-th token at or after u depends on what is before.  *)
LEMMA RowSources ==
  ASSUME InputOK, EndLen, NEW x \in Examples, x.cot # 0,
         NEW ids, NEW a, NEW m, NEW s, NEW z, DecoderTokens(ids, x, a, m, s, z),
         NEW e, e = At(a, m, s) + 1, NEW n, n = Len(ids), DecoderLayout(ids, x, a, m, s, e, n),
         NEW cot, NEW E, MeaningsAre(E, cot, x, a, m, s, e, n),
         NEW u \in m+1..s+1, NEW f \in 1..z, f = 1 \/ u = s + 1,
         NEW i \in 1..n-1, i = At(a, m, u) + f - 2, NEW y
  PROVE  (\E j \in 1..n-1 : Depends(Where(ids, Ignored), a, i, j) /\ y \in Meaning(E, cot, j))
           <=> ReadUpTo(y, x, a, s, z, u, f)
<1> DEFINE W == Where(ids, Ignored)
           mark(g) == IsMark(x.cot, input.k, g)
           M(j) == Meaning(E, cot, j)
<1>1. /\ n \in Nat \ {0} /\ a \in Nat \ {0} /\ s \in Nat \ {0} /\ m \in 1..s /\ e \in Nat /\ z \in Nat \ {0}
      /\ m = Mark(x.cot, input.k, 1) /\ s = SpreadLen(x.cot, input.k)
      /\ \A g \in m..s : At(a, m, g) \in W <=> mark(g)
      /\ \A w \in W : a < w /\ w < e
  BY DEF DecoderLayout, Laid, Latents, DecoderTokens
<1>2. W \subseteq 1..n /\ e <= n
  BY DEF Where, DecoderLayout, Laid
<1>3. /\ \A j \in 1..n-1 : j <= a => M(j) = {OpenToken(x, j)}
      /\ \A g \in m..s : ~mark(g) => M(At(a, m, g)) = {CotAt(g)}
      /\ \A g \in m..s : mark(g) => \A t : t \in M(At(a, m, g)) <=> ReadBefore(t, x, a, s, g)
      /\ \A j \in 1..n-1 : e <= j => M(j) = {CloseToken(x, j - e + 1)}
  BY DEF MeaningsAre
<1>4. mark(m) /\ mark(s) /\ \A g \in 1..s : mark(g) => m <= g
  <2>1. x.cot \in Nat \ {0} /\ input.k \in Nat \ {0}
    BY DEF Examples, InputOK
  <2>2. m = Mark(x.cot, input.k, 1) /\ s = SpreadLen(x.cot, input.k)
    BY <1>1
  <2>4. PICK c, k : c = x.cot /\ k = input.k
    OBVIOUS
  <2>5. c \in Nat \ {0} /\ k \in Nat \ {0} /\ m = Mark(c, k, 1) /\ s = SpreadLen(c, k)
    BY <2>1, <2>2, <2>4, Zenon
  <2>6. /\ IsMark(c, k, m) /\ IsMark(c, k, s) /\ \A g \in 1..s : IsMark(c, k, g) => m <= g
    BY <2>5, OuterMarks
  <2>3. /\ IsMark(x.cot, input.k, m) /\ IsMark(x.cot, input.k, s)
        /\ \A g \in 1..s : IsMark(x.cot, input.k, g) => m <= g
    BY <2>4, <2>6, Zenon
  <2> QED
    BY <2>3
<1>5. ASSUME NEW j \in 1..n, a < j, j < e PROVE \E g \in m..s : j = At(a, m, g)
  <2>1. j \in 1..n /\ a < j /\ j < e
    BY <1>5
  <2>2. DecoderIs(ids, x, a, m, s, z, e, n)
    BY DEF DecoderIs
  <2>3. PartAt(ids, x, a, m, s, z, e, n, j)
    BY <2>1, <2>2, DecoderParts, Zenon
  <2> QED
    BY <2>1, <2>3, Zenon DEF PartAt
<1>6. \A g \in Int : At(a, m, g) = a + (g - m + 1)
  BY DEF At
<1>7. /\ n \in Nat /\ a \in Nat \ {0} /\ m \in Nat /\ s \in Nat /\ m <= s /\ e \in Nat /\ z \in Nat
      /\ e = a + (s - m + 1) + 1 /\ i = a + (u - m + 1) + (f - 2)
      /\ u \in Nat /\ f \in Nat /\ i \in Nat /\ m < u /\ u <= s + 1 /\ 1 <= f /\ f <= z /\ i < n
      /\ e + z = n + 1 /\ a <= i
  <2>1. /\ n \in Nat /\ a \in Nat \ {0} /\ m \in Nat /\ s \in Nat /\ m <= s /\ e \in Nat /\ z \in Nat
        /\ u \in Nat /\ f \in Nat /\ i \in Nat /\ m < u /\ u <= s + 1 /\ 1 <= f /\ f <= z /\ i < n
    BY <1>1, SMTT(30)
  <2>2. e = a + (s - m + 1) + 1 /\ i = a + (u - m + 1) + (f - 2)
    <3>1. At(a, m, u) = a + (u - m + 1) /\ At(a, m, s) = a + (s - m + 1)
      BY DEF At
    <3>2. PICK k, l : k = At(a, m, u) /\ l = At(a, m, s)
      OBVIOUS
    <3>3. e = l + 1 /\ i = k + f - 2 /\ k = a + (u - m + 1) /\ l = a + (s - m + 1)
      BY <3>1, <3>2
    <3> QED
      BY <2>1, <3>3
  <2>3. e + z = n + 1
    <3>1. DecoderIs(ids, x, a, m, s, z, e, n)
      BY DEF DecoderIs
    <3>2. EndsOf(a, m, s, z, e, n)
      BY <3>1, DecoderEnds, Zenon
    <3> QED
      BY <3>2 DEF EndsOf
  <2>4. a <= i
    BY <2>1, <2>2, SMTT(20)
  <2> QED
    BY <2>1, <2>2, <2>3, <2>4
<1>16. Span(a, m, s, z, e, n, u, f, i)
  <2>1. z \in Nat \ {0}
    BY <1>1
  <2> QED
    BY <1>7, <2>1 DEF Span
<1>8. ASSUME NEW g \in m..s
      PROVE  /\ At(a, m, g) \in 1..n-1 /\ a < At(a, m, g) /\ At(a, m, g) < e
             /\ At(a, m, g) <= i => g < u
             /\ g < u => At(a, m, g) <= i
  <2>1. PICK j : j = At(a, m, g)
    OBVIOUS
  <2>2. j = a + (g - m + 1)
    BY <2>1 DEF At
  <2>3. /\ j \in 1..n-1 /\ a < j /\ j < e
        /\ j <= i /\ (f = 1 \/ u = s + 1) => g < u
        /\ g < u => j <= i
    BY <1>16, <2>2, SpanSpacer
  <2> QED
    BY <2>1, <2>3
<1> HIDE DEF W, mark, M
<1>9. ASSUME NEW g \in m..s, At(a, m, g) <= i PROVE g < u
  BY <1>8, <1>9
<1>10. ASSUME NEW g \in m..s, g < u PROVE At(a, m, g) <= i
  BY <1>8, <1>10
<1>11. ASSUME NEW j \in 1..n-1, Depends(W, a, i, j), y \in M(j) PROVE ReadUpTo(y, x, a, s, z, u, f)
  <2>1. j <= i
    BY <1>11 DEF Depends
  <2>2. CASE j <= a
    <3>1. y = OpenToken(x, j) /\ j \in 1..a
      BY <1>3, <1>11, <2>2
    <3> QED
      BY <3>1 DEF ReadUpTo, ReadBefore
  <2>3. CASE a < j /\ j < e
    <3>1. j \in 1..n
      BY <1>1
    <3>2. PICK g \in m..s : j = At(a, m, g)
      BY <1>5, <2>3, <3>1
    <3>3. g < u /\ g \in 1..s
      BY <1>1, <1>9, <2>1, <3>2
    <3>4. CASE mark(g)
      <4>1. ReadBefore(y, x, a, s, g)
        BY <1>3, <1>11, <3>2, <3>4
      <4>2. \A h \in 1..s : h < g => h < u
        BY <1>1, <3>3
      <4> QED
        BY <4>1, <4>2 DEF ReadUpTo, ReadBefore
    <3>5. CASE ~mark(g)
      <4>1. y = CotAt(g)
        BY <1>3, <1>11, <3>2, <3>5
      <4> QED
        BY <3>3, <3>5, <4>1 DEF ReadUpTo, ReadBefore, mark
    <3> QED
      BY <3>4, <3>5
  <2>4. CASE e <= j
    <3>1. y = CloseToken(x, j - e + 1)
      BY <1>3, <1>11, <2>4
    <3>2. PICK g : g = j - e + 1
      OBVIOUS
    <3>3. g \in 1..z /\ g < f
      BY <1>16, <2>1, <2>4, <3>2, SpanClosing
    <3> QED
      BY <3>1, <3>2, <3>3 DEF ReadUpTo
  <2> QED
    BY <1>1, <2>2, <2>3, <2>4
<1> DEFINE IsRead == \E j \in 1..n-1 : Depends(W, a, i, j) /\ y \in M(j)
<1>12. ASSUME NEW k \in 1..a, y = OpenToken(x, k) PROVE IsRead
  <2>1. k \in 1..n-1 /\ k <= i /\ k <= a
    <3>1. k \in 1..n-1 /\ k <= i
      BY <1>16, SpanOpening
    <3> QED
      BY <1>1, <3>1
  <2>2. y \in M(k) /\ Depends(W, a, i, k)
    BY <1>3, <1>12, <2>1 DEF Depends
  <2> QED
    BY <2>1, <2>2
<1>13. ASSUME NEW k \in 1..z, k < f, y = CloseToken(x, k) PROVE IsRead
  <2>1. PICK j : j = e + k - 1
    OBVIOUS
  <2>2. u = s + 1
    BY <1>1, <1>7, <1>13
  <2>3. j \in 1..n-1 /\ e <= j /\ j <= i /\ j - e + 1 = k
    BY <1>13, <1>16, <2>1, <2>2, SpanBack
  <2>4. NoneAfter(W, j, i)
    BY <1>1, <1>2, <2>3, SMTT(30) DEF NoneAfter
  <2>5. y \in M(j) /\ Depends(W, a, i, j)
    BY <1>3, <1>13, <2>3, <2>4 DEF Depends
  <2> QED
    BY <2>3, <2>5
<1>14. ASSUME NEW h \in 1..s, h < u, ~mark(h), y = CotAt(h) PROVE IsRead
  <2>1. CASE \E g \in m..s : mark(g) /\ h < g /\ g < u
    <3>1. PICK g \in m..s : mark(g) /\ h < g /\ g < u
      BY <2>1
    <3>2. PICK j : j = At(a, m, g)
      OBVIOUS
    <3>3. j \in 1..n-1 /\ j <= i /\ j \in W
      BY <1>1, <1>8, <1>10, <3>1, <3>2
    <3>4. Depends(W, a, i, j)
      BY <3>3 DEF Depends
    <3>5. ReadBefore(y, x, a, s, g)
      BY <1>14, <3>1 DEF ReadBefore, mark
    <3>6. y \in M(j)
      BY <1>3, <3>1, <3>2, <3>5
    <3> QED
      BY <3>3, <3>4, <3>6
  <2>2. CASE ~\E g \in m..s : mark(g) /\ h < g /\ g < u
    <3>1. m < h
      <4>1. ~(h < m)
        BY <1>1, <1>4, <2>2
      <4>2. h # m
        BY <1>4, <1>14
      <4> QED
        BY <1>1, <4>1, <4>2
    <3>2. h \in m..s
      BY <1>1, <3>1
    <3>3. PICK j : j = At(a, m, h)
      OBVIOUS
    <3>4. j \in 1..n-1 /\ j <= i
      BY <1>8, <1>10, <1>14, <3>2, <3>3
    <3>5. ASSUME NEW w \in W, j < w, w <= i PROVE FALSE
      <4>1. w \in 1..n /\ a < w /\ w < e
        BY <1>1, <1>2
      <4>2. PICK g \in m..s : w = At(a, m, g)
        BY <1>5, <4>1
      <4>3. mark(g) /\ g < u
        BY <1>1, <1>9, <3>5, <4>2
      <4>4. w = a + (g - m + 1) /\ j = a + (h - m + 1)
        BY <3>3, <4>2 DEF At
      <4>5. h < g
        <5>1. j < w /\ g \in Nat /\ h \in Nat
          BY <1>7, <3>5, <3>2
        <5> QED
          BY <1>7, <4>4, <5>1
      <4> QED
        BY <2>2, <4>3, <4>5
    <3>6. Depends(W, a, i, j)
      BY <3>4, <3>5 DEF Depends, NoneAfter
    <3>7. y \in M(j)
      BY <1>3, <1>14, <3>2, <3>3
    <3> QED
      BY <3>4, <3>6, <3>7
  <2> QED
    BY <2>1, <2>2
<1>15. ReadUpTo(y, x, a, s, z, u, f) => IsRead
  <2> HIDE DEF IsRead
  <2>1. CASE ReadBefore(y, x, a, s, u)
    BY <1>12, <1>14, <2>1 DEF ReadBefore, mark
  <2>2. CASE \E g \in 1..z : g < f /\ y = CloseToken(x, g)
    BY <1>13, <2>2
  <2> QED
    BY <2>1, <2>2 DEF ReadUpTo
<1> QED
  BY <1>11, <1>15 DEF W, M
-----------------------------------------------------------------------------
(* That is the text before the label.                                      *)

(* The tokens before u of the spread reasoning are those before its token. *)
LEMMA ReadIsEarlier ==
  ASSUME InputOK, NEW x \in Examples, x.cot # 0, NEW a, NEW s, s = SpreadLen(x.cot, input.k), NEW z,
         NEW u \in 1..s, ~IsMark(x.cot, input.k, u),
         NEW v, NEW r, NEW d, Between(x.cot, input.k, u, v, r, d), NEW f, NEW y
  PROVE  ReadUpTo(y, x, a, s, z, u, f) <=> Earlier(y, x, a, x.cot, z, v, f)
<1>1. PICK c, k : c = x.cot /\ k = input.k
  OBVIOUS
<1>2. c \in Nat \ {0} /\ k \in Nat \ {0}
  BY <1>1 DEF Examples, InputOK
<1>3. /\ s = SpreadLen(c, k) /\ ~IsMark(c, k, u) /\ Between(c, k, u, v, r, d)
      /\ u \in 1..SpreadLen(c, k)
  BY <1>1, Zenon
<1>4. ASSUME NEW h \in 1..s, ~IsMark(c, k, h)
      PROVE  \E w \in 1..c : CotAt(h) = <<"cot", w>> /\ (h < u <=> w < v)
  <2>1. PICK w : w = h - (h \div (k + 1))
    OBVIOUS
  <2>2. CotAt(h) = <<"cot", w>>
    BY <1>1, <2>1 DEF CotAt
  <2>3. PICK t, g : Between(c, k, h, w, t, g)
    <3>1. Between(c, k, h, h - (h \div (k + 1)), h \div (k + 1), h % (k + 1))
      BY <1>2, <1>3, <1>4, BetweenMarks
    <3> QED
      BY <2>1, <3>1, Zenon
  <2>4. w \in 1..c /\ (h < u <=> w < v)
    BY <1>2, <1>3, <2>3, SpreadOrder
  <2> QED
    BY <2>2, <2>4
<1>5. ASSUME NEW w \in 1..c
      PROVE  \E h \in 1..s : ~IsMark(c, k, h) /\ CotAt(h) = <<"cot", w>> /\ (h < u <=> w < v)
  <2>1. PICK h \in 1..SpreadLen(c, k) : \E t, g : ~IsMark(c, k, h) /\ Between(c, k, h, w, t, g)
    BY <1>2, SpreadOnto
  <2>2. PICK t, g : ~IsMark(c, k, h) /\ Between(c, k, h, w, t, g)
    BY <2>1
  <2>3. h < u <=> w < v
    BY <1>2, <1>3, <2>2, SpreadOrder
  <2>4. CotAt(h) = <<"cot", w>>
    BY <1>1, <2>2 DEF CotAt, Between
  <2> QED
    BY <1>3, <2>1, <2>2, <2>3, <2>4
<1>6. ReadBefore(y, x, a, s, u)
        <=> \/ \E i \in 1..a : y = OpenToken(x, i)
            \/ \E h \in 1..s : h < u /\ ~IsMark(c, k, h) /\ y = CotAt(h)
  BY <1>1, Zenon DEF ReadBefore
<1>7. (\E h \in 1..s : h < u /\ ~IsMark(c, k, h) /\ y = CotAt(h))
        <=> \E w \in 1..c : w < v /\ y = <<"cot", w>>
  <2>1. ASSUME NEW h \in 1..s, h < u, ~IsMark(c, k, h), y = CotAt(h)
        PROVE  \E w \in 1..c : w < v /\ y = <<"cot", w>>
    BY <1>4, <2>1, Zenon
  <2>2. ASSUME NEW w \in 1..c, w < v, y = <<"cot", w>>
        PROVE  \E h \in 1..s : h < u /\ ~IsMark(c, k, h) /\ y = CotAt(h)
    BY <1>5, <2>2, Zenon
  <2> QED
    BY <2>1, <2>2, Zenon
<1> QED
  BY <1>1, <1>6, <1>7, Zenon DEF ReadUpTo, Earlier

(* All of it is read before the closing.                                   *)
LEMMA ReadIsAll ==
  ASSUME InputOK, NEW x \in Examples, x.cot # 0, NEW a, NEW s, s = SpreadLen(x.cot, input.k), NEW z,
         NEW c, c = x.cot, NEW f, NEW y, NEW u, u = s + 1, NEW v, v = c + 1
  PROVE  ReadUpTo(y, x, a, s, z, u, f) <=> Earlier(y, x, a, c, z, v, f)
<1>1. PICK k : k = input.k
  OBVIOUS
<1>2. c \in Nat \ {0} /\ k \in Nat \ {0}
  BY <1>1 DEF Examples, InputOK
<1>3. s = SpreadLen(c, k) /\ s \in Nat
  <2>1. s = SpreadLen(c, k)
    BY <1>1, Zenon
  <2> QED
    BY <1>2, <2>1, OuterMarks
<1>4. ASSUME NEW h \in 1..s, ~IsMark(c, k, h)
      PROVE  \E w \in 1..c : CotAt(h) = <<"cot", w>>
  <2>1. PICK w : w = h - (h \div (k + 1))
    OBVIOUS
  <2>2. CotAt(h) = <<"cot", w>>
    BY <1>1, <2>1 DEF CotAt
  <2>3. Between(c, k, h, h - (h \div (k + 1)), h \div (k + 1), h % (k + 1))
    BY <1>2, <1>3, <1>4, BetweenMarks
  <2>4. w \in 1..c
    BY <2>1, <2>3 DEF Between
  <2> QED
    BY <2>2, <2>4
<1>5. ASSUME NEW w \in 1..c
      PROVE  \E h \in 1..s : ~IsMark(c, k, h) /\ CotAt(h) = <<"cot", w>>
  <2>1. PICK h \in 1..SpreadLen(c, k) : \E t, g : ~IsMark(c, k, h) /\ Between(c, k, h, w, t, g)
    BY <1>2, SpreadOnto
  <2>2. PICK t, g : ~IsMark(c, k, h) /\ Between(c, k, h, w, t, g)
    BY <2>1
  <2>4. CotAt(h) = <<"cot", w>>
    BY <1>1, <2>2 DEF CotAt, Between
  <2> QED
    BY <1>3, <2>1, <2>2, <2>4
<1>6. ReadBefore(y, x, a, s, u)
        <=> \/ \E i \in 1..a : y = OpenToken(x, i)
            \/ \E h \in 1..s : h < u /\ ~IsMark(c, k, h) /\ y = CotAt(h)
  BY <1>1, Zenon DEF ReadBefore
<1>7. (\A h \in 1..s : h < u) /\ (\A w \in 1..c : w < v)
  BY <1>2, <1>3
<1>8. (\E h \in 1..s : h < u /\ ~IsMark(c, k, h) /\ y = CotAt(h))
        <=> \E w \in 1..c : w < v /\ y = <<"cot", w>>
  <2>1. ASSUME NEW h \in 1..s, ~IsMark(c, k, h), y = CotAt(h)
        PROVE  \E w \in 1..c : w < v /\ y = <<"cot", w>>
    BY <1>4, <1>7, <2>1, Zenon
  <2>2. ASSUME NEW w \in 1..c, y = <<"cot", w>>
        PROVE  \E h \in 1..s : h < u /\ ~IsMark(c, k, h) /\ y = CotAt(h)
    BY <1>5, <1>7, <2>2, Zenon
  <2> QED
    BY <2>1, <2>2, Zenon
<1> QED
  BY <1>6, <1>8, Zenon DEF ReadUpTo, Earlier

\* The label of p is the f-th token at or after u of the spread reasoning, in
\* the text the f-th from the v-th of the reasoning on.
LabelAt(ids, t, x, a, m, s, z, p, u, v, f) ==
  /\ u \in m+1..s+1 /\ f \in 1..z /\ (f = 1 \/ u = s + 1) /\ p - 1 = At(a, m, u) + f - 2
  /\ v \in 1..x.cot+1 /\ (f = 1 \/ v = x.cot + 1) /\ ids[p] = t[a + v + f - 1]
  /\ \A y : ReadUpTo(y, x, a, s, z, u, f) <=> Earlier(y, x, a, x.cot, z, v, f)

(* Every label is.                                                         *)
LEMMA LabelPlace ==
  ASSUME InputOK, EndLen, NEW x \in Examples, x.cot # 0,
         NEW ids, NEW a, NEW m, NEW s, NEW z, DecoderTokens(ids, x, a, m, s, z),
         NEW e, e = At(a, m, s) + 1, NEW n, n = Len(ids), DecoderLayout(ids, x, a, m, s, e, n),
         NEW t, TextOf(t, x, a, x.cot, z), NEW p \in 1..n, a < p, ids[p] # Ignored
  PROVE  \E u, v, f : LabelAt(ids, t, x, a, m, s, z, p, u, v, f)
<1>1. PICK c : c = x.cot
  OBVIOUS
<1>2. /\ a \in Nat \ {0} /\ s \in Nat \ {0} /\ m \in 1..s /\ z \in Nat \ {0} /\ n \in Nat /\ e \in Nat
      /\ s = SpreadLen(x.cot, input.k) /\ m = Mark(x.cot, input.k, 1)
  BY DEF DecoderTokens, DecoderLayout, Laid, Latents
<1>3. c \in Nat \ {0}
  BY <1>1 DEF Examples
<1>4. /\ \A v \in 1..c : t[a + v] = <<"cot", v>>
      /\ \A i \in 1..z : t[a + c + i] = CloseToken(x, i)
  BY <1>1 DEF TextOf
<1>5. CASE p < e
  <2>1. p \notin Where(ids, Ignored)
    BY DEF Where
  <2>2. PICK q \in m..s : \E v, r, d : SpacerAt(ids, x, a, m, p, q, v, r, d)
    BY <1>5, <2>1, SpacerMeans
  <2>3. PICK v, r, d : SpacerAt(ids, x, a, m, p, q, v, r, d)
    BY <2>2
  <2>4. /\ p = At(a, m, q) /\ ~IsMark(x.cot, input.k, q)
        /\ Between(x.cot, input.k, q, v, r, d) /\ ids[p] = <<"cot", v>>
    BY <2>3 DEF SpacerAt
  <2>5. q # m
    <3>1. IsMark(x.cot, input.k, m)
      <4>1. PICK k : k = input.k
        OBVIOUS
      <4>2. k \in Nat \ {0} /\ m = Mark(c, k, 1) /\ s = SpreadLen(c, k)
        BY <1>1, <1>2, <4>1 DEF InputOK
      <4>3. IsMark(c, k, m)
        BY <1>3, <4>2, OuterMarks
      <4> QED
        BY <1>1, <4>1, <4>3, Zenon
    <3> QED
      BY <2>4, <3>1
  <2>6. v \in 1..c /\ q \in 1..s
    BY <1>1, <1>2, <2>4 DEF Between
  <2>7. q \in m+1..s+1 /\ 1 \in 1..z /\ v \in 1..c+1
    BY <1>2, <1>3, <2>5, <2>6
  <2>8. p - 1 = At(a, m, q) + 1 - 2 /\ a + v + 1 - 1 = a + v
    BY <1>2, <2>4, <2>6
  <2>9. ids[p] = t[a + v + 1 - 1]
    BY <1>4, <2>4, <2>6, <2>8
  <2>10. \A y : ReadUpTo(y, x, a, s, z, q, 1) <=> Earlier(y, x, a, x.cot, z, v, 1)
    BY <1>2, <2>4, <2>6, ReadIsEarlier
  <2>11. LabelAt(ids, t, x, a, m, s, z, p, q, v, 1)
    BY <1>1, <2>7, <2>8, <2>9, <2>10 DEF LabelAt
  <2> QED
    BY <2>11, Zenon
<1>6. CASE e <= p
  <2>1. PICK f : f = p - e + 1
    OBVIOUS
  <2>2. f \in 1..z /\ ids[p] = CloseToken(x, f)
    <3>1. DecoderIs(ids, x, a, m, s, z, e, n)
      BY DEF DecoderIs
    <3>2. PartAt(ids, x, a, m, s, z, e, n, p)
      BY <3>1, DecoderParts, Zenon
    <3> QED
      BY <1>6, <2>1, <3>2, Zenon DEF PartAt
  <2>3. PICK u, v : u = s + 1 /\ v = c + 1
    OBVIOUS
  <2>4. u \in m+1..s+1 /\ v \in 1..c+1
    BY <1>2, <1>3, <2>3
  <2>5. p - 1 = At(a, m, u) + f - 2
    <3>1. At(a, m, u) = a + (u - m + 1) /\ At(a, m, s) = a + (s - m + 1)
      BY DEF At
    <3>2. PICK k, l : k = At(a, m, u) /\ l = At(a, m, s)
      OBVIOUS
    <3>3. e = l + 1 /\ k = a + (u - m + 1) /\ l = a + (s - m + 1)
      BY <3>1, <3>2
    <3>4. a \in Nat /\ s \in Nat /\ m \in Nat /\ p \in Nat /\ e \in Nat
      BY <1>2
    <3>5. u - m + 1 = (s - m + 1) + 1
      BY <2>3, <3>4
    <3>6. k = l + 1 /\ l \in Int
      BY <3>3, <3>4, <3>5
    <3>7. k = e
      BY <3>3, <3>6
    <3>8. p - 1 = e + f - 2
      BY <2>1, <3>4, SMTT(30)
    <3> QED
      BY <3>2, <3>7, <3>8
  <2>6. a + v + f - 1 = a + c + f
    BY <1>2, <1>3, <2>2, <2>3
  <2>7. ids[p] = t[a + v + f - 1]
    BY <1>4, <2>2, <2>6
  <2>8. \A y : ReadUpTo(y, x, a, s, z, u, f) <=> Earlier(y, x, a, c, z, v, f)
    BY <1>1, <1>2, <2>3, ReadIsAll
  <2>9. LabelAt(ids, t, x, a, m, s, z, p, u, v, f)
    BY <1>1, <2>2, <2>3, <2>4, <2>5, <2>7, <2>8 DEF LabelAt
  <2> QED
    BY <2>9, Zenon
<1> QED
  BY <1>2, <1>5, <1>6

\* The row before the label at i + 1 depends on the text before that label.
ExactAt(b, t, lab, i) == Sources(b)[i] = ToSet(SubSeq(t, 1, Min(Where(t, lab[i + 1])) - 1))

(* What a label's row depends on is the text before the label.             *)
LEMMA RowExact ==
  ASSUME input \in Batches, NoneEmpty, batch = Batch1, NEW b \in Rows,
         input.examples[b].marker = "none",
         embeds[b] = Scatter(batch.input_ids[b], batch.cot_ids[b]),
         NEW t, t = Text(input.examples[b]), NEW lab, lab = batch.labels[b],
         NEW i \in 1..Len(lab) - 1, lab[i + 1] # Ignored
  PROVE  ExactAt(b, t, lab, i)
<1> DEFINE E == embeds[b]
           cot == batch.cot_ids[b]
           pad == batch.input_ids[b]
           D == Reach(SupervisionMask(pad), Len(E))[i]
           R == ToSet(SubSeq(t, 1, Min(Where(t, lab[i + 1])) - 1))
<1>1. InputOK /\ EndLen
  BY Inputs
<1>2. PICK x, ids, a, m, s, z, e, n, q : RowOf(b, x, ids, a, m, s, z, e, n, q)
  BY RowIs
<1>3. RowPadded(pad, lab, ids, a, n, q)
  BY <1>2, RowCollated
<1>4. EmbedsOf(E, ids, x, a, m, s, n, q) /\ EncoderRead(cot, x, a, s)
  <2>1. EncoderRead(cot, x, a, s)
    BY <1>2, EncoderReadIs
  <2>2. PICK F : F = Scatter(batch.input_ids[b], batch.cot_ids[b])
    OBVIOUS
  <2>3. EmbedsOf(F, ids, x, a, m, s, n, q)
    BY <1>2, <2>2, EmbedsAre
  <2> QED
    BY <2>1, <2>2, <2>3, Zenon
<1>5. Sources(b) = [k \in 1..Len(E) |-> UNION {Meaning(E, cot, j) : j \in Reach(SupervisionMask(pad), Len(E))[k]}]
  BY Zenon DEF Sources, Meaning
<1>6. /\ x = input.examples[b] /\ x \in Examples /\ x.cot # 0 /\ DecoderTokens(ids, x, a, m, s, z)
      /\ e = At(a, m, s) + 1 /\ n = Len(ids) /\ DecoderLayout(ids, x, a, m, s, e, n)
      /\ q \in Nat /\ n <= q
  BY <1>2 DEF RowOf
<1> HIDE DEF E, cot, pad
<1>7. /\ Len(lab) = q /\ (\A h \in 1..q : lab[h] = IF h <= a \/ n < h THEN Ignored ELSE ids[h])
      /\ SupervisionMask(pad) = SupervisionMask(ids) /\ Len(E) = q
  BY <1>3, <1>4 DEF RowPadded, EmbedsOf
<1>8. /\ Laid(ids, a, e, n) /\ NoPad(ids, n - 1) /\ n \in Nat \ {0} /\ a \in Nat
  BY <1>6, Zenon DEF DecoderLayout, DecoderTokens
<1>9. i \in 1..q-1 /\ i + 1 \in 1..q
  <2>1. i \in 1..q-1
    BY <1>7, Zenon
  <2> QED
    BY <1>6, <2>1
<1>10. a < i + 1 /\ i + 1 <= n /\ lab[i + 1] = ids[i + 1]
  <2>1. ~(i + 1 <= a \/ n < i + 1) /\ lab[i + 1] = ids[i + 1]
    BY <1>7, <1>9
  <2> QED
    BY <1>8, <1>9, <2>1
<1>11. PICK p : p = i + 1
  OBVIOUS
<1>12. p \in 1..n /\ a < p /\ ids[p] # Ignored /\ i \in 1..n-1 /\ p - 1 = i /\ lab[i + 1] = ids[p]
  <2>1. lab[i + 1] # Ignored
    OBVIOUS
  <2> QED
    BY <1>8, <1>9, <1>10, <1>11, <2>1
<1>13. TextOf(t, x, a, x.cot, z)
  <2>1. a = x.prompt + 1 /\ z = input.endLen + x.answer + 1 /\ x.marker = "none"
    BY <1>2, <1>6, Zenon DEF DecoderTokens, RowOf
  <2>2. TextOf(Text(x), x, a, x.cot, z)
    BY <1>1, <1>6, <2>1, TextIs
  <2> QED
    BY <1>6, <2>2, Zenon
<1>14. PICK u, v, f : LabelAt(ids, t, x, a, m, s, z, p, u, v, f)
  BY <1>1, <1>6, <1>12, <1>13, LabelPlace
<1>15. /\ u \in m+1..s+1 /\ f \in 1..z /\ (f = 1 \/ u = s + 1) /\ i = At(a, m, u) + f - 2
       /\ v \in 1..x.cot+1 /\ (f = 1 \/ v = x.cot + 1) /\ ids[p] = t[a + v + f - 1]
       /\ \A y : ReadUpTo(y, x, a, s, z, u, f) <=> Earlier(y, x, a, x.cot, z, v, f)
  BY <1>12, <1>14 DEF LabelAt
<1>16. MeaningsAre(E, cot, x, a, m, s, e, n)
  BY <1>1, <1>4, <1>6, MeaningIs
<1>17. ASSUME NEW y
       PROVE  (\E j \in 1..n-1 : Depends(Where(ids, Ignored), a, i, j) /\ y \in Meaning(E, cot, j))
                <=> ReadUpTo(y, x, a, s, z, u, f)
  <2>1. /\ InputOK /\ EndLen /\ x \in Examples /\ x.cot # 0 /\ DecoderTokens(ids, x, a, m, s, z)
        /\ e = At(a, m, s) + 1 /\ n = Len(ids) /\ DecoderLayout(ids, x, a, m, s, e, n)
        /\ MeaningsAre(E, cot, x, a, m, s, e, n)
        /\ u \in m+1..s+1 /\ f \in 1..z /\ (f = 1 \/ u = s + 1)
        /\ i \in 1..n-1 /\ i = At(a, m, u) + f - 2
    BY <1>1, <1>6, <1>12, <1>15, <1>16
  <2> QED
    BY <2>1, RowSources, SMTT(20)
<1>18. ASSUME NEW j PROVE j \in D <=> j \in 1..n-1 /\ Depends(Where(ids, Ignored), a, i, j)
  <2>1. PICK h : h = n - 1
    OBVIOUS
  <2>2. h \in 0..n /\ NoPad(ids, h) /\ i \in 1..h /\ n \in Nat
    BY <1>8, <1>12, <2>1
  <2>4. n \in Nat /\ Laid(ids, a, e, n) /\ h \in 0..n /\ NoPad(ids, h) /\ q \in Nat /\ n <= q /\ i \in 1..h
    BY <1>6, <1>8, <2>2
  <2>3. j \in Reach(SupervisionMask(ids), q)[i] <=> j \in 1..h /\ Depends(Where(ids, Ignored), a, i, j)
    BY <2>4, DecoderReaches, ZenonT(60)
  <2> QED
    BY <1>7, <2>1, <2>3, Zenon
<1>19. PICK h, c, k : h = a + v + f - 1 /\ c = x.cot /\ k = a + c + z
  OBVIOUS
<1>20. TextOf(t, x, a, c, z) /\ t \in Seq(AnyToken) /\ Len(t) = k /\ k \in Nat /\ AllDistinct(t, k) /\ h \in 1..k
  <2>1. TextOf(t, x, a, c, z)
    BY <1>13, <1>19
  <2>2. /\ a \in Nat \ {0} /\ c \in Nat \ {0} /\ z \in Nat \ {0} /\ t \in Seq(AnyToken)
        /\ Len(t) = a + c + z
    BY <2>1 DEF TextOf
  <2>3. AllDistinct(t, k)
    BY <1>1, <1>6, <1>19, <2>1, TextDistinct
  <2>4. h \in 1..k
    <3>1. v \in 1..c+1 /\ f \in 1..z /\ (f = 1 \/ v = c + 1)
      BY <1>15, <1>19
    <3>2. v \in Nat /\ f \in Nat /\ 1 <= v /\ 1 <= f /\ v <= c + 1 /\ f <= z /\ a \in Nat /\ c \in Nat /\ z \in Nat
          /\ 1 <= c /\ 1 <= z
      BY <2>2, <3>1
    <3>3. h = a + (v - 1) + f /\ k = a + c + z
      BY <1>19, <3>2
    <3> QED
      BY <3>2, <3>3
  <2> QED
    BY <1>19, <2>1, <2>2, <2>3, <2>4
<1>21. ASSUME NEW y PROVE (\E g \in 1..h-1 : y = t[g]) <=> Earlier(y, x, a, c, z, v, f)
  <2>1. v \in 1..c+1 /\ f \in 1..z /\ (f = 1 \/ v = c + 1) /\ h = a + v + f - 1
    BY <1>15, <1>19
  <2> QED
    BY <1>20, <2>1, EarlierIs
<1>22. ASSUME NEW y PROVE y \in R <=> \E g \in 1..h-1 : y = t[g]
  <2>3. k \in Nat /\ t \in Seq(AnyToken) /\ Len(t) = k /\ AllDistinct(t, k) /\ h \in 1..k
    BY <1>20, Zenon
  <2>1. y \in ToSet(SubSeq(t, 1, Min(Where(t, t[h])) - 1)) <=> \E g \in 1..h-1 : y = t[g]
    <3>1. ComesBefore(t, h, y) <=> AmongFirst(t, h, y)
      BY <2>3, BeforeToken, Zenon
    <3> QED
      BY <3>1, Zenon DEF ComesBefore, AmongFirst
  <2>2. lab[i + 1] = t[h]
    BY <1>12, <1>15, <1>19, Zenon
  <2> QED
    BY <2>1, <2>2, Zenon
<1>23. Sources(b)[i] = UNION {Meaning(E, cot, j) : j \in D}
  <2>1. i \in 1..Len(E)
    BY <1>6, <1>7, <1>9
  <2> QED
    BY <1>5, <2>1, Zenon
<1> HIDE DEF R, D
<1>24. ASSUME NEW y PROVE y \in UNION {Meaning(E, cot, j) : j \in D} <=> y \in R
  <2>1. y \in UNION {Meaning(E, cot, j) : j \in D} <=> \E j \in D : y \in Meaning(E, cot, j)
    OBVIOUS
  <2>2. (\E j \in D : y \in Meaning(E, cot, j))
          <=> \E j \in 1..n-1 : Depends(Where(ids, Ignored), a, i, j) /\ y \in Meaning(E, cot, j)
    BY <1>18, Zenon
  <2>3. Earlier(y, x, a, c, z, v, f) <=> Earlier(y, x, a, x.cot, z, v, f)
    BY <1>19, Zenon
  <2> QED
    BY <1>15, <1>17, <1>21, <1>22, <2>1, <2>2, <2>3, Zenon
<1>25. UNION {Meaning(E, cot, j) : j \in D} = R
  BY <1>24
<1> QED
  BY <1>23, <1>25, Zenon DEF R, ExactAt

\* The labels are the tokens of tail, without the first segment.
LabelsCover(lab, tail) == ToSet(lab) \ {Ignored} = ToSet(tail) \ {<<"cot", c>> : c \in 1..input.k}

(* The labels are the text behind the first segment.                       *)
LEMMA LabelTokens ==
  ASSUME input \in Batches, NoneEmpty, batch = Batch1, NEW b \in Rows,
         input.examples[b].marker = "none",
         NEW x, x = input.examples[b], NEW lab, lab = batch.labels[b],
         NEW tail, tail = Tokens("cot", x.cot) \o EndThink \o SuffixIds(x)
  PROVE  LabelsCover(lab, tail)
<1> DEFINE w == Tokens("cot", x.cot)
           fin == Closing(x)
<1>1. InputOK /\ EndLen
  BY Inputs
<1>2. PICK X, ids, a, m, s, z, e, n, q : RowOf(b, X, ids, a, m, s, z, e, n, q)
  BY RowIs
<1>3. /\ X = x /\ x \in Examples /\ x.cot # 0 /\ x.marker = "none" /\ DecoderTokens(ids, x, a, m, s, z)
      /\ e = At(a, m, s) + 1 /\ n = Len(ids) /\ DecoderLayout(ids, x, a, m, s, e, n)
      /\ q \in Nat /\ n <= q
  BY <1>2 DEF RowOf
<1>4. /\ Len(lab) = q /\ (\A h \in 1..q : lab[h] = IF h <= a \/ n < h THEN Ignored ELSE ids[h])
  <2>1. RowPadded(batch.input_ids[b], lab, ids, a, n, q)
    BY <1>2, RowCollated
  <2> QED
    BY <2>1 DEF RowPadded
<1>5. PICK c, k : c = x.cot /\ k = input.k
  OBVIOUS
<1>6. /\ a \in Nat \ {0} /\ s \in Nat \ {0} /\ m \in 1..s /\ z \in Nat \ {0} /\ n \in Nat \ {0} /\ e \in Nat
      /\ s = SpreadLen(c, k) /\ m = Mark(c, k, 1) /\ c \in Nat \ {0} /\ k \in Nat \ {0}
      /\ z = input.endLen + x.answer + 1
      /\ \A g \in m..s : ids[At(a, m, g)] = SpreadAt(c, k, Ignored, g)
  <2>1. c \in Nat \ {0} /\ k \in Nat \ {0}
    BY <1>1, <1>3, <1>5 DEF Examples, InputOK
  <2>2. /\ a \in Nat \ {0} /\ s \in Nat \ {0} /\ m \in 1..s /\ z \in Nat \ {0} /\ n \in Nat \ {0} /\ e \in Nat
        /\ s = SpreadLen(c, k) /\ m = Mark(c, k, 1) /\ z = input.endLen + x.answer + 1
    BY <1>3, <1>5, Zenon DEF DecoderTokens, DecoderLayout, Laid, Latents
  <2>3. \A g \in m..s : ids[At(a, m, g)] = SpreadAt(c, k, Ignored, g)
    BY <1>3, <1>5, Zenon DEF DecoderTokens, At
  <2> QED
    BY <2>1, <2>2, <2>3
<1>7. IsMark(c, k, m)
  BY <1>6, OuterMarks
<1>8. Joins(tail, w, fin) /\ w \in Seq(AnyToken) /\ Len(w) = c /\ (\A v \in 1..c : w[v] = <<"cot", v>>)
      /\ fin \in Seq(AnyToken) /\ Len(fin) = z /\ \A f \in 1..z : fin[f] = CloseToken(x, f)
  <2>1. w \in Seq(AnyToken) /\ Len(w) = c /\ \A v \in 1..c : w[v] = <<"cot", v>>
    <3>1. \A i \in 1..c : <<"cot", i>> \in AnyToken
      BY <1>6 DEF AnyToken, Kinds
    <3>2. PICK r : r = Tokens("cot", c)
      OBVIOUS
    <3>3. r \in Seq(AnyToken) /\ Len(r) = c /\ \A v \in 1..c : r[v] = <<"cot", v>>
      BY <1>6, <3>1, <3>2, TokensProperties
    <3>4. w = r
      BY <1>5, <3>2, Zenon
    <3> QED
      BY <3>3, <3>4, Zenon
  <2>2. fin \in Seq(AnyToken) /\ Len(fin) = z /\ \A f \in 1..z : fin[f] = CloseToken(x, f)
    <3>1. ClosesAs(Closing(x), x, z)
      BY <1>1, <1>3, <1>6, CleanEnds
    <3> QED
      BY <3>1 DEF ClosesAs
  <2>3. Joins(tail, w, fin)
    <3> DEFINE B == EndThink
               S == SuffixIds(x)
    <3>1. B \in Seq(AnyToken) /\ S \in Seq(AnyToken)
      BY <1>1, <1>3, Pieces, PlainMeans
    <3>2. tail = (w \o B) \o S /\ fin = B \o S
      BY DEF Closing
    <3> HIDE DEF w, B, S, fin
    <3>3. (w \o B) \o S = w \o (B \o S)
      BY <2>1, <3>1, ConcatAssociative, SMTT(30)
    <3> QED
      BY <3>2, <3>3, Zenon DEF Joins
  <2> QED
    BY <2>1, <2>2, <2>3
<1> HIDE DEF w, fin
<1>9. ASSUME NEW y
      PROVE  y \in ToSet(tail) <=> \/ \E v \in 1..c : y = <<"cot", v>>
                                   \/ \E f \in 1..z : y = CloseToken(x, f)
  <2>1. JoinOf(tail, w, fin, c, z, AnyToken)
    BY <1>6, <1>8, Concatenation
  <2>2. DOMAIN tail = 1..c+z /\ \A i \in 1..c+z : tail[i] = IF i <= c THEN w[i] ELSE fin[i - c]
    <3>1. /\ tail \in Seq(AnyToken) /\ Len(tail) = c + z
          /\ \A i \in 1..c+z : tail[i] = IF i <= c THEN w[i] ELSE fin[i - c]
      BY <2>1 DEF JoinOf
    <3>2. DOMAIN tail = 1..Len(tail)
      BY <3>1, LenProperties
    <3> QED
      BY <3>1, <3>2, Zenon
  <2>3. y \in ToSet(tail) <=> \E i \in 1..c+z : y = tail[i]
    BY <2>2 DEF ToSet
  <2>4. ASSUME NEW i \in 1..c+z, y = tail[i]
        PROVE  (\E v \in 1..c : y = <<"cot", v>>) \/ \E f \in 1..z : y = CloseToken(x, f)
    <3>1. CASE i <= c
      <4>1. i \in 1..c
        BY <1>6, <3>1
      <4> QED
        BY <1>8, <2>2, <2>4, <3>1, <4>1
    <3>2. CASE ~(i <= c)
      <4>1. i - c \in 1..z
        BY <1>6, <3>2
      <4> QED
        BY <1>8, <2>2, <2>4, <3>2, <4>1
    <3> QED
      BY <3>1, <3>2
  <2>5. ASSUME NEW v \in 1..c, y = <<"cot", v>> PROVE \E i \in 1..c+z : y = tail[i]
    <3>1. v \in 1..c+z /\ v <= c
      BY <1>6
    <3> QED
      BY <1>8, <2>2, <2>5, <3>1
  <2>6. ASSUME NEW f \in 1..z, y = CloseToken(x, f) PROVE \E i \in 1..c+z : y = tail[i]
    <3>1. PICK i : i = c + f
      OBVIOUS
    <3>2. i \in 1..c+z /\ ~(i <= c) /\ i - c = f
      BY <1>6, <3>1
    <3>3. tail[i] = fin[f]
      BY <2>2, <3>2
    <3> QED
      BY <1>8, <2>6, <3>2, <3>3
  <2> QED
    BY <2>3, <2>4, <2>5, <2>6
<1>10. ASSUME NEW y
       PROVE  y \in ToSet(lab) \ {Ignored} <=> \E p \in 1..n : a < p /\ ids[p] # Ignored /\ y = ids[p]
  <2>1. lab \in Seq(AnyToken)
    <3>1. RowPadded(batch.input_ids[b], lab, ids, a, n, q)
      BY <1>2, RowCollated
    <3>2. lab = RightPad(LabelRows, Ignored)[b] /\ a = Len(Opening(x)) /\ ids = DecoderIds(x)
      BY <1>2, <1>3, Batch1Is DEF RowOf
    <3> QED
      BY <1>3, <3>2, LabelRow
  <2>2. DOMAIN lab = 1..q
    BY <1>4, <2>1
  <2>3. y \in ToSet(lab) <=> \E p \in 1..q : y = lab[p]
    BY <2>2 DEF ToSet
  <2>4. ASSUME NEW p \in 1..q, y = lab[p], y # Ignored
        PROVE  \E h \in 1..n : a < h /\ ids[h] # Ignored /\ y = ids[h]
    <3>1. ~(p <= a) /\ ~(n < p) /\ y = ids[p]
      BY <1>4, <2>4
    <3>2. p \in 1..n /\ a < p
      BY <1>6, <3>1
    <3> QED
      BY <2>4, <3>1, <3>2
  <2>5. ASSUME NEW p \in 1..n, a < p, ids[p] # Ignored, y = ids[p]
        PROVE  y # Ignored /\ \E h \in 1..q : y = lab[h]
    <3>1. p \in 1..q /\ ~(p <= a) /\ ~(n < p)
      BY <1>3, <1>6, <2>5
    <3>2. lab[p] = ids[p]
      BY <1>4, <3>1
    <3> QED
      BY <2>5, <3>1, <3>2
  <2> QED
    BY <2>3, <2>4, <2>5
<1>11. ASSUME NEW p \in 1..n, a < p, ids[p] # Ignored
       PROVE  \/ \E v \in 1..c : k < v /\ ids[p] = <<"cot", v>>
              \/ \E f \in 1..z : ids[p] = CloseToken(x, f)
  <2>1. CASE p < e
    <3>1. p \notin Where(ids, Ignored)
      BY <1>11 DEF Where
    <3>2. PICK g \in m..s : \E v, r, d : SpacerAt(ids, x, a, m, p, g, v, r, d)
      BY <1>1, <1>3, <1>11, <2>1, <3>1, SpacerMeans
    <3>3. PICK v, r, d : SpacerAt(ids, x, a, m, p, g, v, r, d)
      BY <3>2
    <3>4. ~IsMark(c, k, g) /\ Between(c, k, g, v, r, d) /\ ids[p] = <<"cot", v>>
      BY <1>5, <3>3 DEF SpacerAt
    <3>5. m < g /\ g \in 1..s
      <4>1. g # m
        BY <1>7, <3>4
      <4> QED
        BY <1>6, <4>1
    <3>6. k < v
      BY <1>6, <3>4, <3>5, AfterFirst
    <3>7. v \in 1..c
      BY <3>4 DEF Between
    <3> QED
      BY <3>4, <3>6, <3>7
  <2>2. CASE e <= p
    <3>1. p - e + 1 \in 1..z /\ ids[p] = CloseToken(x, p - e + 1)
      <4>1. DecoderIs(ids, x, a, m, s, z, e, n)
        BY <1>3 DEF DecoderIs
      <4>2. PartAt(ids, x, a, m, s, z, e, n, p)
        BY <4>1, DecoderParts, Zenon
      <4> QED
        BY <2>2, <4>2, Zenon DEF PartAt
    <3> QED
      BY <3>1
  <2> QED
    BY <1>6, <2>1, <2>2
<1>12. ASSUME NEW v \in 1..c, k < v PROVE \E p \in 1..n : a < p /\ ids[p] # Ignored /\ <<"cot", v>> = ids[p]
  <2>1. PICK g \in 1..SpreadLen(c, k) : \E r, d : ~IsMark(c, k, g) /\ Between(c, k, g, v, r, d)
    BY <1>6, SpreadOnto
  <2>2. PICK r, d : ~IsMark(c, k, g) /\ Between(c, k, g, v, r, d)
    BY <2>1
  <2>3. m < g
    BY <1>6, <1>12, <2>1, <2>2, AfterFirst
  <2>4. g \in m..s
    BY <1>6, <2>1, <2>3
  <2>5. ids[At(a, m, g)] = <<"cot", v>>
    <3>1. g - (g \div (k + 1)) = v
      BY <2>2 DEF Between
    <3> QED
      BY <1>6, <2>2, <2>4, <3>1 DEF SpreadAt
  <2>6. PICK p : p = At(a, m, g)
    OBVIOUS
  <2>7. p \in 1..n /\ a < p
    <3>1. p = a + (g - m + 1) /\ e = a + (s - m + 1) + 1
      BY <1>3, <2>6 DEF At
    <3>2. e <= n
      BY <1>3 DEF DecoderLayout, Laid
    <3>3. /\ a \in Nat \ {0} /\ s \in Nat /\ m \in Nat /\ g \in Nat /\ n \in Nat /\ e \in Nat
          /\ m <= g /\ g <= s
      BY <1>6, <2>4
    <3>4. p \in Int /\ a < p /\ p < e
      BY <3>1, <3>3
    <3> QED
      BY <3>2, <3>3, <3>4
  <2>8. <<"cot", v>> # Ignored
    BY DEF Ignored
  <2> QED
    BY <2>5, <2>6, <2>7, <2>8
<1>13. ASSUME NEW f \in 1..z PROVE \E p \in 1..n : a < p /\ ids[p] # Ignored /\ CloseToken(x, f) = ids[p]
  <2>1. PICK p : p = e + f - 1
    OBVIOUS
  <2>2. e + z = n + 1 /\ a + 1 < e
    <3>1. DecoderIs(ids, x, a, m, s, z, e, n)
      BY <1>3 DEF DecoderIs
    <3>2. EndsOf(a, m, s, z, e, n)
      BY <3>1, DecoderEnds, Zenon
    <3> QED
      BY <3>2 DEF EndsOf
  <2>3. p \in 1..n /\ e <= p /\ a < p /\ p - e + 1 = f
    BY <1>6, <2>1, <2>2
  <2>4. ids[p] = CloseToken(x, f)
    <3>1. DecoderIs(ids, x, a, m, s, z, e, n)
      BY <1>3 DEF DecoderIs
    <3>2. PartAt(ids, x, a, m, s, z, e, n, p)
      BY <2>3, <3>1, DecoderParts, Zenon
    <3> QED
      BY <2>3, <3>2, Zenon DEF PartAt
  <2>5. CloseToken(x, f) # Ignored
    BY <1>1, <1>3, <1>6, EndTokens
  <2> QED
    BY <2>3, <2>4, <2>5
<1>14. \A f \in 1..z : \A v : CloseToken(x, f) # <<"cot", v>>
  <2>1. ASSUME NEW f \in 1..z, NEW v PROVE CloseToken(x, f) # <<"cot", v>>
    <3>1. CloseToken(x, f)[1] # "cot" /\ <<"cot", v>>[1] = "cot"
      BY <1>1, <1>3, <1>6, EndTokens, SMTT(30)
    <3> QED
      BY <3>1
  <2> QED
    BY <2>1
<1>15. ASSUME NEW y PROVE y \in {<<"cot", v>> : v \in 1..k} <=> \E v \in 1..k : y = <<"cot", v>>
  OBVIOUS
<1>16. ASSUME NEW y
       PROVE  y \in ToSet(lab) \ {Ignored} <=> y \in ToSet(tail) \ {<<"cot", v>> : v \in 1..k}
  <2>1. ASSUME NEW v \in 1..c, k < v, y = <<"cot", v>>
        PROVE  y \in ToSet(tail) /\ ~\E g \in 1..k : y = <<"cot", g>>
    <3>1. ASSUME NEW g \in 1..k, y = <<"cot", g>> PROVE FALSE
      BY <1>6, <2>1, <3>1
    <3> QED
      BY <1>9, <2>1, <3>1
  <2>2. ASSUME NEW f \in 1..z, y = CloseToken(x, f)
        PROVE  y \in ToSet(tail) /\ ~\E g \in 1..k : y = <<"cot", g>>
    BY <1>9, <1>14, <2>2
  <2>3. ASSUME NEW v \in 1..c, y = <<"cot", v>>, ~\E g \in 1..k : y = <<"cot", g>> PROVE k < v
    <3>1. ASSUME v <= k PROVE FALSE
      <4>1. v \in 1..k
        BY <1>6, <3>1
      <4> QED
        BY <2>3, <4>1
    <3> QED
      BY <1>6, <3>1
  <2>4. ASSUME y \in ToSet(lab) \ {Ignored} PROVE y \in ToSet(tail) /\ ~\E g \in 1..k : y = <<"cot", g>>
    <3>1. PICK p \in 1..n : a < p /\ ids[p] # Ignored /\ y = ids[p]
      BY <1>10, <2>4
    <3>2. CASE \E v \in 1..c : k < v /\ ids[p] = <<"cot", v>>
      BY <2>1, <3>1, <3>2
    <3>3. CASE \E f \in 1..z : ids[p] = CloseToken(x, f)
      BY <2>2, <3>1, <3>3
    <3> QED
      BY <1>11, <3>1, <3>2, <3>3
  <2>5. ASSUME y \in ToSet(tail), ~\E g \in 1..k : y = <<"cot", g>>
        PROVE  \E p \in 1..n : a < p /\ ids[p] # Ignored /\ y = ids[p]
    <3>1. CASE \E v \in 1..c : y = <<"cot", v>>
      BY <1>12, <2>3, <2>5, <3>1
    <3>2. CASE \E f \in 1..z : y = CloseToken(x, f)
      BY <1>13, <3>2
    <3> QED
      BY <1>9, <2>5, <3>1, <3>2
  <2> QED
    BY <1>10, <1>15, <2>4, <2>5
<1>17. ToSet(lab) \ {Ignored} = ToSet(tail) \ {<<"cot", v>> : v \in 1..k}
  BY <1>16
<1> QED
  BY <1>5, <1>17, Zenon DEF LabelsCover

(* Every label depends on exactly the text before it, and the labels are    *)
(* the text behind the first segment: nothing leaks through either mask and *)
(* nothing earlier is cut off, whatever the batch, the segment length and   *)
(* the texts, as long as no text that is taken quotes the end marker.      *)
THEOREM LabelsSeeTheirText == CleanText => (Spec => []LabelSourcesExact)
<1>1. ASSUME CleanText, IInv, pc = "trained", NEW b \in Rows
      PROVE  /\ input \in Batches /\ NoneEmpty /\ batch = Batch1 /\ input.examples[b].marker = "none"
             /\ embeds[b] = Scatter(batch.input_ids[b], batch.cot_ids[b])
  <2>1. input \in Batches /\ ~SomeRefused /\ batch = Batch1 /\ embeds = Scattered(batch)
    BY <1>1 DEF IInv
  <2>2. NoneEmpty
    BY <2>1, TakenMeans
  <2>3. input.examples[b].marker = "none"
    BY <1>1, <2>1, CleanRows
  <2>4. embeds[b] = Scatter(batch.input_ids[b], batch.cot_ids[b])
    BY <2>1, Zenon DEF Scattered
  <2> QED
    BY <2>1, <2>2, <2>3, <2>4
<1>2. ASSUME CleanText, IInv, pc = "trained", NEW b \in Rows, NEW x, x = input.examples[b],
             NEW lab, lab = batch.labels[b]
      PROVE  LabelsCover(lab, Tokens("cot", x.cot) \o EndThink \o SuffixIds(x))
  <2>1. /\ input \in Batches /\ NoneEmpty /\ batch = Batch1 /\ input.examples[b].marker = "none"
    BY <1>1, <1>2
  <2>2. PICK tail : tail = Tokens("cot", x.cot) \o EndThink \o SuffixIds(x)
    OBVIOUS
  <2>3. LabelsCover(lab, tail)
    BY <1>2, <2>1, <2>2, LabelTokens
  <2> QED
    BY <2>2, <2>3, Zenon
<1>3. ASSUME CleanText, IInv, pc = "trained", NEW b \in Rows, NEW t, t = Text(input.examples[b]),
             NEW lab, lab = batch.labels[b]
      PROVE  \A i \in 1..Len(lab) - 1 : lab[i + 1] # Ignored => ExactAt(b, t, lab, i)
  <2>1. /\ input \in Batches /\ NoneEmpty /\ batch = Batch1 /\ input.examples[b].marker = "none"
        /\ embeds[b] = Scatter(batch.input_ids[b], batch.cot_ids[b])
    BY <1>1, <1>3
  <2> QED
    BY <1>3, <2>1, RowExact
<1> SUFFICES ASSUME CleanText PROVE Spec => []LabelSourcesExact
  OBVIOUS
<1>4. IInv => LabelSourcesExact
  <2> SUFFICES ASSUME IInv, pc = "trained", NEW b \in Rows
               PROVE  LET text == Text(input.examples[b])
                          lab == batch.labels[b]
                          sources == Sources(b)
                          dropped == {<<"cot", c>> : c \in 1..input.k}
                      IN  /\ ToSet(lab) \ {Ignored}
                               = ToSet(Tokens("cot", input.examples[b].cot) \o EndThink
                                         \o SuffixIds(input.examples[b])) \ dropped
                          /\ \A i \in 1..Len(lab) - 1 :
                               lab[i + 1] # Ignored =>
                                 sources[i] = ToSet(SubSeq(text, 1, Min(Where(text, lab[i + 1])) - 1))
    BY Zenon DEF LabelSourcesExact
  <2>1. PICK x, t, lab : x = input.examples[b] /\ t = Text(input.examples[b]) /\ lab = batch.labels[b]
    OBVIOUS
  <2>2. LabelsCover(lab, Tokens("cot", x.cot) \o EndThink \o SuffixIds(x))
    BY <1>2, <2>1, Zenon
  <2>3. \A i \in 1..Len(lab) - 1 : lab[i + 1] # Ignored => ExactAt(b, t, lab, i)
    BY <1>3, <2>1, Zenon
  <2> QED
    BY <2>1, <2>2, <2>3, Zenon DEF LabelsCover, ExactAt
<1> QED
  BY <1>4, BatchOfItsInput, PTL
-----------------------------------------------------------------------------
(* What the stages share: stage 1 without its spacers.                     *)

\* w lists the first a positions, then those of v, then z of them from e on.
KeptOf(w, v, a, c, z, e) ==
  /\ \A r \in 1..a : w[r] = r
  /\ \A j \in 1..c : w[a + j] = v[j]
  /\ \A j \in 1..z : w[a + c + j] = e - 1 + j

\* The rank r is one of the first, of the middle or of the last.
Third(a, c, z, r) ==
  r \in 1..a \/ (\E j \in 1..c : r = a + j) \/ (\E j \in 1..z : r = a + c + j)

(* Every rank is.                                                          *)
LEMMA Thirds ==
  ASSUME NEW a \in Nat, NEW c \in Nat, NEW z \in Nat, NEW n, n = a + c + z, NEW r \in 1..n
  PROVE  Third(a, c, z, r)
<1>1. CASE r <= a
  BY <1>1 DEF Third
<1>2. CASE a < r /\ r <= a + c
  <2>1. r - a \in 1..c /\ r = a + (r - a)
    BY <1>2
  <2> QED
    BY <2>1 DEF Third
<1>3. CASE a + c < r
  <2>1. PICK j : j = r - (a + c)
    OBVIOUS
  <2>2. j \in 1..z /\ r = a + c + j
    BY <1>3, <2>1
  <2> QED
    BY <2>2 DEF Third
<1> QED
  BY <1>1, <1>2, <1>3

\* The position w[r] of rank r is in the opening, a latent or in the closing.
Placed(w, v, a, c, z, e, r) ==
  \/ r \in 1..a /\ w[r] = r
  \/ \E j \in 1..c : r = a + j /\ w[r] = v[j] /\ v[j] \in Int /\ a < v[j] /\ v[j] < e
  \/ \E j \in 1..z : r = a + c + j /\ w[r] = e - 1 + j

\* K has the first a positions, those of W behind them, and z from e on.
KeptSet(K, W, a, z, e) ==
  /\ \A y : y \in K <=> y \in 1..a \/ y \in W \/ \E j \in 1..z : y = e - 1 + j
  /\ \A y \in W : a < y /\ y < e

(* The positions so listed, in order.                                      *)
LEMMA KeptRanked ==
  ASSUME NEW a \in Nat, NEW c \in Nat, NEW z \in Nat, NEW e \in Nat, a < e, NEW n, n = a + c + z,
         NEW v, NEW W, Ranked(v, c, W), NEW w, KeptOf(w, v, a, c, z, e), NEW K, KeptSet(K, W, a, z, e)
  PROVE  Ranked(w, n, K)
<1>0. /\ \A y : y \in K <=> y \in 1..a \/ y \in W \/ \E j \in 1..z : y = e - 1 + j
      /\ \A y \in W : a < y /\ y < e
  BY DEF KeptSet
<1>1. \A j \in 1..c : v[j] \in Int /\ v[j] \in W /\ a < v[j] /\ v[j] < e
  BY <1>0 DEF Ranked
<1>2. ASSUME NEW r \in 1..n PROVE Placed(w, v, a, c, z, e, r)
  <2>1. Third(a, c, z, r)
    BY Thirds
  <2> QED
    BY <1>1, <2>1 DEF Third, Placed, KeptOf
<1>3. ASSUME NEW r \in 1..n PROVE w[r] \in Int
  BY <1>2 DEF Placed
<1>4. ASSUME NEW r \in 1..n, NEW q \in 1..n, r < q PROVE w[r] < w[q]
  <2>1. Placed(w, v, a, c, z, e, r) /\ Placed(w, v, a, c, z, e, q) /\ r \in Nat /\ q \in Nat
    BY <1>2, <1>4
  <2>2. CASE q \in 1..a /\ w[q] = q
    <3>1. r \in 1..a /\ w[r] = r
      BY <2>1, <2>2, <1>4 DEF Placed
    <3> QED
      BY <1>4, <2>2, <3>1
  <2>3. ASSUME NEW j \in 1..c, q = a + j, w[q] = v[j] PROVE w[r] < w[q]
    <3>1. v[j] \in Int /\ a < v[j] /\ v[j] < e
      BY <1>1
    <3>2. CASE r \in 1..a /\ w[r] = r
      BY <2>3, <3>1, <3>2
    <3>3. ASSUME NEW i \in 1..c, r = a + i, w[r] = v[i] PROVE w[r] < w[q]
      <4>1. i < j
        BY <1>4, <2>3, <3>3
      <4> QED
        BY <2>3, <3>3, <4>1 DEF Ranked
    <3>4. ASSUME NEW i \in 1..z, r = a + c + i PROVE FALSE
      BY <1>4, <2>3, <3>4
    <3> QED
      BY <2>1, <3>2, <3>3, <3>4 DEF Placed
  <2>4. ASSUME NEW j \in 1..z, q = a + c + j, w[q] = e - 1 + j PROVE w[r] < w[q]
    <3>2. CASE r \in 1..a /\ w[r] = r
      BY <2>4, <3>2
    <3>3. ASSUME NEW i \in 1..c, w[r] = v[i] PROVE w[r] < w[q]
      <4>1. v[i] \in Int /\ v[i] < e
        BY <1>1
      <4> QED
        BY <2>4, <3>3, <4>1
    <3>4. ASSUME NEW i \in 1..z, r = a + c + i, w[r] = e - 1 + i PROVE w[r] < w[q]
      BY <1>4, <2>4, <3>4
    <3> QED
      BY <2>1, <3>2, <3>3, <3>4 DEF Placed
  <2> QED
    BY <2>1, <2>2, <2>3, <2>4 DEF Placed
<1>5. ASSUME NEW y PROVE y \in K <=> \E r \in 1..n : y = w[r]
  <2>1. ASSUME y \in K PROVE \E r \in 1..n : y = w[r]
    <3>1. CASE y \in 1..a
      BY <3>1 DEF KeptOf
    <3>2. CASE y \in W
      <4>1. PICK j \in 1..c : y = v[j]
        BY <3>2 DEF Ranked
      <4>2. a + j \in 1..n /\ w[a + j] = v[j]
        BY <4>1 DEF KeptOf
      <4> QED
        BY <4>1, <4>2
    <3>3. ASSUME NEW j \in 1..z, y = e - 1 + j PROVE \E r \in 1..n : y = w[r]
      <4>1. a + c + j \in 1..n /\ w[a + c + j] = e - 1 + j
        BY DEF KeptOf
      <4> QED
        BY <3>3, <4>1
    <3> QED
      BY <1>0, <2>1, <3>1, <3>2, <3>3
  <2>2. ASSUME NEW r \in 1..n, y = w[r] PROVE y \in K
    BY <1>0, <1>1, <1>2, <2>2 DEF Placed
  <2> QED
    BY <2>1, <2>2
<1> QED
  BY <1>3, <1>4, <1>5 DEF Ranked

\* Row ids of example x has an opening of a tokens, the c latents v among
\* spacers, and from the end marker at e on a closing of z tokens.
RowParts(ids, x, v, a, c, z, e, n) ==
  /\ a \in Nat \ {0} /\ c \in Nat \ {0} /\ z \in Nat \ {0} /\ e \in Nat /\ n \in Nat
  /\ e + z = n + 1 /\ a + 1 < e /\ DOMAIN ids = 1..n
  /\ \A p \in 1..a : ids[p] = OpenToken(x, p)
  /\ \A j \in 1..z : ids[e - 1 + j] = CloseToken(x, j)
  /\ Ranked(v, c, Where(ids, Ignored)) /\ Latents(Where(ids, Ignored), a, e)
  /\ \A p \in 1..n : a < p /\ p < e /\ p \notin Where(ids, Ignored) => ids[p][1] = "cot"

\* kept lists its positions without the spacers.
KeptIs(kept, v, a, c, z, e, n) ==
  /\ DOMAIN kept = 1..n /\ Len(kept) = n /\ n = a + c + z /\ KeptOf(kept, v, a, c, z, e)

\* u is a list of the c elements of w.
Lists(u, w, c) == DOMAIN u = 1..c /\ \A r \in 1..c : u[r] = w[r]

(* The elements of a set in ascending order are such a list.               *)
LEMMA ListsRanked ==
  ASSUME NEW c \in Nat, NEW w, NEW R, Ranked(w, c, R)
  PROVE  Lists(Ascending(R), w, c)
BY AscendingIs DEF Lists

(* The indices of what is kept.                                            *)
LEMMA KeptMeans ==
  ASSUME InputOK, NEW x \in Examples, NEW ids, NEW v, NEW a, NEW c, NEW z, NEW e, NEW n,
         RowParts(ids, x, v, a, c, z, e, n), NEW h, h = a + c + z,
         NEW K, K = {i \in DOMAIN ids : ids[i][1] # "cot"}
  PROVE  /\ KeptIs(Ascending(K), v, a, c, z, e, h) /\ Ranked(Ascending(K), h, K)
<1> DEFINE W == Where(ids, Ignored)
           w == [r \in 1..h |-> IF r <= a THEN r ELSE IF r <= a + c THEN v[r - a] ELSE e - 1 + (r - (a + c))]
<1>1. /\ a \in Nat \ {0} /\ c \in Nat \ {0} /\ z \in Nat \ {0} /\ e \in Nat /\ n \in Nat
      /\ e + z = n + 1 /\ a + 1 < e
  BY DEF RowParts
<1>2. /\ DOMAIN ids = 1..n /\ Ranked(v, c, W) /\ \A y \in W : a < y /\ y < e
  BY DEF RowParts, Latents
<1>3. \A y \in W : y \in 1..n /\ ids[y] = Ignored
  BY <1>2 DEF Where
<1>4. /\ \A p \in 1..a : ids[p] = OpenToken(x, p)
      /\ \A j \in 1..z : ids[e - 1 + j] = CloseToken(x, j)
      /\ \A p \in 1..n : a < p /\ p < e /\ p \notin W => ids[p][1] = "cot"
  BY DEF RowParts
<1>5. \A i \in Nat : OpenToken(x, i)[1] # "cot" /\ CloseToken(x, i)[1] # "cot"
  BY EndTokens
<1> HIDE DEF W
<1>6. ASSUME NEW y PROVE y \in K <=> y \in 1..a \/ y \in W \/ \E j \in 1..z : y = e - 1 + j
  <2>1. CASE y \in 1..a
    <3>1. y \in 1..n /\ ids[y][1] # "cot"
      BY <1>1, <1>4, <1>5, <2>1
    <3> QED
      BY <1>2, <2>1, <3>1
  <2>2. CASE y \in W
    BY <1>2, <1>3, <2>2 DEF Ignored
  <2>3. ASSUME NEW j \in 1..z, y = e - 1 + j PROVE y \in K
    <3>1. y \in 1..n /\ j \in Nat
      BY <1>1, <2>3
    <3>2. ids[y] = CloseToken(x, j)
      BY <1>4, <2>3
    <3>3. CloseToken(x, j)[1] # "cot"
      BY <1>5, <3>1
    <3> QED
      BY <1>2, <3>1, <3>2, <3>3
  <2>4. ASSUME y \in K, y \notin 1..a, y \notin W PROVE \E j \in 1..z : y = e - 1 + j
    <3>1. y \in 1..n /\ ids[y][1] # "cot"
      BY <1>2, <2>4
    <3>2. ~(a < y /\ y < e)
      BY <1>4, <2>4, <3>1
    <3>3. y - e + 1 \in 1..z /\ y = e - 1 + (y - e + 1)
      BY <1>1, <2>4, <3>1, <3>2
    <3> QED
      BY <3>3
  <2> QED
    BY <2>1, <2>2, <2>3, <2>4
<1>7. KeptOf(w, v, a, c, z, e)
  <2>0. \A r \in 1..h : w[r] = IF r <= a THEN r ELSE IF r <= a + c THEN v[r - a] ELSE e - 1 + (r - (a + c))
    OBVIOUS
  <2> HIDE DEF w
  <2>1. ASSUME NEW r \in 1..a PROVE w[r] = r
    <3>1. r \in 1..h /\ r <= a
      BY <1>1
    <3> QED
      BY <2>0, <3>1
  <2>2. ASSUME NEW j \in 1..c PROVE w[a + j] = v[j]
    <3>0. PICK r : r = a + j
      OBVIOUS
    <3>1. r \in 1..h /\ ~(r <= a) /\ r <= a + c /\ r - a = j
      BY <1>1, <3>0
    <3>2. w[r] = v[r - a]
      BY <2>0, <3>1
    <3> QED
      BY <3>0, <3>1, <3>2, Zenon
  <2>3. ASSUME NEW j \in 1..z PROVE w[a + c + j] = e - 1 + j
    <3>0. PICK r : r = a + c + j
      OBVIOUS
    <3>1. r \in 1..h /\ ~(r <= a) /\ ~(r <= a + c) /\ r - (a + c) = j
      BY <1>1, <3>0
    <3>2. w[r] = e - 1 + (r - (a + c))
      BY <2>0, <3>1
    <3> QED
      BY <3>0, <3>1, <3>2, Zenon
  <2> QED
    BY <2>1, <2>2, <2>3 DEF KeptOf
<1> HIDE DEF w
<1>8. Ranked(w, h, K)
  <2>1. KeptSet(K, W, a, z, e)
    BY <1>2, <1>6 DEF KeptSet
  <2>2. a \in Nat /\ c \in Nat /\ z \in Nat /\ e \in Nat /\ a < e
    BY <1>1
  <2> QED
    BY <1>2, <1>7, <2>1, <2>2, KeptRanked
<1>9. h \in Nat
  BY <1>1
<1>10. DOMAIN Ascending(K) = 1..h /\ \A r \in 1..h : Ascending(K)[r] = w[r]
  <2>1. Lists(Ascending(K), w, h)
    BY <1>8, <1>9, ListsRanked, Zenon
  <2> QED
    BY <2>1 DEF Lists
<1> DEFINE k == Ascending(K)
<1>11. k = [r \in DOMAIN k |-> k[r]]
  <2> DEFINE t(r) == CHOOSE i \in K : Cardinality({j \in K : j <= i}) = r
             d == Cardinality(K)
  <2>1. k = [r \in 1..d |-> t(r)]
    BY Zenon DEF Ascending
  <2> HIDE DEF k, t, d
  <2> QED
    BY <2>1
<1> HIDE DEF k
<1>12. \A r \in 1..h : k[r] = w[r] /\ k[r] \in Int
  BY <1>8, <1>10 DEF Ranked, k
<1>13. DOMAIN k = 1..h
  BY <1>10 DEF k
<1>14. Len(k) = h
  BY <1>9, <1>11, <1>12, <1>13, IsSequence
<1>15. KeptOf(k, v, a, c, z, e)
  <2>1. ASSUME NEW r \in 1..a PROVE k[r] = r
    BY <1>1, <1>7, <1>12 DEF KeptOf
  <2>2. ASSUME NEW j \in 1..c PROVE k[a + j] = v[j]
    <3>1. a + j \in 1..h
      BY <1>1
    <3> QED
      BY <1>7, <1>12, <3>1 DEF KeptOf
  <2>3. ASSUME NEW j \in 1..z PROVE k[a + c + j] = e - 1 + j
    <3>1. a + c + j \in 1..h
      BY <1>1
    <3> QED
      BY <1>7, <1>12, <3>1 DEF KeptOf
  <2> QED
    BY <2>1, <2>2, <2>3 DEF KeptOf
<1>16. Ranked(k, h, K)
  BY <1>8, <1>12 DEF Ranked
<1> QED
  BY <1>13, <1>14, <1>15, <1>16 DEF KeptIs, k

\* E is ids with the latent v[r] replaced by the encoder's state at w[r].
ScatteredAs(E, ids, v, w, c) ==
  /\ DOMAIN E = DOMAIN ids
  /\ \A j \in DOMAIN ids : ids[j] # Ignored => E[j] = ids[j]
  /\ \A r \in 1..c : v[r] \in DOMAIN ids /\ v[r] \in Int /\ E[v[r]] = <<"enc", w[r]>>

(* That is what scattering over latents of the same number does.           *)
LEMMA ScatterIs ==
  ASSUME NEW ids, NEW cot, NEW c \in Nat, NEW v, Ranked(v, c, Where(ids, Ignored)),
         NEW w, Ranked(w, c, Where(cot, Compress)), NEW E, E = Scatter(ids, cot)
  PROVE  ScatteredAs(E, ids, v, w, c)
<1> DEFINE W == Where(ids, Ignored)
           V == Where(cot, Compress)
           from == Ascending(V)
           rank(i) == Cardinality({j \in W : j <= i})
           enc(i) == <<"enc", from[rank(i)]>>
<1>1. E = [i \in DOMAIN ids |-> IF ids[i] = Ignored THEN enc(i) ELSE ids[i]]
  BY Zenon DEF Scatter
<1>2. \A i : i \in W <=> i \in DOMAIN ids /\ ids[i] = Ignored
  BY DEF Where
<1> HIDE DEF W, V, from, rank, enc
<1>3. \A r \in 1..c : rank(v[r]) = r
  BY RankIs DEF rank, W
<1>4. \A r \in 1..c : from[r] = w[r]
  BY AscendingIs DEF from, V
<1>5. \A r \in 1..c : v[r] \in W /\ v[r] \in Int
  BY DEF Ranked, W
<1>6. ASSUME NEW j \in DOMAIN ids, ids[j] # Ignored PROVE E[j] = ids[j]
  BY <1>1, <1>6
<1>7. ASSUME NEW r \in 1..c PROVE v[r] \in DOMAIN ids /\ v[r] \in Int /\ E[v[r]] = <<"enc", w[r]>>
  <2>1. v[r] \in DOMAIN ids /\ ids[v[r]] = Ignored /\ v[r] \in Int
    BY <1>2, <1>5
  <2>2. E[v[r]] = enc(v[r])
    BY <1>1, <2>1
  <2>3. enc(v[r]) = <<"enc", w[r]>>
    BY <1>3, <1>4, Zenon DEF enc
  <2> QED
    BY <2>1, <2>2, <2>3
<1> QED
  BY <1>1, <1>6, <1>7 DEF ScatteredAs

\* The model is given an opening, the state of each segment, and a closing.
Given(E, x, a, c, z) ==
  /\ \A r \in 1..a : E[r] = OpenToken(x, r)
  /\ \A j \in 1..c : E[a + j] = <<"enc", CompressAt(x)[j]>>
  /\ \A j \in 1..z : E[a + c + j] = CloseToken(x, j)

\* E and F agree on the first n.
AgreeUpTo(E, F, n) == \A r \in 1..n : E[r] = F[r]

(* That determines it, as far as the closings go.                          *)
LEMMA GivenSame ==
  ASSUME NEW x, NEW a \in Nat, NEW c \in Nat, NEW y \in Nat, NEW z \in Nat, y <= z,
         NEW E, Given(E, x, a, c, y), NEW F, Given(F, x, a, c, z), NEW n, n = a + c + y
  PROVE  AgreeUpTo(E, F, n)
<1>1. ASSUME NEW r \in 1..n PROVE E[r] = F[r]
  <2>1. Third(a, c, y, r)
    BY Thirds
  <2>2. CASE r \in 1..a
    BY <2>2 DEF Given
  <2>3. ASSUME NEW j \in 1..c, r = a + j PROVE E[r] = F[r]
    BY <2>3 DEF Given
  <2>4. ASSUME NEW j \in 1..y, r = a + c + j PROVE E[r] = F[r]
    <3>1. j \in 1..z
      OBVIOUS
    <3> QED
      BY <2>4, <3>1 DEF Given
  <2> QED
    BY <2>1, <2>2, <2>3, <2>4 DEF Third
<1> QED
  BY <1>1 DEF AgreeUpTo

(* Stage 1 without its spacers gives the model that.                       *)
LEMMA KeptGiven ==
  ASSUME InputOK, NEW x \in Examples, NEW ids, NEW v, NEW a, NEW c, NEW z, NEW e, NEW n,
         RowParts(ids, x, v, a, c, z, e, n), NEW h, NEW kept, KeptIs(kept, v, a, c, z, e, h),
         NEW E, ScatteredAs(E, ids, v, CompressAt(x), c), NEW F, F = [r \in 1..h |-> E[kept[r]]]
  PROVE  Given(F, x, a, c, z)
<1>1. /\ a \in Nat \ {0} /\ c \in Nat \ {0} /\ z \in Nat \ {0} /\ e \in Nat /\ n \in Nat
      /\ e + z = n + 1 /\ a + 1 < e /\ DOMAIN ids = 1..n
  BY DEF RowParts
<1>2. h = a + c + z /\ KeptOf(kept, v, a, c, z, e)
  BY DEF KeptIs
<1>3. \A i \in Nat : OpenToken(x, i) # Ignored /\ CloseToken(x, i) # Ignored
  BY EndTokens
<1>4. ASSUME NEW r \in 1..a PROVE F[r] = OpenToken(x, r)
  <2>1. r \in 1..h /\ r \in 1..n /\ r \in Nat
    BY <1>1, <1>2
  <2>2. kept[r] = r /\ ids[r] = OpenToken(x, r)
    BY <1>2 DEF KeptOf, RowParts
  <2>3. E[r] = ids[r]
    BY <1>1, <1>3, <2>1, <2>2 DEF ScatteredAs
  <2> QED
    BY <2>1, <2>2, <2>3
<1>5. ASSUME NEW j \in 1..c PROVE F[a + j] = <<"enc", CompressAt(x)[j]>>
  <2>1. a + j \in 1..h
    BY <1>1, <1>2
  <2>2. kept[a + j] = v[j]
    BY <1>2 DEF KeptOf
  <2>3. E[v[j]] = <<"enc", CompressAt(x)[j]>>
    BY DEF ScatteredAs
  <2> QED
    BY <2>1, <2>2, <2>3
<1>6. ASSUME NEW j \in 1..z PROVE F[a + c + j] = CloseToken(x, j)
  <2>1. a + c + j \in 1..h /\ e - 1 + j \in 1..n /\ j \in Nat
    BY <1>1, <1>2
  <2>2. kept[a + c + j] = e - 1 + j /\ ids[e - 1 + j] = CloseToken(x, j)
    BY <1>2 DEF KeptOf, RowParts
  <2>3. E[e - 1 + j] = ids[e - 1 + j]
    BY <1>1, <1>3, <2>1, <2>2 DEF ScatteredAs
  <2> QED
    BY <2>1, <2>2, <2>3
<1> QED
  BY <1>4, <1>5, <1>6 DEF Given

(* The position ids of stage 1 are consecutive without the spacers.        *)
LEMMA KeptPositions ==
  ASSUME NEW x, NEW ids, NEW v, NEW a, NEW c, NEW z, NEW e, NEW n,
         RowParts(ids, x, v, a, c, z, e, n), NEW h, NEW kept, KeptIs(kept, v, a, c, z, e, h), NEW r \in 1..h
  PROVE  DualTrack(ids)[kept[r]] = r - 1
<1> DEFINE W == Where(ids, Ignored)
           upTo(i) == {s \in W : s <= i}
           first == Min(W)
           last(i) == Max(upTo(i))
           count(i) == Cardinality(upTo(i))
           D == DualTrack(ids)
<1>1. /\ a \in Nat \ {0} /\ c \in Nat \ {0} /\ z \in Nat \ {0} /\ e \in Nat /\ n \in Nat
      /\ e + z = n + 1 /\ a + 1 < e /\ DOMAIN ids = 1..n
  BY DEF RowParts
<1>2. h = a + c + z /\ KeptOf(kept, v, a, c, z, e)
  BY DEF KeptIs
<1>3. Ranked(v, c, W) /\ Latents(W, a, e)
  BY DEF RowParts
<1>4. D = [i \in DOMAIN ids |-> IF W = {} \/ i < first THEN i - 1
                                ELSE (first - 2) + count(i) + (i - last(i))]
  BY Zenon DEF DualTrack
<1> HIDE DEF W, D
<1>5. /\ W \in SUBSET Nat /\ W \in SUBSET Int /\ a + 1 \in W /\ e - 1 \in W
      /\ \A s \in W : s \in Nat /\ a < s /\ s < e
  BY <1>3 DEF Latents
<1>6. first = a + 1
  <2>1. \A s \in W : a + 1 <= s
    BY <1>1, <1>5
  <2> QED
    BY <1>5, <2>1, MinIs
<1> HIDE DEF first, last, count
<1>7. ASSUME NEW i \in 1..n PROVE D[i] = IF i <= a THEN i - 1 ELSE (a - 1) + count(i) + (i - last(i))
  <2>1. D[i] = IF W = {} \/ i < first THEN i - 1 ELSE (first - 2) + count(i) + (i - last(i))
    BY <1>1, <1>4
  <2>2. W # {} /\ (i < first <=> i <= a) /\ first - 2 = a - 1
    BY <1>1, <1>5, <1>6
  <2> QED
    BY <2>1, <2>2
<1>8. Third(a, c, z, r)
  BY <1>1, <1>2, Thirds
<1>9. CASE r \in 1..a
  <2>1. kept[r] = r
    BY <1>2, <1>9 DEF KeptOf
  <2>2. r \in 1..n /\ r <= a
    BY <1>1, <1>9
  <2> QED
    BY <1>7, <2>1, <2>2 DEF D
<1>10. ASSUME NEW j \in 1..c, r = a + j PROVE D[kept[r]] = r - 1
  <2>1. PICK i : i = v[j]
    OBVIOUS
  <2>2. kept[r] = i
    BY <1>2, <1>10, <2>1 DEF KeptOf
  <2>3. i \in W
    BY <1>3, <2>1 DEF Ranked
  <2>4. i \in Nat /\ i \in 1..n /\ ~(i <= a)
    BY <1>1, <1>5, <2>3
  <2>5. count(i) = j
    BY <1>1, <1>3, <2>1, RankIs DEF count
  <2>6. last(i) = i
    <3>0. i <= i
      BY <2>4
    <3>1. i \in upTo(i) /\ upTo(i) \in SUBSET Int /\ \A s \in upTo(i) : s <= i
      <4>1. W \in SUBSET Int
        BY <1>5
      <4> QED
        BY <2>3, <3>0, <4>1
    <3> HIDE DEF upTo
    <3> QED
      BY <3>1, MaxIs DEF last
  <2>7. D[i] = (a - 1) + j + (i - i)
    BY <1>7, <2>4, <2>5, <2>6
  <2> QED
    BY <1>1, <1>10, <2>2, <2>4, <2>7
<1>11. ASSUME NEW j \in 1..z, r = a + c + j PROVE D[kept[r]] = r - 1
  <2>1. PICK i : i = e - 1 + j
    OBVIOUS
  <2>2. kept[r] = i
    BY <1>2, <1>11, <2>1 DEF KeptOf
  <2>4. i \in Nat /\ i \in 1..n /\ ~(i <= a) /\ e - 1 <= i
    BY <1>1, <2>1
  <2>5. upTo(i) = W
    <3>1. \A s \in W : s <= i
      BY <1>1, <1>5, <2>4
    <3> QED
      BY <3>1
  <2>6. count(i) = c
    <3>1. Cardinality(W) = c
      BY <1>1, <1>3, RankedCount
    <3> QED
      BY <2>5, <3>1, Zenon DEF count
  <2>7. last(i) = e - 1
    <3>1. \A s \in W : s <= e - 1
      BY <1>1, <1>5
    <3>2. Max(W) = e - 1
      BY <1>5, <3>1, MaxIs
    <3> QED
      BY <2>5, <3>2, Zenon DEF last
  <2>8. D[i] = (a - 1) + c + (i - (e - 1))
    BY <1>7, <2>4, <2>6, <2>7
  <2>9. i - (e - 1) = j
    BY <1>1, <2>1
  <2>10. D[i] = (a - 1) + c + j
    BY <2>8, <2>9, Zenon
  <2> QED
    BY <1>1, <1>11, <2>2, <2>10
<1> QED
  BY <1>8, <1>9, <1>10, <1>11 DEF Third, D

\* Labels of the closing only.
Labeled(l, x, a, c, z) ==
  /\ \A r \in 1..a + c : l[r] = Ignored
  /\ \A j \in 1..z : l[a + c + j] = CloseToken(x, j)

(* Those of stage 1 without the spacers.                                   *)
LEMMA KeptLabeled ==
  ASSUME NEW x, NEW ids, NEW v, NEW a, NEW c, NEW z, NEW e, NEW n,
         RowParts(ids, x, v, a, c, z, e, n), NEW h, NEW kept, KeptIs(kept, v, a, c, z, e, h),
         NEW lab, LabelsOf(lab, ids, a, n), NEW F, F = [r \in 1..h |-> lab[kept[r]]]
  PROVE  Labeled(F, x, a, c, z)
<1>1. /\ a \in Nat \ {0} /\ c \in Nat \ {0} /\ z \in Nat \ {0} /\ e \in Nat /\ n \in Nat
      /\ e + z = n + 1 /\ a + 1 < e /\ DOMAIN ids = 1..n
  BY DEF RowParts
<1>2. h = a + c + z /\ KeptOf(kept, v, a, c, z, e)
  BY DEF KeptIs
<1>3. \A i \in 1..n : lab[i] = IF i <= a THEN Ignored ELSE ids[i]
  BY DEF LabelsOf
<1>4. ASSUME NEW r \in 1..a + c PROVE F[r] = Ignored
  <2>1. r \in 1..h /\ r \in Nat
    BY <1>1, <1>2
  <2>2. CASE r <= a
    <3>1. r \in 1..a /\ r \in 1..n
      BY <1>1, <2>2
    <3>2. kept[r] = r /\ lab[r] = Ignored
      BY <1>2, <1>3, <2>2, <3>1 DEF KeptOf
    <3> QED
      BY <2>1, <3>2
  <2>3. CASE a < r
    <3>1. PICK j : j = r - a
      OBVIOUS
    <3>2. j \in 1..c /\ r = a + j
      BY <1>1, <2>1, <2>3, <3>1
    <3>3. kept[r] = v[j]
      BY <1>2, <3>2 DEF KeptOf
    <3>4. v[j] \in Where(ids, Ignored)
      BY <3>2 DEF RowParts, Ranked
    <3>5. v[j] \in 1..n /\ ids[v[j]] = Ignored
      BY <1>1, <3>4 DEF Where
    <3>6. lab[v[j]] = Ignored
      BY <1>3, <3>5
    <3> QED
      BY <2>1, <3>3, <3>6
  <2> QED
    BY <1>1, <2>1, <2>2, <2>3
<1>5. ASSUME NEW j \in 1..z PROVE F[a + c + j] = CloseToken(x, j)
  <2>1. a + c + j \in 1..h /\ e - 1 + j \in 1..n /\ ~(e - 1 + j <= a)
    BY <1>1, <1>2
  <2>2. kept[a + c + j] = e - 1 + j /\ ids[e - 1 + j] = CloseToken(x, j)
    BY <1>2 DEF KeptOf, RowParts
  <2>3. lab[e - 1 + j] = ids[e - 1 + j]
    BY <1>3, <2>1
  <2> QED
    BY <2>1, <2>2, <2>3
<1> QED
  BY <1>4, <1>5 DEF Labeled

(* They determine the labels.                                              *)
LEMMA LabeledSame ==
  ASSUME NEW x, NEW a \in Nat, NEW c \in Nat, NEW z \in Nat,
         NEW E, Labeled(E, x, a, c, z), NEW F, Labeled(F, x, a, c, z), NEW n, n = a + c + z
  PROVE  AgreeUpTo(E, F, n)
<1>1. ASSUME NEW r \in 1..n PROVE E[r] = F[r]
  <2>1. CASE r <= a + c
    BY <2>1 DEF Labeled
  <2>2. CASE a + c < r
    <3>1. PICK j : j = r - (a + c)
      OBVIOUS
    <3>2. j \in 1..z /\ r = a + c + j
      BY <2>2, <3>1
    <3> QED
      BY <3>2 DEF Labeled
  <2> QED
    BY <2>1, <2>2
<1> QED
  BY <1>1 DEF AgreeUpTo

(* Without spacers the mask is the causal one.                             *)
LEMMA KeptLooks ==
  ASSUME NEW a, NEW e, NEW W, Latents(W, a, e), NEW i \in Nat, NEW k \in Nat, k <= i,
         i <= a \/ i \in W \/ e <= i, k <= a \/ k \in W \/ e <= k
  PROVE  Looks(W, a, e, i, k)
<1>1. a \in Nat /\ e \in Nat /\ a + 1 < e + 1 /\ \A s \in W : s \in Nat /\ a < s /\ s < e
  BY DEF Latents
<1>2. CASE i <= a
  BY <1>2 DEF Looks
<1>3. CASE i \in W
  <2>1. ~(e <= k)
    BY <1>1, <1>3
  <2> QED
    BY <1>3, <2>1 DEF Looks
<1>4. CASE e <= i
  BY <1>4 DEF Looks
<1> QED
  BY <1>2, <1>3, <1>4

(* Where the positions listed are.                                         *)
LEMMA KeptPlaces ==
  ASSUME NEW x, NEW ids, NEW v, NEW a, NEW c, NEW z, NEW e, NEW n,
         RowParts(ids, x, v, a, c, z, e, n), NEW h, NEW kept, KeptIs(kept, v, a, c, z, e, h), NEW r \in 1..h
  PROVE  /\ kept[r] \in 1..n
         /\ kept[r] <= a \/ kept[r] \in Where(ids, Ignored) \/ e <= kept[r]
         /\ kept[r] = n => r = h
<1> DEFINE W == Where(ids, Ignored)
<1>1. /\ a \in Nat \ {0} /\ c \in Nat \ {0} /\ z \in Nat \ {0} /\ e \in Nat /\ n \in Nat
      /\ e + z = n + 1 /\ a + 1 < e /\ DOMAIN ids = 1..n
  BY DEF RowParts
<1>2. h = a + c + z /\ KeptOf(kept, v, a, c, z, e)
  BY DEF KeptIs
<1>3. (\A j \in 1..c : v[j] \in W) /\ (\A y \in W : y \in Nat /\ a < y /\ y < e)
  BY DEF RowParts, Ranked, Latents
<1> HIDE DEF W
<1>4. Third(a, c, z, r)
  BY <1>1, <1>2, Thirds
<1>5. CASE r \in 1..a
  <2>1. kept[r] = r
    BY <1>2, <1>5 DEF KeptOf
  <2> QED
    BY <1>1, <1>5, <2>1
<1>6. ASSUME NEW j \in 1..c, r = a + j PROVE kept[r] \in W
  BY <1>2, <1>3, <1>6 DEF KeptOf
<1>7. CASE kept[r] \in W
  BY <1>1, <1>3, <1>7 DEF W
<1>8. ASSUME NEW j \in 1..z, r = a + c + j
      PROVE  kept[r] \in 1..n /\ e <= kept[r] /\ (kept[r] = n => r = h)
  <2>1. kept[r] = e - 1 + j
    BY <1>2, <1>8 DEF KeptOf
  <2> QED
    BY <1>1, <1>2, <1>8, <2>1
<1> QED
  BY <1>4, <1>5, <1>6, <1>7, <1>8 DEF Third

(* The mask of stage 1 without its spacers is the causal one.              *)
LEMMA KeptMask ==
  ASSUME NEW x, NEW ids, NEW v, NEW a, NEW c, NEW z, NEW e, NEW n,
         RowParts(ids, x, v, a, c, z, e, n), Laid(ids, a, e, n), NoPad(ids, n - 1),
         NEW h, NEW kept, KeptIs(kept, v, a, c, z, e, h), NEW K, Ranked(kept, h, K),
         NEW r \in 1..h, NEW t \in 1..h, ids[kept[r]] # Pad
  PROVE  <<kept[r], kept[t]>> \in SupervisionMask(ids) <=> t <= r
<1> DEFINE W == Where(ids, Ignored)
           M == SupervisionMask(ids)
<1>1. n \in Nat /\ Latents(W, a, e)
  BY DEF RowParts
<1>2. PICK i, k : i = kept[r] /\ k = kept[t]
  OBVIOUS
<1>3. /\ i \in 1..n /\ (i <= a \/ i \in W \/ e <= i)
      /\ k \in 1..n /\ (k <= a \/ k \in W \/ e <= k)
  BY <1>2, KeptPlaces
<1>4. t <= r <=> k <= i
  <2>1. (r < t => i < k) /\ (t < r => k < i) /\ (r = t => i = k)
    BY <1>2 DEF Ranked
  <2>2. i \in Nat /\ k \in Nat /\ r \in Nat /\ t \in Nat
    <3>1. h \in Nat
      BY DEF RowParts, KeptIs
    <3> QED
      BY <1>3, <3>1
  <2> QED
    BY <2>1, <2>2
<1>5. i \in 0..n /\ NoPad(ids, i)
  <2>1. ASSUME NEW j \in 1..i PROVE ids[j] # Pad
    <3>1. CASE j = i
      BY <1>2, <3>1
    <3>2. CASE j # i
      <4>1. j \in 1..n-1
        BY <1>1, <1>3, <3>2
      <4> QED
        BY <4>1 DEF NoPad
    <3> QED
      BY <3>1, <3>2
  <2> QED
    BY <1>1, <1>3, <2>1 DEF NoPad
<1>6. LooksOf(M, W, a, e, i)
  BY <1>1, <1>5, LaidLooks
<1>7. <<i, k>> \in M <=> k \in 1..i /\ Looks(W, a, e, i, k)
  <2>1. i \in 1..i
    BY <1>3
  <2> HIDE DEF M, W
  <2> QED
    BY <1>6, <2>1 DEF LooksOf
<1>8. k <= i => Looks(W, a, e, i, k)
  <2>1. i \in Nat /\ k \in Nat
    BY <1>3
  <2> QED
    BY <1>1, <1>3, <2>1, KeptLooks
<1>9. k \in 1..i <=> k <= i
  BY <1>3
<1> QED
  BY <1>2, <1>4, <1>7, <1>8, <1>9, Zenon

\* A row of stage 2, which may be padded.
TwoAt(p, x, a, c, z) ==
  /\ p \in Seq(AnyToken) /\ a + c + z <= Len(p)
  /\ \A r \in 1..a : p[r] = OpenToken(x, r)
  /\ \A j \in 1..c : p[a + j] = Ignored
  /\ \A j \in 1..z : p[a + c + j] = CloseToken(x, j)

(* No padding is in it, unless the last token is eos and pad.              *)
LEMMA TwoNoPad ==
  ASSUME InputOK, NEW x \in Examples, NEW a \in Nat, NEW c \in Nat, NEW z, z = input.endLen + x.answer + 1,
         NEW p, TwoAt(p, x, a, c, z), NEW h, h = a + c + z,
         NEW r \in 1..h, r = h => CloseToken(x, z) # Pad, NEW t \in 1..h, t <= r
  PROVE  p[t] # Pad
<1>1. input.endLen \in Nat /\ x.answer \in Nat
  BY DEF InputOK, Examples
<1>2. z \in Nat
  BY <1>1
<1>3. Third(a, c, z, t)
  BY <1>2, Thirds
<1>4. CASE t \in 1..a
  <2>1. p[t] = OpenToken(x, t) /\ t \in Nat
    BY <1>4 DEF TwoAt
  <2> QED
    BY <2>1, EndTokens
<1>5. ASSUME NEW j \in 1..c, t = a + j PROVE p[t] # Pad
  BY <1>5, Specials DEF TwoAt
<1>6. ASSUME NEW j \in 1..z, t = a + c + j PROVE p[t] # Pad
  <2>1. p[t] = CloseToken(x, j) /\ j \in Nat
    BY <1>6 DEF TwoAt
  <2>2. CASE j = z
    <3>1. r = h
      BY <1>2, <1>6, <2>2
    <3> QED
      BY <2>1, <2>2, <3>1
  <2>3. CASE j # z
    <3>1. j <= input.endLen + x.answer
      BY <1>1, <2>3
    <3> QED
      BY <2>1, <3>1, EndTokens
  <2> QED
    BY <2>2, <2>3
<1> QED
  BY <1>3, <1>4, <1>5, <1>6 DEF Third
-----------------------------------------------------------------------------
(* The rows of stage 2 and of the validation.                              *)

Label2Rows == [b \in Rows |-> Stage2Features(input.examples[b], SoftLabels(b)).labels]

\* The parts of row b of stage 2 and of its labels.
Stage2Parts(b, x) ==
  /\ Opening(x) \in Seq(AnyToken) /\ Closing(x) \in Seq(AnyToken)
  /\ Len(Opening(x)) \in Nat \ {0} /\ Len(Closing(x)) \in Nat \ {0} /\ LabelCount(x) \in Nat
  /\ Framed(Stage2Rows[b], Opening(x), Fill(Ignored, LabelCount(x)), Closing(x))
  /\ Joins(Label2Rows[b], Fill(Ignored, Len(Opening(x)) + LabelCount(x)), Closing(x))
  /\ Stage2Rows[b] \in Seq(AnyToken) /\ Label2Rows[b] \in Seq(AnyToken)

(* Every row has them.                                                     *)
LEMMA Stage2PartsAre ==
  ASSUME input \in Batches, NEW b \in Rows, NEW x, x = input.examples[b]
  PROVE  Stage2Parts(b, x)
<1> DEFINE a == Opening(x)
           z == Closing(x)
           c == LabelCount(x)
           l == Len(a) + c
           f == Fill(Ignored, c)
           g == Fill(Ignored, l)
           u == Stage2Rows[b]
           v == Label2Rows[b]
<1>1. InputOK /\ x \in Examples
  BY Inputs
<1>2. c \in Nat
  BY SoftLabelsMean
<1>3. a \in Seq(Plain) /\ z \in Seq(Plain) /\ Len(a) \in Nat \ {0} /\ Len(z) \in Nat \ {0}
  BY <1>1, Sides
<1>4. a \in Seq(AnyToken) /\ z \in Seq(AnyToken)
  BY <1>3, PlainMeans
<1>5. f \in Seq(AnyToken) /\ g \in Seq(AnyToken)
  <2>1. c \in Nat /\ l \in Nat
    BY <1>2, <1>3
  <2> HIDE DEF c, l
  <2> QED
    BY <2>1, FillProperties, Specials
<1>6. Len(SoftLabels(b)) = c
  BY SoftLabelsMean
<1>7. u = (a \o f) \o z /\ v = g \o z
  BY <1>6, Zenon DEF Stage2Rows, Label2Rows, Stage2Features, Opening, Closing
<1> HIDE DEF a, z, c, l, f, g, u, v
<1>8. a \o f \in Seq(AnyToken)
  BY <1>4, <1>5, ConcatProperties
<1>9. (a \o f) \o z \in Seq(AnyToken) /\ g \o z \in Seq(AnyToken)
  BY <1>4, <1>5, <1>8, ConcatProperties
<1>10. u \in Seq(AnyToken) /\ v \in Seq(AnyToken)
  BY <1>7, <1>9
<1> QED
  BY <1>2, <1>3, <1>4, <1>7, <1>10, Zenon DEF Stage2Parts, Framed, Joins, a, z, c, l, f, g, u, v

(* The rows of a batch of stage 2.                                         *)
LEMMA Stage2RowIs ==
  ASSUME input \in Batches, NEW b \in Rows, NEW x, x = input.examples[b], x.marker = "none",
         NEW a, a = x.prompt + 1, NEW c, c = LabelCount(x), NEW z, z = input.endLen + x.answer + 1
  PROVE  /\ TwoAt(RightPad(Stage2Rows, Pad)[b], x, a, c, z)
         /\ RightPad(Label2Rows, Ignored)[b] \in Seq(AnyToken)
         /\ a + c + z <= Len(RightPad(Label2Rows, Ignored)[b])
         /\ Labeled(RightPad(Label2Rows, Ignored)[b], x, a, c, z)
<1> DEFINE k == Len(input.examples)
           u == Stage2Rows[b]
           v == Label2Rows[b]
           p == RightPad(Stage2Rows, Pad)[b]
           q == RightPad(Label2Rows, Ignored)[b]
           o == Opening(x)
           f == Fill(Ignored, c)
           g == Fill(Ignored, a + c)
           t == Closing(x)
           m == MaxLen(Stage2Rows) - Len(u)
           n == MaxLen(Label2Rows) - Len(v)
<1>1. InputOK /\ Rows = 1..k /\ k \in Nat \ {0} /\ x \in Examples
  BY Inputs DEF InputOK
<1>2. OpensAs(o, x, a) /\ ClosesAs(t, x, z) /\ a \in Nat \ {0} /\ z \in Nat \ {0}
  BY <1>1, CleanEnds
<1>3. Len(o) = a /\ Len(t) = z /\ o \in Seq(AnyToken) /\ t \in Seq(AnyToken)
  BY <1>2 DEF OpensAs, ClosesAs
<1>4. Stage2Parts(b, x)
  BY Stage2PartsAre
<1>5. /\ c \in Nat /\ Framed(u, o, f, t) /\ Joins(v, g, t)
      /\ u \in Seq(AnyToken) /\ v \in Seq(AnyToken)
  BY <1>3, <1>4, Zenon DEF Stage2Parts
<1>6. Family(Stage2Rows, k, AnyToken) /\ Family(Label2Rows, k, AnyToken)
  <2>1. \A i \in Rows : Stage2Rows[i] \in Seq(AnyToken) /\ Label2Rows[i] \in Seq(AnyToken)
    BY Stage2PartsAre DEF Stage2Parts
  <2>2. DOMAIN Stage2Rows = Rows /\ DOMAIN Label2Rows = Rows
    BY DEF Stage2Rows, Label2Rows
  <2> QED
    BY <1>1, <2>1, <2>2, Zenon DEF Family
<1>7. /\ Joins(p, u, Fill(Pad, m)) /\ m \in Nat /\ p \in Seq(AnyToken)
      /\ Joins(q, v, Fill(Ignored, n)) /\ n \in Nat /\ q \in Seq(AnyToken)
  <2>1. b \in 1..k /\ Pad \in AnyToken /\ Ignored \in AnyToken
    BY <1>1, Specials
  <2> HIDE DEF k
  <2> QED
    BY <1>1, <1>6, <2>1, RightPadRow
<1>8. /\ f \in Seq(AnyToken) /\ Len(f) = c /\ (\A j \in 1..c : f[j] = Ignored)
      /\ g \in Seq(AnyToken) /\ Len(g) = a + c /\ (\A j \in 1..a + c : g[j] = Ignored)
  <2>1. PICK l : l = a + c
    OBVIOUS
  <2>2. c \in Nat /\ l \in Nat /\ Ignored \in AnyToken
    BY <1>2, <1>5, <2>1, Specials
  <2>3. /\ Fill(Ignored, l) \in Seq(AnyToken) /\ Len(Fill(Ignored, l)) = l
        /\ \A j \in 1..l : Fill(Ignored, l)[j] = Ignored
    BY <2>2, FillProperties
  <2>4. f \in Seq(AnyToken) /\ Len(f) = c /\ (\A j \in 1..c : f[j] = Ignored)
    BY <2>2, FillProperties
  <2> QED
    BY <2>1, <2>3, <2>4, Zenon
<1> HIDE DEF m, n, f, g, o, t, u, v, p, q
<1>9. FrameOf(u, o, f, t, a, c, z)
  BY <1>2, <1>3, <1>5, <1>8, FrameIs
<1>10. /\ Len(u) = a + c + z
       /\ \A i \in 1..a : u[i] = OpenToken(x, i)
       /\ \A i \in 1..c : u[a + i] = Ignored
       /\ \A i \in 1..z : u[a + c + i] = CloseToken(x, i)
  BY <1>2, <1>8, <1>9 DEF FrameOf, OpensAs, ClosesAs
<1>11. Len(v) = a + c + z /\ \A i \in 1..a + c + z : v[i] = IF i <= a + c THEN g[i] ELSE t[i - (a + c)]
  <2>1. PICK l : l = a + c
    OBVIOUS
  <2>2. l \in Nat /\ Len(g) = l /\ z \in Nat
    BY <1>2, <1>5, <1>8, <2>1
  <2>3. g \in Seq(AnyToken) /\ t \in Seq(AnyToken) /\ Joins(v, g, t) /\ Len(t) = z
    BY <1>3, <1>5, <1>8
  <2>4. Len(v) = l + z /\ \A i \in 1..l + z : v[i] = IF i <= l THEN g[i] ELSE t[i - l]
    <3>1. JoinOf(v, g, t, l, z, AnyToken)
      BY <2>2, <2>3, Concatenation
    <3> QED
      BY <3>1 DEF JoinOf
  <2> QED
    BY <2>1, <2>4, Zenon
<1>12. Labeled(v, x, a, c, z)
  <2>1. ASSUME NEW r \in 1..a + c PROVE v[r] = Ignored
    BY <1>2, <1>5, <1>8, <1>11
  <2>2. ASSUME NEW j \in 1..z PROVE v[a + c + j] = CloseToken(x, j)
    <3>1. PICK i, l : l = a + c /\ i = a + c + j
      OBVIOUS
    <3>2. a \in Nat /\ c \in Nat /\ z \in Nat
      BY <1>2, <1>5
    <3>3. i \in 1..l + z /\ ~(i <= l) /\ i - l = j
      BY <3>1, <3>2
    <3>4. v[i] = t[i - l]
      BY <1>11, <3>1, <3>3
    <3>5. t[j] = CloseToken(x, j)
      BY <1>2 DEF ClosesAs
    <3> QED
      BY <3>1, <3>3, <3>4, <3>5, Zenon
  <2> QED
    BY <2>1, <2>2 DEF Labeled
<1> DEFINE h == a + c + z
<1>13. h \in Nat /\ \A i \in 1..h : i \in Nat
  BY <1>2, <1>5
<1>14. \A i \in 1..h : p[i] = u[i] /\ q[i] = v[i]
  <2>1. Len(u) = h /\ Len(v) = h
    BY <1>10, <1>11
  <2> HIDE DEF h
  <2>2. /\ Fill(Pad, m) \in Seq(AnyToken) /\ Len(Fill(Pad, m)) = m
        /\ Fill(Ignored, n) \in Seq(AnyToken) /\ Len(Fill(Ignored, n)) = n
    BY <1>7, FillProperties, Specials
  <2>3. /\ \A i \in 1..h+m : p[i] = IF i <= h THEN u[i] ELSE Fill(Pad, m)[i - h]
    <3>1. JoinOf(p, u, Fill(Pad, m), h, m, AnyToken)
      BY <1>5, <1>7, <1>13, <2>1, <2>2, Concatenation
    <3> QED
      BY <3>1 DEF JoinOf
  <2>4. /\ \A i \in 1..h+n : q[i] = IF i <= h THEN v[i] ELSE Fill(Ignored, n)[i - h]
    <3>1. JoinOf(q, v, Fill(Ignored, n), h, n, AnyToken)
      BY <1>5, <1>7, <1>13, <2>1, <2>2, Concatenation
    <3> QED
      BY <3>1 DEF JoinOf
  <2>5. \A i \in 1..h : i \in 1..h+m /\ i \in 1..h+n /\ i <= h
    BY <1>7, <1>13
  <2> QED
    BY <2>3, <2>4, <2>5
<1>15. h <= Len(p) /\ h <= Len(q)
  <2>1. Len(u) = h /\ Len(v) = h
    BY <1>10, <1>11
  <2> HIDE DEF h
  <2>2. /\ Fill(Pad, m) \in Seq(AnyToken) /\ Len(Fill(Pad, m)) = m
        /\ Fill(Ignored, n) \in Seq(AnyToken) /\ Len(Fill(Ignored, n)) = n
    BY <1>7, FillProperties, Specials
  <2>3. Len(p) = h + m
    BY <1>5, <1>7, <1>13, <2>1, <2>2, Concatenated
  <2>4. Len(q) = h + n
    BY <1>5, <1>7, <1>13, <2>1, <2>2, Concatenated
  <2> QED
    BY <1>7, <1>13, <2>3, <2>4
<1>16. (\A r \in 1..a : r \in 1..h) /\ (\A j \in 1..c : a + j \in 1..h) /\ (\A j \in 1..z : a + c + j \in 1..h)
       /\ \A r \in 1..a + c : r \in 1..h
  <2>1. a \in Nat /\ c \in Nat /\ z \in Nat
    BY <1>2, <1>5
  <2> QED
    BY <2>1
<1>17. TwoAt(p, x, a, c, z)
  BY <1>7, <1>10, <1>14, <1>15, <1>16 DEF TwoAt
<1>18. Labeled(q, x, a, c, z)
  BY <1>12, <1>14, <1>16 DEF Labeled
<1> QED
  BY <1>7, <1>15, <1>17, <1>18 DEF p, q

\* u has the x elements of a, the y of m and the n of z, all in S.
FramedIn(S, u, a, m, z, x, y, n) ==
  /\ u \in Seq(S) /\ Len(u) = x + y + n
  /\ \A i \in 1..x : u[i] = a[i]
  /\ \A i \in 1..y : u[x + i] = m[i]
  /\ \A i \in 1..n : u[x + y + i] = z[i]

\* row is p with the c elements after the s-th replaced by t.
ReplacedBy(row, p, t, s, c, S) ==
  /\ row \in Seq(S) /\ Len(row) = Len(p)
  /\ \A i \in 1..s : row[i] = p[i]
  /\ \A j \in 1..c : row[s + j] = t[j]
  /\ \A i \in 1..Len(p)-(s+c) : row[s + c + i] = p[s + c + i]

(* Nothing else is.                                                        *)
LEMMA ReplacedIs ==
  ASSUME NEW S, NEW p \in Seq(S), NEW t \in Seq(S), NEW s \in Nat, NEW c \in Nat, Len(t) = c,
         s + c <= Len(p), NEW row, Replaces(row, p, s, t)
  PROVE  ReplacedBy(row, p, t, s, c, S)
<1> DEFINE n == Len(p)
           k == s + c + 1
           a == SubSeq(p, 1, s)
           z == SubSeq(p, k, n)
<1>1. n \in Nat /\ s + c <= n /\ \A i \in 1..n : p[i] \in S
  BY ElementOfSeq, LenProperties
<1>2. Framed(row, a, t, z)
  BY DEF Framed, Replaces
<1> HIDE DEF n
<1>3. k \in Int /\ n \in Int /\ 1 \in Int /\ s \in Int
      /\ (\A i \in 1..s : p[i] \in S) /\ (\A i \in k..n : p[i] \in S)
  BY <1>1
<1>0. k = s + c + 1
  OBVIOUS
<1> HIDE DEF k
<1>4. a \in Seq(S) /\ Len(a) = s /\ \A i \in 1..s : a[i] = p[i]
  <2>1. a \in Seq(S) /\ Len(a) = (IF 1 <= s THEN s - 1 + 1 ELSE 0) /\ \A i \in 1..s-1+1 : a[i] = p[1 + i - 1]
    BY <1>3, SubSeqProperties
  <2>2. \A i \in 1..s : i \in 1..s-1+1 /\ 1 + i - 1 = i
    BY <1>3
  <2> QED
    BY <2>1, <2>2
<1> DEFINE d == n - (s + c)
<1>5. z \in Seq(S) /\ Len(z) = d /\ d \in Nat /\ \A i \in 1..d : z[i] = p[s + c + i]
  <2>1. z \in Seq(S) /\ Len(z) = (IF k <= n THEN n - k + 1 ELSE 0) /\ \A i \in 1..n-k+1 : z[i] = p[k + i - 1]
    BY <1>3, SubSeqProperties
  <2> HIDE DEF z
  <2>2. d \in Nat /\ (IF k <= n THEN n - k + 1 ELSE 0) = d
    BY <1>0, <1>1
  <2>3. \A i \in 1..d : i \in 1..n-k+1 /\ k + i - 1 = s + c + i
    BY <1>0, <1>1
  <2> HIDE DEF d
  <2>4. \A i \in 1..d : z[i] = p[s + c + i]
    BY <2>1, <2>3
  <2> QED
    BY <2>1, <2>2, <2>4
<1> HIDE DEF a, z, d
<1>6. /\ row \in Seq(S) /\ Len(row) = s + c + d
      /\ \A i \in 1..s : row[i] = a[i]
      /\ \A i \in 1..c : row[s + i] = t[i]
      /\ \A i \in 1..d : row[s + c + i] = z[i]
  <2>1. /\ a \in Seq(S) /\ t \in Seq(S) /\ z \in Seq(S) /\ Framed(row, a, t, z)
        /\ s \in Nat /\ Len(a) = s /\ c \in Nat /\ Len(t) = c /\ d \in Nat /\ Len(z) = d
    BY <1>2, <1>4, <1>5
  <2>2. FramedIn(S, row, a, t, z, s, c, d)
    BY <2>1, FramedAt DEF FramedIn
  <2> QED
    BY <2>2 DEF FramedIn
<1>7. Len(row) = n
  BY <1>1, <1>6 DEF d
<1>8. \A i \in 1..s : row[i] = p[i]
  BY <1>4, <1>6
<1>9. \A i \in 1..d : row[s + c + i] = p[s + c + i]
  BY <1>5, <1>6
<1> QED
  BY <1>6, <1>7, <1>8, <1>9, Zenon DEF ReplacedBy, n, d

(* The labelled text of the trained one has its segments.                  *)
LEMMA SameLabels ==
  ASSUME input \in Batches, NEW b \in Rows, NEW x, x = input.examples[b],
         LabelText(x) = TrainText(x)
  PROVE  LabelCount(x) = Segments(x) /\ TextAt(x, Len(LabelText(x))) = CompressAt(x)
<1>1. InputOK /\ x \in Examples
  BY Inputs
<1>2. PICK text, n : text = LabelText(x) /\ n = Len(text)
  OBVIOUS
<1>3. CompressCount(n, input.k) = Segments(x) /\ TextAt(x, n) = CompressAt(x)
  BY <1>1, <1>2, SameText
<1> QED
  BY <1>2, <1>3, Zenon DEF LabelCount

(* What stage 2 gives the model.                                           *)
LEMMA Stage2Given ==
  ASSUME input \in Batches, NoneEmpty, batch = Batch2,
         NEW b \in Rows, NEW x, x = input.examples[b], x.marker = "none",
         LabelText(x) = TrainText(x), NEW a, a = x.prompt + 1, NEW c, c = Segments(x), NEW z, z = input.endLen + x.answer + 1,
         NEW row, row = Stage2Row(b)
  PROVE  Given(row, x, a, c, z) /\ row \in Seq(Embeds) /\ a + c + z <= Len(row)
<1> DEFINE p == RightPad(Stage2Rows, Pad)[b]
           t == SoftLabels(b)
           o == Len(Opening(x))
<1>1. InputOK /\ x \in Examples /\ x.cot # 0
  BY Inputs DEF NoneEmpty
<1>2. o = a /\ a \in Nat \ {0} /\ z \in Nat \ {0}
  BY <1>1, CleanEnds DEF OpensAs
<1>0. c = LabelCount(x) /\ TextAt(x, Len(LabelText(x))) = CompressAt(x)
  BY SameLabels
<1>3. TwoAt(p, x, a, c, z)
  BY <1>0, Stage2RowIs
<1>4. /\ batch.input_ids = RightPad(Stage2Rows, Pad) /\ batch.latent_state[b] = t
      /\ batch.latent_index[b][1] = o /\ batch.latent_index[b][2] = o + c
  BY <1>0, Batch2Is
<1>5. t \in Seq(Embeds) /\ Len(t) = c /\ c \in Nat /\ \A j \in 1..c : t[j] = <<"enc", CompressAt(x)[j]>>
  BY <1>0, SoftLabelsMean
<1>6. p \in Seq(AnyToken) /\ a + c + z <= Len(p)
  BY <1>3 DEF TwoAt
<1>7. p \in Seq(Embeds)
  BY <1>6, TokensEmbed
<1>8. row = (SubSeq(p, 1, a) \o t) \o SubSeq(p, a + c + 1, Len(p))
  BY <1>2, <1>4, Zenon DEF Stage2Row
<1> HIDE DEF p, t, o
<1>9. Replaces(row, p, a, t)
  BY <1>5, <1>8, Zenon DEF Replaces
<1>10. a \in Nat /\ c \in Nat /\ z \in Nat /\ Len(p) \in Nat
  BY <1>2, <1>5, <1>6, LenProperties
<1>11. a + c <= Len(p) /\ \A j \in 1..z : j \in 1..Len(p)-(a+c)
  BY <1>6, <1>10
<1>12. ReplacedBy(row, p, t, a, c, Embeds)
  BY <1>5, <1>7, <1>9, <1>10, <1>11, ReplacedIs
<1>13. Given(row, x, a, c, z)
  <2>1. /\ \A r \in 1..a : p[r] = OpenToken(x, r)
        /\ \A r \in 1..z : p[a + c + r] = CloseToken(x, r)
    BY <1>3 DEF TwoAt
  <2>2. /\ \A r \in 1..a : row[r] = p[r]
        /\ \A r \in 1..c : row[a + r] = t[r]
        /\ \A r \in 1..Len(p)-(a+c) : row[a + c + r] = p[a + c + r]
    BY <1>12 DEF ReplacedBy
  <2>3. ASSUME NEW r \in 1..a PROVE row[r] = OpenToken(x, r)
    BY <2>1, <2>2, Zenon
  <2>4. \A r \in 1..c : row[a + r] = <<"enc", CompressAt(x)[r]>>
    BY <1>5, <2>2, Zenon
  <2>5. ASSUME NEW r \in 1..z PROVE row[a + c + r] = CloseToken(x, r)
    <3>1. r \in 1..Len(p)-(a+c)
      BY <1>11
    <3>2. row[a + c + r] = p[a + c + r]
      BY <2>2, <3>1, Zenon
    <3> QED
      BY <2>1, <3>2, Zenon
  <2> QED
    BY <2>3, <2>4, <2>5, Zenon DEF Given
<1> QED
  BY <1>6, <1>12, <1>13 DEF ReplacedBy

\* A row of the validation: padding, opening, latents and end marker.
ValidAt(p, x, g, a, c, l) ==
  /\ g \in Nat /\ p \in Seq(AnyToken) /\ Len(p) = g + (a + c + l)
  /\ \A i \in 1..g : p[i] = Pad
  /\ \A r \in 1..a : p[g + r] = OpenToken(x, r)
  /\ \A j \in 1..c : p[g + (a + j)] = Ignored
  /\ \A j \in 1..l : p[g + (a + c + j)] = <<"/think", j>>

(* Every row is one.                                                       *)
LEMMA ValidationRowIs ==
  ASSUME input \in Batches, NEW b \in Rows, NEW x, x = input.examples[b], x.marker = "none",
         NEW a, a = x.prompt + 1, NEW c, c = ValidCount(x), NEW l, l = input.endLen
  PROVE  \E g : ValidAt(LeftPad(ValidationRows, Pad)[b], x, g, a, c, l)
<1> DEFINE n == Len(input.examples)
           u(i) == ValidationRows[i]
           o(i) == Opening(input.examples[i])
           f(i) == Fill(Ignored, ValidCount(input.examples[i]))
           e == EndThink
<1>1. InputOK /\ Rows = 1..n /\ n \in Nat \ {0} /\ \A i \in Rows : input.examples[i] \in Examples
  BY Inputs DEF InputOK
<1>2. ASSUME NEW i \in Rows
      PROVE  /\ u(i) \in Seq(AnyToken) /\ Framed(u(i), o(i), f(i), e)
             /\ o(i) \in Seq(AnyToken) /\ f(i) \in Seq(AnyToken) /\ e \in Seq(AnyToken)
  <2>1. PICK y : y = input.examples[i]
    OBVIOUS
  <2>2. ValidCount(y) \in Nat /\ o(i) \in Seq(Plain) /\ e \in Seq(Plain)
    BY <1>1, <2>1, ValidCotPadded, Sides, Pieces
  <2>3. o(i) \in Seq(AnyToken) /\ e \in Seq(AnyToken)
    BY <2>2, PlainMeans
  <2>4. f(i) \in Seq(AnyToken)
    BY <2>1, <2>2, FillProperties, Specials
  <2>5. u(i) = (o(i) \o f(i)) \o e
    BY Zenon DEF ValidationRows, ValidationIds, Opening, ValidCount
  <2> HIDE DEF u, o, f, e
  <2>6. o(i) \o f(i) \in Seq(AnyToken)
    BY <2>3, <2>4, ConcatProperties
  <2>7. u(i) \in Seq(AnyToken)
    BY <2>3, <2>5, <2>6, ConcatProperties
  <2> QED
    BY <2>3, <2>4, <2>5, <2>7 DEF Framed
<1>3. Family(ValidationRows, n, AnyToken)
  BY <1>1, <1>2 DEF Family, ValidationRows
<1> DEFINE m == MaxLen(ValidationRows) - Len(ValidationRows[b])
           p == LeftPad(ValidationRows, Pad)[b]
           U == u(b)
           O == o(b)
           F == f(b)
<1>4. Joins(p, Fill(Pad, m), U) /\ m \in Nat
  <2>1. b \in 1..n /\ Pad \in AnyToken
    BY <1>1, Specials
  <2> HIDE DEF n
  <2> QED
    BY <1>1, <1>3, <2>1, LeftPadRow
<1>5. /\ U \in Seq(AnyToken) /\ Framed(U, O, F, e)
      /\ O \in Seq(AnyToken) /\ F \in Seq(AnyToken) /\ e \in Seq(AnyToken)
  BY <1>2
<1>6. OpensAs(O, x, a) /\ a \in Nat \ {0}
  BY <1>1, CleanEnds
<1>7. /\ Len(F) = c /\ (\A j \in 1..c : F[j] = Ignored) /\ c \in Nat
      /\ Len(e) = l /\ (\A j \in 1..l : e[j] = <<"/think", j>>) /\ l \in Nat \ {0}
  <2>1. c \in Nat
    BY ValidCotPadded
  <2>2. F = Fill(Ignored, c) /\ c \in Nat
    BY <2>1
  <2>3. Len(F) = c /\ \A j \in 1..c : F[j] = Ignored
    BY <2>2, FillProperties, Specials
  <2>4. Len(e) = l /\ (\A j \in 1..l : e[j] = <<"/think", j>>) /\ l \in Nat \ {0}
    BY <1>1, Pieces DEF InputOK
  <2> QED
    BY <2>1, <2>3, <2>4
<1> HIDE DEF m, p, U, O, F, e
<1>8. a \in Nat /\ c \in Nat /\ l \in Nat /\ Len(O) = a
  BY <1>6, <1>7 DEF OpensAs
<1>9. FrameOf(U, O, F, e, a, c, l)
  BY <1>5, <1>7, <1>8, FrameIs
<1> DEFINE h == a + c + l
<1>10. h \in Nat /\ Len(U) = h
  BY <1>8, <1>9 DEF FrameOf
<1> HIDE DEF h
<1>11. Fill(Pad, m) \in Seq(AnyToken) /\ Len(Fill(Pad, m)) = m /\ \A i \in 1..m : Fill(Pad, m)[i] = Pad
  BY <1>4, FillProperties, Specials
<1>12. p \in Seq(AnyToken) /\ Len(p) = m + h /\ \A i \in 1..m+h : p[i] = IF i <= m THEN Fill(Pad, m)[i] ELSE U[i - m]
  <2>1. Fill(Pad, m) \in Seq(AnyToken) /\ Len(Fill(Pad, m)) = m /\ m \in Nat
    BY <1>4, <1>11
  <2>2. U \in Seq(AnyToken) /\ Len(U) = h /\ h \in Nat
    BY <1>5, <1>10
  <2>3. JoinOf(p, Fill(Pad, m), U, m, h, AnyToken)
    BY <1>4, <2>1, <2>2, Concatenation
  <2> QED
    BY <2>3 DEF JoinOf
<1>13. \A i \in 1..m : p[i] = Pad
  BY <1>4, <1>10, <1>11, <1>12
<1>14. ASSUME NEW i \in 1..h PROVE p[m + i] = U[i]
  <2>1. PICK k : k = m + i
    OBVIOUS
  <2>2. k \in 1..m+h /\ ~(k <= m) /\ k - m = i
    <3>1. m \in Nat /\ h \in Nat
      BY <1>4, <1>10
    <3> QED
      BY <2>1, <3>1
  <2>3. p[k] = U[k - m]
    BY <1>12, <2>2
  <2> QED
    BY <2>1, <2>2, <2>3, Zenon
<1>15. (\A r \in 1..a : r \in 1..h) /\ (\A j \in 1..c : a + j \in 1..h) /\ (\A j \in 1..l : a + c + j \in 1..h)
  <2>1. a \in Nat /\ c \in Nat /\ l \in Nat /\ h = a + c + l
    BY <1>8 DEF h
  <2> QED
    BY <2>1
<1>16. \A r \in 1..a : p[m + r] = OpenToken(x, r)
  BY <1>6, <1>9, <1>14, <1>15 DEF FrameOf, OpensAs
<1>17. \A j \in 1..c : p[m + (a + j)] = Ignored
  <2>1. \A j \in 1..c : U[a + j] = F[j]
    BY <1>9 DEF FrameOf
  <2> QED
    BY <1>7, <1>14, <1>15, <2>1, Zenon
<1>18. \A j \in 1..l : p[m + (a + c + j)] = <<"/think", j>>
  <2>1. \A j \in 1..l : U[a + c + j] = e[j]
    BY <1>9 DEF FrameOf
  <2> QED
    BY <1>7, <1>14, <1>15, <2>1, Zenon
<1>19. ValidAt(p, x, m, a, c, l)
  BY <1>4, <1>12, <1>13, <1>16, <1>17, <1>18 DEF ValidAt, h
<1> QED
  BY <1>19 DEF p

(* Every row of stage 1 has the parts.                                     *)
LEMMA RowPartsAre ==
  ASSUME InputOK, EndLen, NEW x \in Examples, x.cot # 0, x.marker = "none",
         NEW ids, ids = DecoderIds(x), NEW a, a = x.prompt + 1, NEW c, c = Segments(x),
         NEW z, z = input.endLen + x.answer + 1
  PROVE  \E e, n : RowParts(ids, x, LatentAt(x), a, c, z, e, n) /\ Laid(ids, a, e, n) /\ NoPad(ids, n - 1)
<1> DEFINE W == Where(ids, Ignored)
           v == LatentAt(x)
<1>1. PICK d, m, s, y : DecoderTokens(ids, x, d, m, s, y)
  BY DecoderTokensAre
<1>2. d = a /\ y = z
  BY <1>1 DEF DecoderTokens
<1>3. DecoderTokens(ids, x, a, m, s, z)
  BY <1>1, <1>2, Zenon
<1>4. PICK e, n : e = At(a, m, s) + 1 /\ n = Len(ids)
  OBVIOUS
<1>5. DecoderIs(ids, x, a, m, s, z, e, n)
  BY <1>3, <1>4, Zenon DEF DecoderIs
<1>6. EndsOf(a, m, s, z, e, n)
  BY <1>5, DecoderEnds, Zenon
<1>7. DecoderLayout(ids, x, a, m, s, e, n)
  BY <1>3, <1>4, LayoutOfDecoder
<1>8. Laid(ids, a, e, n) /\ NoPad(ids, n - 1)
  BY <1>7, Zenon DEF DecoderLayout
<1>9. ids \in Seq(AnyToken) /\ Latents(W, a, e)
  BY <1>8 DEF Laid
<1>10. Ranked(v, c, W) /\ c \in Nat \ {0}
  BY DecoderRow, SegmentsMeans, Zenon
<1> HIDE DEF W, v
<1>11. DOMAIN ids = 1..n
  BY <1>4, <1>9, LenProperties
<1>12. ASSUME NEW p \in 1..n, a < p, p < e, p \notin W PROVE ids[p][1] = "cot"
  <2>1. PartAt(ids, x, a, m, s, z, e, n, p)
    BY <1>5, DecoderParts, Zenon
  <2>2. PICK q \in m..s : ids[p] = SpreadAt(x.cot, input.k, Ignored, q)
    BY <1>12, <2>1 DEF PartAt
  <2>3. ids[p] # Ignored
    BY <1>11, <1>12 DEF W, Where
  <2>4. ids[p] = <<"cot", q - (q \div (input.k + 1))>>
    BY <2>2, <2>3, Zenon DEF SpreadAt
  <2> QED
    BY <2>4
<1>13. \A p \in 1..a : ids[p] = OpenToken(x, p)
  BY <1>3 DEF DecoderTokens
<1>14. ASSUME NEW j \in 1..z PROVE ids[e - 1 + j] = CloseToken(x, j)
  <2>1. PICK l : l = a + (s - m + 1)
    OBVIOUS
  <2>2. ids[l + j] = CloseToken(x, j)
    BY <1>3, <2>1 DEF DecoderTokens
  <2>3. e = l + 1
    BY <1>4, <2>1 DEF At
  <2>4. l \in Nat
    BY <1>6, <2>1 DEF EndsOf
  <2>5. e - 1 + j = l + j
    BY <2>3, <2>4
  <2> QED
    BY <2>2, <2>5, Zenon
<1>15. /\ a \in Nat \ {0} /\ z \in Nat \ {0} /\ e \in Nat /\ n \in Nat
       /\ e + z = n + 1 /\ a + 1 < e
  BY <1>6 DEF EndsOf
<1>16. RowParts(ids, x, v, a, c, z, e, n)
  BY <1>9, <1>10, <1>11, <1>12, <1>13, <1>14, <1>15 DEF RowParts, W
<1> QED
  BY <1>8, <1>16 DEF v
-----------------------------------------------------------------------------
(* The stages agree.                                                       *)

\* The positions of stage 1 without the spacers, and what is embedded there.
NoSpacers(ids) == {i \in DOMAIN ids : ids[i][1] # "cot"}
EmbedsKept(x) ==
  [n \in 1..Len(Kept(x)) |-> Scatter(DecoderIds(x), CotIds(x))[Kept(x)[n]]]

\* Stage 1 of example x without its spacers.
KeptRow(x, a, c, z, e, n, h) ==
  /\ a = x.prompt + 1 /\ c = Segments(x) /\ z = input.endLen + x.answer + 1 /\ h = a + c + z
  /\ RowParts(DecoderIds(x), x, LatentAt(x), a, c, z, e, n)
  /\ Laid(DecoderIds(x), a, e, n) /\ NoPad(DecoderIds(x), n - 1)
  /\ KeptIs(Kept(x), LatentAt(x), a, c, z, e, h) /\ Ranked(Kept(x), h, NoSpacers(DecoderIds(x)))
  /\ ScatteredAs(Scatter(DecoderIds(x), CotIds(x)), DecoderIds(x), LatentAt(x), CompressAt(x), c)
  /\ Given(EmbedsKept(x), x, a, c, z)

(* Every example has it.                                                   *)
LEMMA KeptRowIs ==
  ASSUME InputOK, EndLen, NEW x \in Examples, x.cot # 0, x.marker = "none"
  PROVE  \E a, c, z, e, n, h : KeptRow(x, a, c, z, e, n, h)
<1> DEFINE ids == DecoderIds(x)
           K == NoSpacers(ids)
           E == Scatter(ids, CotIds(x))
           v == LatentAt(x)
           kept == Kept(x)
           F == EmbedsKept(x)
<1>1. PICK a, c, z, h : /\ a = x.prompt + 1 /\ c = Segments(x) /\ z = input.endLen + x.answer + 1
                        /\ h = a + c + z
  OBVIOUS
<1>2. PICK e, n : RowParts(ids, x, v, a, c, z, e, n) /\ Laid(ids, a, e, n) /\ NoPad(ids, n - 1)
  BY <1>1, RowPartsAre
<1>3. K = {i \in DOMAIN ids : ids[i][1] # "cot"}
  BY Zenon DEF NoSpacers
<1>4. kept = Ascending(K)
  BY Zenon DEF Kept, NoSpacers, DecoderIds
<1>5. F = [r \in 1..Len(kept) |-> E[kept[r]]]
  BY Zenon DEF EmbedsKept
<1>6. Ranked(v, c, Where(ids, Ignored)) /\ Ranked(CompressAt(x), c, Where(CotIds(x), Compress)) /\ c \in Nat
  BY <1>1, DecoderRow, EncoderRow, SegmentsMeans
<1>7. ScatteredAs(E, ids, v, CompressAt(x), c)
  BY <1>6, ScatterIs
<1> HIDE DEF ids, K, E, v, kept, F
<1>8. KeptIs(Ascending(K), v, a, c, z, e, h) /\ Ranked(Ascending(K), h, K)
  BY <1>1, <1>2, <1>3, KeptMeans
<1>9. KeptIs(kept, v, a, c, z, e, h) /\ Ranked(kept, h, K)
  BY <1>4, <1>8, Zenon
<1>10. F = [r \in 1..h |-> E[kept[r]]]
  <2>1. Len(kept) = h
    BY <1>9 DEF KeptIs
  <2> QED
    BY <1>5, <2>1, Zenon
<1>11. Given(F, x, a, c, z)
  BY <1>2, <1>7, <1>9, <1>10, KeptGiven
<1>12. KeptRow(x, a, c, z, e, n, h)
  BY <1>1, <1>2, <1>7, <1>9, <1>11, Zenon DEF KeptRow, ids, K, E, v, kept, F
<1> QED
  BY <1>12

(* A sequence starts with the function it agrees with.                     *)
LEMMA PrefixIs ==
  ASSUME NEW S, NEW s \in Seq(S), NEW n \in Nat, n <= Len(s),
         NEW F, DOMAIN F = 1..n, F = [r \in DOMAIN F |-> F[r]], \A r \in 1..n : s[r] = F[r]
  PROVE  SubSeq(s, 1, n) = F
<1> DEFINE u == SubSeq(s, 1, n)
<1>1. \A i \in 1..n : s[i] \in S
  <2>1. Len(s) \in Nat /\ \A i \in 1..Len(s) : s[i] \in S
    BY ElementOfSeq, LenProperties
  <2> QED
    BY <2>1
<1>2. u \in Seq(S) /\ Len(u) = (IF 1 <= n THEN n - 1 + 1 ELSE 0) /\ \A i \in 1..n-1+1 : u[i] = s[1 + i - 1]
  BY <1>1, SubSeqProperties
<1> HIDE DEF u
<1>3. Len(u) = n /\ \A i \in 1..n : i \in 1..n-1+1 /\ 1 + i - 1 = i
  BY <1>2
<1>4. \A i \in 1..n : u[i] = s[i]
  BY <1>2, <1>3
<1>5. u = [i \in 1..n |-> u[i]]
  BY <1>2, <1>3
<1>6. u = F
  BY <1>4, <1>5
<1> QED
  BY <1>6 DEF u

\* The position i behind g is of the opening, a latent or of the end marker.
Behind(p, x, g, a, c, l, i) ==
  \/ \E r \in 1..a : i = g + r /\ p[i] = OpenToken(x, r)
  \/ \E j \in 1..c : i = g + (a + j) /\ p[i] = Ignored
  \/ \E j \in 1..l : i = g + (a + c + j) /\ p[i] = <<"/think", j>>

(* Every position behind the padding is.                                   *)
LEMMA BehindIs ==
  ASSUME NEW x, NEW a \in Nat, NEW c \in Nat, NEW l \in Nat, NEW h, h = a + c + l,
         NEW p, NEW g, ValidAt(p, x, g, a, c, l), NEW r \in 1..h
  PROVE  Behind(p, x, g, a, c, l, g + r)
<1>1. Third(a, c, l, r)
  BY Thirds
<1>2. CASE r \in 1..a
  BY <1>2 DEF ValidAt, Behind
<1>3. ASSUME NEW j \in 1..c, r = a + j PROVE Behind(p, x, g, a, c, l, g + r)
  BY <1>3 DEF ValidAt, Behind
<1>4. ASSUME NEW j \in 1..l, r = a + c + j PROVE Behind(p, x, g, a, c, l, g + r)
  BY <1>4 DEF ValidAt, Behind
<1> QED
  BY <1>1, <1>2, <1>3, <1>4 DEF Third

(* The latents of the validation.                                          *)
LEMMA ValidLatents ==
  ASSUME InputOK, NEW x \in Examples, NEW a \in Nat, NEW c \in Nat, NEW l \in Nat,
         NEW p, NEW g, ValidAt(p, x, g, a, c, l), NEW v, v = [j \in 1..c |-> g + (a + j)]
  PROVE  Ranked(v, c, Where(p, Ignored))
<1> DEFINE W == Where(p, Ignored)
<1>1. g \in Nat /\ DOMAIN p = 1..g + (a + c + l) /\ \A i \in 1..g : p[i] = Pad
  BY LenProperties DEF ValidAt
<1>2. \A j \in 1..c : v[j] = g + (a + j)
  OBVIOUS
<1>3. \A j \in 1..c : v[j] \in Int
  BY <1>1, <1>2
<1>4. \A r, q \in 1..c : r < q => v[r] < v[q]
  BY <1>1, <1>2
<1>5. ASSUME NEW y \in W PROVE \E j \in 1..c : y = v[j]
  <2>1. y \in 1..g + (a + c + l) /\ p[y] = Ignored
    BY <1>1 DEF Where
  <2>2. ~(y <= g)
    BY <1>1, <2>1, Specials
  <2>3. PICK r : r = y - g
    OBVIOUS
  <2>4. r \in 1..a + c + l /\ y = g + r
    BY <1>1, <2>1, <2>2, <2>3
  <2>5. Behind(p, x, g, a, c, l, y)
    BY <2>4, BehindIs
  <2>6. ASSUME NEW i \in 1..a PROVE OpenToken(x, i) # Ignored
    BY EndTokens
  <2>7. \A j : <<"/think", j>> # Ignored
    BY DEF Ignored
  <2> QED
    BY <1>2, <2>1, <2>5, <2>6, <2>7 DEF Behind
<1>6. ASSUME NEW j \in 1..c PROVE v[j] \in W
  <2>1. g + (a + j) \in 1..g + (a + c + l)
    BY <1>1
  <2>2. p[g + (a + j)] = Ignored
    BY DEF ValidAt
  <2> QED
    BY <1>1, <1>2, <2>1, <2>2 DEF Where
<1> HIDE DEF W
<1> QED
  BY <1>3, <1>4, <1>5, <1>6 DEF Ranked, W

\* g times padding, and then the h elements of F, none of which is.
Shows(E, g, h, F) ==
  /\ g \in Nat /\ h \in Nat /\ DOMAIN E = 1..g + h
  /\ \A i \in 1..g : E[i] = Pad
  /\ \A r \in 1..h : E[g + r] # Pad
  /\ F = [r \in 1..h |-> E[g + r]]

(* What is embedded behind the padding.                                    *)
LEMMA ValidEmbedded ==
  ASSUME InputOK, NEW x \in Examples, NEW a \in Nat, NEW c \in Nat, NEW l, l = input.endLen,
         NEW p, NEW g, ValidAt(p, x, g, a, c, l), NEW v, v = [j \in 1..c |-> g + (a + j)],
         NEW E, ScatteredAs(E, p, v, CompressAt(x), c), NEW h, h = a + c + l,
         NEW F, F = [r \in 1..h |-> E[g + r]]
  PROVE  Given(F, x, a, c, l) /\ Shows(E, g, h, F)
<1>1. g \in Nat /\ l \in Nat /\ DOMAIN p = 1..g + h /\ \A i \in 1..g : p[i] = Pad
  BY LenProperties DEF ValidAt, InputOK
<1>2. /\ \A r \in 1..a : p[g + r] = OpenToken(x, r)
      /\ \A j \in 1..l : p[g + (a + c + j)] = <<"/think", j>>
  BY DEF ValidAt
<1>3. /\ \A j \in DOMAIN p : p[j] # Ignored => E[j] = p[j]
      /\ \A j \in 1..c : E[v[j]] = <<"enc", CompressAt(x)[j]>>
  BY DEF ScatteredAs
<1>4. ASSUME NEW r \in 1..a PROVE r \in 1..h /\ E[g + r] = OpenToken(x, r) /\ E[g + r] # Pad
  <2>1. r \in 1..h /\ g + r \in 1..g + h
    BY <1>1
  <2>2. OpenToken(x, r) # Ignored /\ OpenToken(x, r) # Pad
    BY EndTokens
  <2> QED
    BY <1>1, <1>2, <1>3, <2>1, <2>2
<1>5. ASSUME NEW j \in 1..c
      PROVE  a + j \in 1..h /\ E[g + (a + j)] = <<"enc", CompressAt(x)[j]>> /\ E[g + (a + j)] # Pad
  <2>1. a + j \in 1..h
    BY <1>1
  <2>2. E[g + (a + j)] = <<"enc", CompressAt(x)[j]>>
    BY <1>3
  <2>3. <<"enc", CompressAt(x)[j]>> # Pad
    BY DEF Pad
  <2> QED
    BY <2>1, <2>2, <2>3, Zenon
<1>6. ASSUME NEW j \in 1..l
      PROVE  /\ a + c + j \in 1..h /\ E[g + (a + c + j)] = CloseToken(x, j) /\ E[g + (a + c + j)] # Pad
  <2>1. a + c + j \in 1..h /\ g + (a + c + j) \in 1..g + h
    BY <1>1
  <2>2. <<"/think", j>> # Pad /\ <<"/think", j>> # Ignored
    BY DEF Pad, Ignored
  <2>3. E[g + (a + c + j)] = <<"/think", j>>
    BY <1>1, <1>2, <1>3, <2>1, <2>2
  <2>4. CloseToken(x, j) = <<"/think", j>>
    BY <1>1 DEF CloseToken
  <2> QED
    BY <2>1, <2>2, <2>3, <2>4, Zenon
<1>7. ASSUME NEW r \in 1..h PROVE E[g + r] # Pad
  <2>1. Third(a, c, l, r)
    BY <1>1, Thirds
  <2> QED
    BY <1>4, <1>5, <1>6, <2>1 DEF Third
<1>8. \A r \in 1..h : F[r] = E[g + r]
  OBVIOUS
<1>9. Given(F, x, a, c, l)
  BY <1>4, <1>5, <1>6, <1>8 DEF Given
<1>10. Shows(E, g, h, F)
  <2>1. h \in Nat /\ DOMAIN E = 1..g + h
    BY <1>1 DEF ScatteredAs
  <2>2. \A i \in 1..g : E[i] = Pad
    <3>1. \A i \in 1..g : i \in DOMAIN p /\ p[i] = Pad
      BY <1>1, <2>1
    <3> QED
      BY <1>3, <3>1, Specials
  <2> QED
    BY <1>1, <1>7, <2>1, <2>2 DEF Shows
<1> QED
  BY <1>9, <1>10

(* Leaving out the padding leaves that.                                    *)
LEMMA ShownIs ==
  ASSUME NEW g, NEW h, NEW E, NEW F, Shows(E, g, h, F)
  PROVE  Selected(E, {i \in DOMAIN E : E[i] # Pad}) = F
<1> DEFINE S == {i \in DOMAIN E : E[i] # Pad}
           w == [r \in 1..h |-> g + r]
<1>0. /\ g \in Nat /\ h \in Nat /\ DOMAIN E = 1..g + h
      /\ (\A i \in 1..g : E[i] = Pad) /\ (\A r \in 1..h : E[g + r] # Pad)
      /\ F = [r \in 1..h |-> E[g + r]]
  BY DEF Shows
<1>1. \A r \in 1..h : w[r] = g + r
  OBVIOUS
<1>2. ASSUME NEW y \in S PROVE \E r \in 1..h : y = g + r
  <2>1. y \in 1..g + h /\ ~(y <= g)
    BY <1>0
  <2>2. y - g \in 1..h /\ y = g + (y - g)
    BY <1>0, <2>1
  <2> QED
    BY <2>2
<1>3. ASSUME NEW r \in 1..h PROVE g + r \in S
  <2>1. g + r \in 1..g + h
    BY <1>0
  <2> QED
    BY <1>0, <2>1
<1>4. (\A r \in 1..h : g + r \in Int) /\ (\A r, q \in 1..h : r < q => g + r < g + q)
  BY <1>0
<1> HIDE DEF S, w
<1>5. Ranked(w, h, S)
  <2>1. \A r \in 1..h : w[r] \in Int
    BY <1>1, <1>4
  <2>2. \A r, q \in 1..h : r < q => w[r] < w[q]
    BY <1>1, <1>4
  <2>3. \A y : y \in S <=> \E r \in 1..h : y = w[r]
    BY <1>1, <1>2, <1>3
  <2> QED
    BY <2>1, <2>2, <2>3 DEF Ranked
<1>6. Lists(Ascending(S), w, h) /\ Cardinality(S) = h
  BY <1>0, <1>5, ListsRanked, RankedCount
<1>7. Selected(E, S) = [k \in 1..h |-> E[Ascending(S)[k]]]
  BY <1>6, Zenon DEF Selected
<1>8. \A r \in 1..h : Ascending(S)[r] = g + r
  BY <1>1, <1>6 DEF Lists
<1>9. Selected(E, S) = F
  BY <1>0, <1>7, <1>8
<1> QED
  BY <1>9 DEF S

\* What a batch of the validation has in common with stage 1.
ValidatedAs(E, x) ==
  LET shown == Selected(E, {i \in DOMAIN E : E[i] # Pad})
  IN  shown = SubSeq(EmbedsKept(x), 1, Len(shown)) /\ shown[Len(shown)] = EndThink[Len(EndThink)]

(* The function listed of stage 1 is a sequence.                           *)
LEMMA KeptSeq ==
  ASSUME NEW x, NEW a, NEW c, NEW z, NEW e, NEW n, NEW h, KeptRow(x, a, c, z, e, n, h)
  PROVE  \E S : EmbedsKept(x) \in Seq(S) /\ Len(EmbedsKept(x)) = h /\ h \in Nat
<1> DEFINE F == EmbedsKept(x)
           t(m) == Scatter(DecoderIds(x), CotIds(x))[Kept(x)[m]]
           S == {t(m) : m \in 1..h}
<1>1. Len(Kept(x)) = h /\ h \in Nat
  BY DEF KeptRow, KeptIs, RowParts
<1>2. F = [m \in 1..h |-> t(m)]
  BY <1>1, Zenon DEF EmbedsKept
<1>3. \A m \in 1..h : t(m) \in S
  OBVIOUS
<1> HIDE DEF F, t, S
<1>4. F \in Seq(S) /\ Len(F) = h
  <2>1. DOMAIN F = 1..h /\ F = [m \in DOMAIN F |-> F[m]] /\ \A m \in 1..h : F[m] \in S
    BY <1>2, <1>3
  <2> QED
    BY <1>1, <2>1, IsSequence
<1> QED
  BY <1>1, <1>4 DEF F

(* Every row of the validation has that in common.                         *)
LEMMA ValidatedRow ==
  ASSUME input \in Batches, NoneEmpty, NEW b \in Rows, NEW x, x = input.examples[b], x.marker = "none",
         ValidationText(x) = TrainText(x),
         NEW E, E = Scatter(LeftPad(ValidationRows, Pad)[b], RightPad(ValidCotRows, Pad)[b])
  PROVE  ValidatedAs(E, x)
<1> DEFINE p == LeftPad(ValidationRows, Pad)[b]
           q == RightPad(ValidCotRows, Pad)[b]
           shown == Selected(E, {i \in DOMAIN E : E[i] # Pad})
           G == EmbedsKept(x)
<1>1. InputOK /\ EndLen /\ x \in Examples /\ x.cot # 0
  BY Inputs DEF NoneEmpty
<1>2. PICK a, c, z, e, n, h : KeptRow(x, a, c, z, e, n, h)
  BY <1>1, KeptRowIs
<1>3. PICK l, d : l = input.endLen /\ d = a + c + l
  OBVIOUS
<1>4. /\ a = x.prompt + 1 /\ c = Segments(x) /\ h = a + c + z
      /\ a \in Nat /\ c \in Nat /\ z \in Nat /\ Given(G, x, a, c, z)
  BY <1>2 DEF KeptRow, RowParts
<1>5. l \in Nat \ {0} /\ l <= z
  <2>1. z = input.endLen + x.answer + 1 /\ x.answer \in Nat /\ input.endLen \in Nat \ {0}
    BY <1>1, <1>2 DEF KeptRow, Examples, InputOK
  <2> QED
    BY <1>3, <2>1
<1>0. c = ValidCount(x) /\ TextAt(x, Len(ValidationText(x))) = CompressAt(x)
  <2>1. PICK text, m : text = ValidationText(x) /\ m = Len(text)
    OBVIOUS
  <2>2. CompressCount(m, input.k) = Segments(x) /\ TextAt(x, m) = CompressAt(x)
    BY <1>1, <2>1, SameText
  <2> QED
    BY <1>4, <2>1, <2>2, Zenon DEF ValidCount
<1>6. PICK g : ValidAt(p, x, g, a, c, l)
  BY <1>0, <1>3, <1>4, ValidationRowIs
<1>7. PICK v : v = [j \in 1..c |-> g + (a + j)]
  OBVIOUS
<1>8. Ranked(v, c, Where(p, Ignored))
  <2>1. a \in Nat /\ c \in Nat /\ l \in Nat
    BY <1>4, <1>5
  <2> HIDE DEF p
  <2> QED
    BY <1>1, <1>6, <1>7, <2>1, ValidLatents
<1>9. Ranked(CompressAt(x), c, Where(q, Compress))
  <2>1. Ranked(TextAt(x, Len(ValidationText(x))), c, Where(q, Compress))
    BY <1>0, ValidCotPadded
  <2> QED
    BY <1>0, <2>1, Zenon
<1> HIDE DEF p, q, shown, G
<1>10. ScatteredAs(E, p, v, CompressAt(x), c)
  <2>1. E = Scatter(p, q)
    BY Zenon DEF p, q
  <2> QED
    BY <1>4, <1>8, <1>9, <2>1, ScatterIs
<1>11. PICK F : F = [r \in 1..d |-> E[g + r]]
  OBVIOUS
<1>12. Given(F, x, a, c, l) /\ Shows(E, g, d, F)
  <2>1. /\ InputOK /\ x \in Examples /\ a \in Nat /\ c \in Nat /\ l = input.endLen
        /\ ValidAt(p, x, g, a, c, l) /\ v = [j \in 1..c |-> g + (a + j)]
        /\ ScatteredAs(E, p, v, CompressAt(x), c) /\ d = a + c + l /\ F = [r \in 1..d |-> E[g + r]]
    BY <1>1, <1>3, <1>4, <1>6, <1>7, <1>10, <1>11
  <2> QED
    BY <2>1, ValidEmbedded, Zenon
<1>13. d \in Nat
  BY <1>3, <1>4, <1>5
<1>14. shown = F
  <2>1. Selected(E, {i \in DOMAIN E : E[i] # Pad}) = F
    BY <1>12, ShownIs, Zenon
  <2> QED
    BY <2>1 DEF shown
<1>15. DOMAIN F = 1..d /\ F = [r \in DOMAIN F |-> F[r]] /\ Len(F) = d
  <2> DEFINE T == {E[g + r] : r \in 1..d}
  <2>1. DOMAIN F = 1..d /\ F = [r \in DOMAIN F |-> F[r]]
    BY <1>11
  <2>2. \A r \in 1..d : F[r] \in T
    BY <1>11
  <2> HIDE DEF T
  <2> QED
    BY <1>13, <2>1, <2>2, IsSequence
<1>16. PICK S : G \in Seq(S) /\ Len(G) = h
  BY <1>2, KeptSeq DEF G
<1>17. d <= Len(G)
  BY <1>3, <1>4, <1>5, <1>16
<1>18. AgreeUpTo(F, G, d)
  <2>1. /\ a \in Nat /\ c \in Nat /\ l \in Nat /\ z \in Nat /\ l <= z
        /\ Given(F, x, a, c, l) /\ Given(G, x, a, c, z) /\ d = a + c + l
    BY <1>3, <1>4, <1>5, <1>12
  <2> QED
    BY <2>1, GivenSame
<1>19. SubSeq(G, 1, d) = F
  <2>1. \A r \in 1..d : G[r] = F[r]
    BY <1>18 DEF AgreeUpTo
  <2> QED
    BY <1>13, <1>15, <1>16, <1>17, <2>1, PrefixIs
<1>20. F[d] = EndThink[Len(EndThink)]
  <2>1. F[a + c + l] = CloseToken(x, l)
    BY <1>5, <1>12 DEF Given
  <2>2. CloseToken(x, l) = <<"/think", l>>
    BY <1>3, <1>5 DEF CloseToken
  <2>3. Len(EndThink) = l /\ EndThink[l] = <<"/think", l>>
    BY <1>1, <1>3, <1>5, Pieces
  <2> QED
    BY <1>3, <2>1, <2>2, <2>3
<1>21. shown = SubSeq(G, 1, Len(shown)) /\ shown[Len(shown)] = EndThink[Len(EndThink)]
  BY <1>14, <1>15, <1>19, <1>20
<1> QED
  BY <1>21 DEF ValidatedAs, shown, G

(* The embeddings of stage 2 begin with those of stage 1 without spacers.  *)
LEMMA EmbedsAgree ==
  ASSUME input \in Batches, NoneEmpty, batch = Batch2,
         NEW b \in Rows, NEW x, x = input.examples[b], x.marker = "none",
         LabelText(x) = TrainText(x)
  PROVE  SubSeq(Stage2Row(b), 1, Len(Kept(x))) = EmbedsKept(x)
<1> DEFINE row == Stage2Row(b)
           G == EmbedsKept(x)
<1>1. InputOK /\ EndLen /\ x \in Examples /\ x.cot # 0
  BY Inputs DEF NoneEmpty
<1>2. PICK a, c, z, e, n, h : KeptRow(x, a, c, z, e, n, h)
  BY <1>1, KeptRowIs
<1>3. /\ a = x.prompt + 1 /\ c = Segments(x) /\ z = input.endLen + x.answer + 1 /\ h = a + c + z
      /\ Len(Kept(x)) = h /\ a \in Nat /\ c \in Nat /\ z \in Nat /\ Given(G, x, a, c, z)
  BY <1>2 DEF KeptRow, RowParts, KeptIs
<1>4. Given(row, x, a, c, z) /\ row \in Seq(Embeds) /\ h <= Len(row)
  BY <1>3, Stage2Given
<1> HIDE DEF row
<1>5. AgreeUpTo(row, G, h)
  <2>1. /\ a \in Nat /\ c \in Nat /\ z \in Nat /\ z <= z /\ h = a + c + z
        /\ Given(row, x, a, c, z) /\ Given(G, x, a, c, z)
    BY <1>3, <1>4
  <2> HIDE DEF G
  <2> QED
    BY <2>1, GivenSame
<1>6. DOMAIN G = 1..h /\ G = [r \in DOMAIN G |-> G[r]]
  <2> DEFINE t(m) == Scatter(DecoderIds(x), CotIds(x))[Kept(x)[m]]
  <2>1. G = [m \in 1..h |-> t(m)]
    BY <1>3, Zenon DEF EmbedsKept
  <2> HIDE DEF G, t
  <2> QED
    BY <2>1
<1>7. h \in Nat /\ \A r \in 1..h : row[r] = G[r]
  <2>1. h \in Nat
    BY <1>3
  <2> HIDE DEF G
  <2> QED
    BY <1>5, <2>1 DEF AgreeUpTo
<1> HIDE DEF G
<1>8. SubSeq(row, 1, h) = G
  BY <1>4, <1>6, <1>7, PrefixIs
<1> QED
  BY <1>3, <1>8 DEF row, G

\* The labels of stage 1 without the spacers.
LabelsKept(x) == [n \in 1..Len(Kept(x)) |-> Stage1Features(x).labels[Kept(x)[n]]]

(* The labels of stage 2 begin with those of stage 1 without spacers.      *)
LEMMA LabelsAgree ==
  ASSUME input \in Batches, NoneEmpty, batch = Batch2,
         NEW b \in Rows, NEW x, x = input.examples[b], x.marker = "none",
         LabelText(x) = TrainText(x)
  PROVE  SubSeq(batch.labels[b], 1, Len(Kept(x))) = LabelsKept(x)
<1> DEFINE row == RightPad(Label2Rows, Ignored)[b]
           lab == Stage1Features(x).labels
           ids == DecoderIds(x)
           kept == Kept(x)
           G == LabelsKept(x)
<1>1. InputOK /\ EndLen /\ x \in Examples /\ x.cot # 0
  BY Inputs DEF NoneEmpty
<1>2. PICK a, c, z, e, n, h : KeptRow(x, a, c, z, e, n, h)
  BY <1>1, KeptRowIs
<1>3. /\ a = x.prompt + 1 /\ c = Segments(x) /\ z = input.endLen + x.answer + 1 /\ h = a + c + z
      /\ RowParts(ids, x, LatentAt(x), a, c, z, e, n) /\ KeptIs(kept, LatentAt(x), a, c, z, e, h)
      /\ ids \in Seq(AnyToken)
  BY <1>2 DEF KeptRow, Laid
<1>4. Len(kept) = h /\ a \in Nat /\ c \in Nat /\ z \in Nat /\ n \in Nat /\ DOMAIN ids = 1..n
  BY <1>3 DEF RowParts, KeptIs
<1>5. batch.labels[b] = row
  <2>1. batch.labels = RightPad(Field(Features2, "labels"), Ignored)
    BY Zenon DEF Batch2
  <2>2. Field(Features2, "labels") = Label2Rows
    BY DEF Field, Features2, Label2Rows
  <2> QED
    BY <2>1, <2>2, Zenon
<1>6. /\ row \in Seq(AnyToken) /\ h <= Len(row) /\ Labeled(row, x, a, c, z)
  <2>1. c = LabelCount(x)
    BY <1>3, SameLabels
  <2> QED
    BY <1>3, <2>1, Stage2RowIs
<1>7. LabelsOf(lab, ids, a, n)
  <2>1. a = Len(Opening(x))
    BY <1>1, <1>3, CleanEnds DEF OpensAs
  <2>2. n = Len(ids)
    BY <1>3, <1>4, LenProperties
  <2> QED
    BY <1>1, <2>1, <2>2, LabelsAre
<1> HIDE DEF row, lab, ids, kept
<1>8. G = [r \in 1..h |-> lab[kept[r]]]
  <2>1. G = [r \in 1..Len(kept) |-> lab[kept[r]]]
    BY Zenon DEF LabelsKept, lab, kept
  <2> QED
    BY <1>4, <2>1, Zenon
<1> HIDE DEF G
<1>9. Labeled(G, x, a, c, z)
  BY <1>3, <1>7, <1>8, KeptLabeled
<1>10. AgreeUpTo(row, G, h)
  <2>1. /\ a \in Nat /\ c \in Nat /\ z \in Nat /\ h = a + c + z
        /\ Labeled(row, x, a, c, z) /\ Labeled(G, x, a, c, z)
    BY <1>3, <1>4, <1>6, <1>9
  <2> QED
    BY <2>1, LabeledSame, Zenon
<1>11. DOMAIN G = 1..h /\ G = [r \in DOMAIN G |-> G[r]]
  BY <1>8
<1>12. h \in Nat /\ \A r \in 1..h : row[r] = G[r]
  <2>1. h \in Nat
    BY <1>3, <1>4
  <2> QED
    BY <1>10, <2>1 DEF AgreeUpTo
<1>13. SubSeq(row, 1, h) = G
  BY <1>6, <1>11, <1>12, PrefixIs
<1> QED
  BY <1>4, <1>5, <1>13 DEF G, kept

(* The position ids of stage 2 are those of stage 1 without spacers.       *)
LEMMA PositionsAgree ==
  ASSUME input \in Batches, NoneEmpty,
         NEW b \in Rows, NEW x, x = input.examples[b], x.marker = "none", NEW r \in 1..Len(Kept(x))
  PROVE  Stage1Features(x).position_ids[Kept(x)[r]] = r - 1
<1>1. InputOK /\ EndLen /\ x \in Examples /\ x.cot # 0
  BY Inputs DEF NoneEmpty
<1>2. PICK a, c, z, e, n, h : KeptRow(x, a, c, z, e, n, h)
  BY <1>1, KeptRowIs
<1>3. /\ RowParts(DecoderIds(x), x, LatentAt(x), a, c, z, e, n)
      /\ KeptIs(Kept(x), LatentAt(x), a, c, z, e, h)
  BY <1>2 DEF KeptRow
<1>4. Len(Kept(x)) = h
  BY <1>3 DEF KeptIs
<1>5. r \in 1..h
  BY <1>4
<1>6. DualTrack(DecoderIds(x))[Kept(x)[r]] = r - 1
  BY <1>3, <1>5, KeptPositions
<1>7. Stage1Features(x).position_ids = DualTrack(DecoderIds(x))
  BY DEF Stage1Features, DecoderIds
<1> QED
  BY <1>6, <1>7

(* A position without spacer looks in stage 1 at what it does in stage 2.  *)
LEMMA MasksAgree ==
  ASSUME input \in Batches, NoneEmpty, batch = Batch2,
         NEW b \in Rows, NEW x, x = input.examples[b], x.marker = "none",
         LabelText(x) = TrainText(x),
         NEW r \in 1..Len(Kept(x)), NEW t \in 1..Len(Kept(x)), EmbedsKept(x)[r] # Pad
  PROVE  <<Kept(x)[r], Kept(x)[t]>> \in SupervisionMask(DecoderIds(x)) <=> <<r, t>> \in Stage2Mask(b)
<1> DEFINE p == RightPad(Stage2Rows, Pad)[b]
           ids == DecoderIds(x)
           kept == Kept(x)
           v == LatentAt(x)
           E == Scatter(ids, CotIds(x))
           G == EmbedsKept(x)
           M == SupervisionMask(ids)
<1>1. InputOK /\ EndLen /\ x \in Examples /\ x.cot # 0
  BY Inputs DEF NoneEmpty
<1>2. PICK a, c, z, e, n, h : KeptRow(x, a, c, z, e, n, h)
  BY <1>1, KeptRowIs
<1>3. /\ a = x.prompt + 1 /\ c = Segments(x) /\ z = input.endLen + x.answer + 1 /\ h = a + c + z
      /\ RowParts(ids, x, v, a, c, z, e, n) /\ Laid(ids, a, e, n) /\ NoPad(ids, n - 1)
      /\ KeptIs(kept, v, a, c, z, e, h) /\ Ranked(kept, h, NoSpacers(ids))
      /\ ScatteredAs(E, ids, v, CompressAt(x), c) /\ Given(G, x, a, c, z)
  BY <1>2 DEF KeptRow
<1>4. /\ Len(kept) = h /\ a \in Nat /\ c \in Nat /\ z \in Nat \ {0} /\ n \in Nat /\ DOMAIN ids = 1..n
  BY <1>3 DEF RowParts, KeptIs
<1>5. TwoAt(p, x, a, c, z)
  <2>1. c = LabelCount(x)
    BY <1>3, SameLabels
  <2> QED
    BY <1>3, <2>1, Stage2RowIs
<1>6. batch.input_ids[b] = p
  BY Batch2Is
<1>7. G[r] = E[kept[r]]
  BY DEF EmbedsKept
<1>8. r \in 1..h /\ t \in 1..h /\ G[r] # Pad
  BY <1>4
<1> HIDE DEF p, ids, kept, v, E, G, M
<1>9. kept[r] \in 1..n
  BY <1>3, <1>8, KeptPlaces
<1>10. ids[kept[r]] # Pad
  BY <1>3, <1>4, <1>7, <1>8, <1>9, Specials DEF ScatteredAs
<1>11. r = h => CloseToken(x, z) # Pad
  <2>1. G[a + c + z] = CloseToken(x, z)
    <3>1. z \in 1..z
      BY <1>4
    <3>2. \A j \in 1..z : G[a + c + j] = CloseToken(x, j)
      BY <1>3 DEF Given
    <3> QED
      BY <3>1, <3>2, Zenon
  <2> QED
    BY <1>3, <1>8, <2>1
<1>12. <<kept[r], kept[t]>> \in M <=> t <= r
  <2>1. /\ RowParts(ids, x, v, a, c, z, e, n) /\ Laid(ids, a, e, n) /\ NoPad(ids, n - 1)
        /\ KeptIs(kept, v, a, c, z, e, h) /\ Ranked(kept, h, NoSpacers(ids))
        /\ r \in 1..h /\ t \in 1..h /\ ids[kept[r]] # Pad
    BY <1>3, <1>8, <1>10
  <2>2. <<kept[r], kept[t]>> \in SupervisionMask(ids) <=> t <= r
    BY <2>1, KeptMask
  <2> QED
    BY <2>2 DEF M
<1>13. ASSUME t <= r PROVE p[t] # Pad
  <2>1. /\ InputOK /\ x \in Examples /\ a \in Nat /\ c \in Nat /\ z = input.endLen + x.answer + 1
        /\ TwoAt(p, x, a, c, z) /\ h = a + c + z /\ r \in 1..h /\ t \in 1..h /\ t <= r
        /\ (r = h => CloseToken(x, z) # Pad)
    BY <1>1, <1>3, <1>4, <1>5, <1>8, <1>11, <1>13
  <2> QED
    BY <2>1, TwoNoPad
<1>14. r \in DOMAIN p /\ t \in DOMAIN p
  <2>1. DOMAIN p = 1..Len(p) /\ Len(p) \in Nat /\ h <= Len(p)
    BY <1>3, <1>5, LenProperties DEF TwoAt
  <2>2. h \in Nat
    BY <1>3, <1>4
  <2> QED
    BY <1>8, <2>1, <2>2
<1>15. <<r, t>> \in Stage2Mask(b) <=> t <= r /\ p[t] # Pad
  <2>1. Stage2Mask(b) = {y \in (DOMAIN p) \X (DOMAIN p) : y[2] <= y[1] /\ p[y[2]] # Pad}
    BY <1>6, Zenon DEF Stage2Mask
  <2> QED
    BY <1>14, <2>1
<1> QED
  BY <1>12, <1>13, <1>15 DEF M, ids, kept

\* What a row of stage 2 has in common with stage 1.
TrainedAs(b, row, x) ==
  /\ SubSeq(row, 1, Len(Kept(x))) = EmbedsKept(x)
  /\ SubSeq(batch.labels[b], 1, Len(Kept(x))) = LabelsKept(x)
  /\ \A n \in 1..Len(Kept(x)) : Stage1Features(x).position_ids[Kept(x)[n]] = n - 1
  /\ \A n, m \in 1..Len(Kept(x)) :
       EmbedsKept(x)[n] # Pad =>
         (<<Kept(x)[n], Kept(x)[m]>> \in SupervisionMask(DecoderIds(x)) <=> <<n, m>> \in Stage2Mask(b))

(* Every row of stage 2 has that in common.                                *)
LEMMA TrainedRow ==
  ASSUME input \in Batches, NoneEmpty, batch = Batch2,
         NEW b \in Rows, NEW x, x = input.examples[b], x.marker = "none",
         LabelText(x) = TrainText(x)
  PROVE  TrainedAs(b, Stage2Row(b), x)
<1>1. SubSeq(Stage2Row(b), 1, Len(Kept(x))) = EmbedsKept(x)
  BY EmbedsAgree
<1>2. SubSeq(batch.labels[b], 1, Len(Kept(x))) = LabelsKept(x)
  BY LabelsAgree
<1>3. \A n \in 1..Len(Kept(x)) : Stage1Features(x).position_ids[Kept(x)[n]] = n - 1
  BY PositionsAgree
<1>4. ASSUME NEW n \in 1..Len(Kept(x)), NEW m \in 1..Len(Kept(x)), EmbedsKept(x)[n] # Pad
      PROVE  <<Kept(x)[n], Kept(x)[m]>> \in SupervisionMask(DecoderIds(x)) <=> <<n, m>> \in Stage2Mask(b)
  BY <1>4, MasksAgree
<1> QED
  BY <1>1, <1>2, <1>3, <1>4, Zenon DEF TrainedAs

(* Stage 2 and the validation of stage 1 give the model what stage 1 gives *)
(* it with the spacers taken out: the same embeddings, labels, positions   *)
(* and attention, whatever the batch and the segment length, for every     *)
(* example whose texts they read the same, as long as no text that is      *)
(* taken quotes the end marker.                                            *)
THEOREM StagesAreAligned == CleanText => (Spec => []StagesAgree)
<1>1. ASSUME CleanText, IInv, pc \in {"validated", "trained2"}, NEW b \in Rows,
             NEW x, x = input.examples[b]
      PROVE  /\ pc = "validated" /\ ValidationText(x) = TrainText(x) => ValidatedAs(embeds[b], x)
             /\ pc = "trained2" /\ LabelText(x) = TrainText(x) => TrainedAs(b, embeds[b], x)
  <2>1. input \in Batches /\ ~SomeRefused
    BY <1>1 DEF IInv
  <2>2. NoneEmpty /\ x.marker = "none"
    BY <1>1, <2>1, TakenMeans, CleanRows
  <2>3. ASSUME pc = "validated", ValidationText(x) = TrainText(x) PROVE ValidatedAs(embeds[b], x)
    <3>1. batch = BatchV /\ embeds = Scattered(batch)
      BY <1>1, <2>3 DEF IInv
    <3>2. embeds[b] = Scatter(LeftPad(ValidationRows, Pad)[b], RightPad(ValidCotRows, Pad)[b])
      BY <3>1 DEF BatchV, Scattered
    <3> QED
      BY <1>1, <2>1, <2>2, <2>3, <3>2, ValidatedRow
  <2>4. ASSUME pc = "trained2", LabelText(x) = TrainText(x) PROVE TrainedAs(b, embeds[b], x)
    <3>1. batch = Batch2 /\ embeds = [i \in Rows |-> Stage2Row(i)]
      BY <1>1, <2>4 DEF IInv
    <3>2. embeds[b] = Stage2Row(b)
      BY <3>1
    <3>3. TrainedAs(b, Stage2Row(b), x)
      BY <1>1, <2>1, <2>2, <2>4, <3>1, TrainedRow
    <3> QED
      BY <3>2, <3>3, Zenon
  <2> QED
    BY <2>3, <2>4
<1>2. ASSUME CleanText, IInv, pc \in {"validated", "trained2"}, NEW b \in Rows
      PROVE  LET x == input.examples[b]
                 f == Stage1Features(x)
                 kept == Kept(x)
                 len == Len(kept)
                 emb == Scatter(f.input_ids, f.cot_ids)
                 keptEmb == [n \in 1..len |-> emb[kept[n]]]
                 mask == SupervisionMask(f.input_ids)
             IN  /\ pc = "validated" /\ ValidationText(x) = TrainText(x) =>
                      LET shown == Selected(embeds[b], {i \in DOMAIN embeds[b] : embeds[b][i] # Pad})
                      IN  /\ shown = SubSeq(keptEmb, 1, Len(shown))
                          /\ shown[Len(shown)] = EndThink[Len(EndThink)]
                 /\ pc = "trained2" /\ LabelText(x) = TrainText(x) =>
                      /\ SubSeq(embeds[b], 1, len) = keptEmb
                      /\ SubSeq(batch.labels[b], 1, len) = [n \in 1..len |-> f.labels[kept[n]]]
                      /\ \A n \in 1..len : f.position_ids[kept[n]] = n - 1
                      /\ \A n, m \in 1..len :
                           keptEmb[n] # Pad =>
                             (<<kept[n], kept[m]>> \in mask <=> <<n, m>> \in Stage2Mask(b))
  <2> DEFINE x == input.examples[b]
             f == Stage1Features(x)
             kept == Kept(x)
             len == Len(kept)
             emb == Scatter(f.input_ids, f.cot_ids)
             keptEmb == [n \in 1..len |-> emb[kept[n]]]
             mask == SupervisionMask(f.input_ids)
             shown == Selected(embeds[b], {i \in DOMAIN embeds[b] : embeds[b][i] # Pad})
  <2>1. DecoderIds(x) = f.input_ids /\ CotIds(x) = f.cot_ids
    BY DEF DecoderIds, Stage1Features
  <2>2. EmbedsKept(x) = keptEmb /\ LabelsKept(x) = [n \in 1..len |-> f.labels[kept[n]]]
    BY <2>1, Zenon DEF EmbedsKept, LabelsKept
  <2>3. SupervisionMask(DecoderIds(x)) = mask
    BY <2>1, Zenon
  <2>4. /\ pc = "validated" /\ ValidationText(x) = TrainText(x) => ValidatedAs(embeds[b], x)
        /\ pc = "trained2" /\ LabelText(x) = TrainText(x) => TrainedAs(b, embeds[b], x)
    BY <1>1, <1>2
  <2>5. pc = "validated" /\ ValidationText(x) = TrainText(x) =>
          shown = SubSeq(keptEmb, 1, Len(shown)) /\ shown[Len(shown)] = EndThink[Len(EndThink)]
    BY <2>2, <2>4, Zenon DEF ValidatedAs
  <2>6. pc = "trained2" /\ LabelText(x) = TrainText(x) =>
          /\ SubSeq(embeds[b], 1, len) = keptEmb
          /\ SubSeq(batch.labels[b], 1, len) = [n \in 1..len |-> f.labels[kept[n]]]
          /\ \A n \in 1..len : f.position_ids[kept[n]] = n - 1
          /\ \A n, m \in 1..len :
               keptEmb[n] # Pad => (<<kept[n], kept[m]>> \in mask <=> <<n, m>> \in Stage2Mask(b))
    <3> SUFFICES ASSUME pc = "trained2", LabelText(x) = TrainText(x)
                 PROVE  /\ SubSeq(embeds[b], 1, len) = keptEmb
                        /\ SubSeq(batch.labels[b], 1, len) = [n \in 1..len |-> f.labels[kept[n]]]
                        /\ \A n \in 1..len : f.position_ids[kept[n]] = n - 1
                        /\ \A n, m \in 1..len :
                             keptEmb[n] # Pad => (<<kept[n], kept[m]>> \in mask <=> <<n, m>> \in Stage2Mask(b))
      OBVIOUS
    <3>1. /\ SubSeq(embeds[b], 1, len) = EmbedsKept(x)
          /\ SubSeq(batch.labels[b], 1, len) = LabelsKept(x)
          /\ \A n \in 1..len : f.position_ids[kept[n]] = n - 1
          /\ \A n, m \in 1..len :
               EmbedsKept(x)[n] # Pad =>
                 (<<kept[n], kept[m]>> \in SupervisionMask(DecoderIds(x)) <=> <<n, m>> \in Stage2Mask(b))
      BY <2>4, Zenon DEF TrainedAs
    <3> HIDE DEF f, kept, len, emb, keptEmb, mask
    <3> QED
      BY <2>2, <2>3, <3>1, Zenon
  <2> QED
    BY <2>5, <2>6, Zenon
<1>3. CleanText /\ IInv => StagesAgree
  BY <1>2, Zenon DEF StagesAgree
<1> SUFFICES ASSUME CleanText PROVE Spec => []StagesAgree
  OBVIOUS
<1>4. IInv => StagesAgree
  BY <1>3
<1> QED
  BY <1>4, BatchOfItsInput, PTL
=============================================================================
