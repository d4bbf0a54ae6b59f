------------------------- MODULE LatentBatch_proofs -------------------------
(***************************************************************************)
(* The invariants of the latent batch for any requests, vocabulary and     *)
(* number of new tokens.                                                   *)
(***************************************************************************)
EXTENDS LatentBatch, SharedLemmas

ReqType == [received : BOOLEAN, finished : BOOLEAN, output_ids : Seq(Tokens),
            latent_mode : BOOLEAN, topk : [idx : Tokens, soft : BOOLEAN, set : BOOLEAN],
            trace : Seq(BOOLEAN), is_chunked : 0..1]

BatchType == [reqs : Seq(Reqs), rows : Seq([for : Reqs, latent : BOOLEAN]),
              output_ids : Seq(Tokens), is_all_greedy : BOOLEAN]

Types ==
  /\ pc \in {"merge", "pick", "prefill", "decode"}
  /\ waiting \in Seq(Reqs) /\ chunked \in Reqs \cup {NoReq}
  /\ last \in BatchType /\ running \in BatchType
  /\ req \in [Reqs -> ReqType]

(* A request that is not finished may sample one more token; its latent    *)
(* phase lasts until it has sampled the token that ends it.                *)
Whole(q) ==
  /\ Len(q.output_ids) <= MaxNewTokens
  /\ ~q.finished => Len(q.output_ids) < MaxNewTokens
  /\ Len(q.trace) = Len(q.output_ids)
  /\ q.latent_mode <=> \A j \in 1..Len(q.output_ids) : q.output_ids[j] # LatentEnd
  /\ \A i \in 1..Len(q.trace) : q.trace[i] <=> \A j \in 1..i : q.output_ids[j] # LatentEnd

AllWhole == \A r \in Reqs : Whole(req[r]) /\ (req[r].finished => req[r].received)

(* Only the request cut by the prefill about to run yields no token.       *)
Chunks ==
  /\ \A r \in Reqs : req[r].is_chunked = IF pc = "prefill" /\ r = chunked THEN 1 ELSE 0
  /\ pc = "prefill" /\ chunked # NoReq => chunked \in ToSet(last.reqs)
  /\ pc \in {"pick", "decode"} => last.reqs = <<>>

(* OnePlace without counting: no place twice, no two places, and what a    *)
(* request in each place is.                                               *)
Places ==
  /\ IsInjective(waiting) /\ IsInjective(last.reqs) /\ IsInjective(running.reqs)
  /\ \A r \in ToSet(waiting) :
       r # chunked /\ r \notin ToSet(last.reqs) /\ r \notin ToSet(running.reqs)
  /\ \A r \in ToSet(running.reqs) : r # chunked /\ r \notin ToSet(last.reqs)
  /\ \A r \in Reqs :
       /\ r \in ToSet(waiting) \/ r = chunked => req[r].received /\ ~req[r].finished
       /\ r \in ToSet(last.reqs) \/ r \in ToSet(running.reqs) => req[r].received
       /\ req[r].received /\ ~req[r].finished =>
            \/ r \in ToSet(waiting) \/ r = chunked
            \/ r \in ToSet(last.reqs) \/ r \in ToSet(running.reqs)
       /\ pc = "prefill" /\ r \in ToSet(last.reqs) => ~req[r].finished
       /\ pc = "decode" /\ r \in ToSet(running.reqs) => ~req[r].finished

(* Each row is its request's, and a request whose latent phase goes on is  *)
(* in a latent row (the converse fails: LatentModesCurrent).               *)
RowOk(b, i) ==
  /\ b.rows[i].for = b.reqs[i]
  /\ req[b.reqs[i]].latent_mode => b.rows[i].latent

Rows == \A b \in {last, running} :
          b.reqs # <<>> => Len(b.rows) = Len(b.reqs) /\ \A i \in Indices(b) : RowOk(b, i)

(* What the next decode step feeds for a row is the last token sampled.    *)
FedOk(b, i) ==
  LET q == req[b.reqs[i]]
  IN  /\ Len(q.output_ids) > 0 /\ q.topk.set /\ q.topk.idx = Last(q.output_ids)
      /\ b.output_ids[i] = Last(q.output_ids)

Fed ==
  /\ running.reqs # <<>> => /\ Len(running.output_ids) = Len(running.reqs)
                            /\ \A i \in Indices(running) : FedOk(running, i)
  /\ pc = "merge" /\ last.reqs # <<>> =>
       /\ Len(last.output_ids) = Len(last.reqs)
       /\ \A i \in Indices(last) : last.reqs[i] # chunked => FedOk(last, i)

Inv == Types /\ AllWhole /\ Chunks /\ Places /\ Rows /\ Fed
-----------------------------------------------------------------------------
(* What p, a request after its result was processed, keeps of the request  *)
(* q before.                                                               *)
Continues(p, q, top, token) ==
  /\ p \in ReqType /\ Whole(p) /\ p.received = q.received
  /\ p.latent_mode => q.latent_mode
  /\ p.is_chunked = 0
  /\ q.is_chunked = 1 => ~p.finished
  /\ q.is_chunked = 0 =>
       /\ Len(p.output_ids) > 0 /\ Last(p.output_ids) = token /\ p.topk.set
       /\ (q.latent_mode => top = token) => p.topk.idx = token

(* One request: what process_batch_result does to it.                      *)
LEMMA ProcessedMeans ==
  ASSUME NEW q \in ReqType, Whole(q), ~q.finished, NEW top \in Tokens, NEW token \in Tokens
  PROVE  Continues(Processed(q, top, token), q, top, token)
<1> DEFINE p == Processed(q, top, token)
<1> USE DEF Continues
<1>1. CASE q.is_chunked > 0
  <2>1. p = [q EXCEPT !.is_chunked = @ - 1]
    BY <1>1 DEF Processed
  <2>2. q.is_chunked = 1
    BY <1>1 DEF ReqType
  <2> QED
    BY <2>1, <2>2 DEF ReqType, Whole
<1>2. CASE ~(q.is_chunked > 0)
  <2> DEFINE topk == NextTopk(q.latent_mode, top, token)
             n == Len(q.output_ids)
             o == Append(q.output_ids, token)
             t == Append(q.trace, topk.soft)
  <2>1. p = [q EXCEPT !.output_ids = o,
                      !.finished = token = Eos \/ n + 1 >= MaxNewTokens,
                      !.latent_mode = q.latent_mode /\ token # LatentEnd,
                      !.topk = topk,
                      !.trace = t]
    BY <1>2 DEF Processed
  <2>2. /\ topk \in [idx : Tokens, soft : BOOLEAN, set : BOOLEAN] /\ topk.set
        /\ topk.soft = (q.latent_mode /\ token # LatentEnd)
        /\ (q.latent_mode => top = token) => topk.idx = token
    BY DEF NextTopk, Soft, Hard, ReqType
  <2>3. /\ n \in Nat /\ n < MaxNewTokens /\ MaxNewTokens \in Nat /\ Len(q.trace) = n
        /\ q.output_ids \in Seq(Tokens) /\ q.trace \in Seq(BOOLEAN)
    BY MaxNewTokensAssumption DEF ReqType, Whole
  <2> HIDE DEF topk, p
  <2>4. /\ o \in Seq(Tokens) /\ Len(o) = n + 1 /\ o[n + 1] = token
        /\ \A i \in 1..n : o[i] = q.output_ids[i]
    BY <2>3, AppendProperties
  <2>5. /\ t \in Seq(BOOLEAN) /\ Len(t) = n + 1 /\ t[n + 1] = topk.soft
        /\ \A i \in 1..n : t[i] = q.trace[i]
    BY <2>2, <2>3, AppendProperties
  <2> HIDE DEF n, o, t
  <2>6. /\ p \in ReqType /\ p.output_ids = o /\ p.trace = t /\ p.topk = topk
        /\ p.finished = (token = Eos \/ n + 1 >= MaxNewTokens)
        /\ p.latent_mode = (q.latent_mode /\ token # LatentEnd)
        /\ p.received = q.received /\ p.is_chunked = 0
    <3>1. q.is_chunked = 0
      BY <1>2 DEF ReqType
    <3> QED
      BY <2>1, <2>2, <2>4, <2>5, <3>1 DEF ReqType
  <2>7. \A i \in 1..n : t[i] <=> \A j \in 1..i : o[j] # LatentEnd
    <3>1. \A i \in 1..n : q.trace[i] <=> \A j \in 1..i : q.output_ids[j] # LatentEnd
      BY <2>3 DEF Whole
    <3>2. \A i \in 1..n : \A j \in 1..i : j \in 1..n
      BY <2>3
    <3> QED
      BY <2>4, <2>5, <3>1, <3>2
  <2>8. (q.latent_mode /\ token # LatentEnd) <=> \A j \in 1..n+1 : o[j] # LatentEnd
    <3>1. q.latent_mode <=> \A j \in 1..n : q.output_ids[j] # LatentEnd
      BY DEF Whole, n
    <3>2. \A j : j \in 1..n+1 <=> j \in 1..n \/ j = n + 1
      BY <2>3
    <3> QED
      BY <2>4, <3>1, <3>2
  <2>9. \A i \in 1..n+1 : t[i] <=> \A j \in 1..i : o[j] # LatentEnd
    <3>1. ASSUME NEW i \in 1..n+1, i # n + 1 PROVE i \in 1..n
      BY <2>3, <3>1
    <3>2. t[n + 1] <=> \A j \in 1..n+1 : o[j] # LatentEnd
      BY <2>2, <2>5, <2>8
    <3> QED
      BY <2>7, <3>1, <3>2
  <2>10. Whole(p)
    <3>1. Len(o) <= MaxNewTokens /\ (~p.finished => Len(o) < MaxNewTokens) /\ Len(t) = Len(o)
      <4>1. ~p.finished => ~(n + 1 >= MaxNewTokens)
        BY <2>6, Zenon
      <4> QED
        BY <2>3, <2>4, <2>5, <4>1
    <3>2. p.latent_mode <=> \A j \in 1..Len(o) : o[j] # LatentEnd
      BY <2>4, <2>6, <2>8
    <3>3. \A i \in 1..Len(t) : t[i] <=> \A j \in 1..i : o[j] # LatentEnd
      BY <2>5, <2>9
    <3> QED
      BY <2>6, <3>1, <3>2, <3>3 DEF Whole
  <2>11. Len(p.output_ids) > 0 /\ Last(p.output_ids) = token
    BY <2>3, <2>4, <2>6 DEF Last
  <2> QED
    BY <1>2, <2>2, <2>6, <2>10, <2>11 DEF ReqType, p
<1> QED
  BY <1>1, <1>2

(* A step of the batch b processes each of its requests once.              *)
LEMMA RanMeans ==
  ASSUME req \in [Reqs -> ReqType], NEW b \in BatchType, IsInjective(b.reqs),
         NEW top, NEW token, Ran(b, top, token)
  PROVE  /\ req' = [r \in Reqs |-> req'[r]]
         /\ \A i \in Indices(b) : req'[b.reqs[i]] = Processed(req[b.reqs[i]], top[i], token[i])
         /\ \A r \in Reqs : r \notin ToSet(b.reqs) => req'[r] = req[r]
<1> DEFINE at(r) == CHOOSE i \in Indices(b) : b.reqs[i] = r
<1>1. b.reqs \in Seq(Reqs) /\ DOMAIN b.reqs = Indices(b)
  BY DEF BatchType, Indices
<1>2. req' = [r \in Reqs |-> IF \E i \in Indices(b) : b.reqs[i] = r
                             THEN Processed(req[r], top[at(r)], token[at(r)])
                             ELSE req[r]]
  BY DEF Ran
<1>3. ASSUME NEW i \in Indices(b) PROVE at(b.reqs[i]) = i /\ b.reqs[i] \in Reqs
  <2>1. \A j \in Indices(b) : b.reqs[j] = b.reqs[i] => j = i
    BY <1>1 DEF IsInjective
  <2> QED
    BY <1>1, <2>1
<1> HIDE DEF at
<1>4. ASSUME NEW i \in Indices(b)
      PROVE  req'[b.reqs[i]] = Processed(req[b.reqs[i]], top[i], token[i])
  <2> DEFINE r == b.reqs[i]
  <2>1. r \in Reqs /\ at(r) = i
    BY <1>3
  <2>2. req'[r] = Processed(req[r], top[at(r)], token[at(r)])
    BY <1>2, <2>1
  <2> QED
    BY <2>1, <2>2
<1>5. \A r \in Reqs : r \notin ToSet(b.reqs) => req'[r] = req[r]
  BY <1>1, <1>2 DEF ToSet
<1> QED
  BY <1>2, <1>4, <1>5
-----------------------------------------------------------------------------
(* Ascending lists each element of the set once.                           *)
LEMMA AscendingProperties ==
  ASSUME NEW c \in Nat, NEW S \in SUBSET (1..c)
  PROVE  /\ Cardinality(S) \in Nat
         /\ \A k \in 1..Cardinality(S) : Ascending(S)[k] \in S
         /\ Enumerates(Ascending(S), 1..Cardinality(S), S)
<1> DEFINE n == Cardinality(S)
           w == Ascending(S)
<1>1. n \in Nat /\ Ranked(w, n, S)
  <2>1. S \in SUBSET (0..c)
    OBVIOUS
  <2> QED
    BY <2>1, AscendingRanked
<1> HIDE DEF n, w
<1>2. ASSUME NEW k \in 1..n, NEW l \in 1..n, w[k] = w[l] PROVE k = l
  <2>1. (k < l => w[k] < w[l]) /\ (l < k => w[l] < w[k]) /\ w[k] \in Int
    BY <1>1 DEF Ranked
  <2> QED
    BY <1>1, <1>2, <2>1
<1>3. Enumerates(w, 1..n, S)
  BY <1>1, <1>2 DEF Ranked, Enumerates
<1>4. \A k \in 1..n : w[k] \in S
  BY <1>1 DEF Ranked
<1> QED
  BY <1>1, <1>3, <1>4 DEF n, w
-----------------------------------------------------------------------------
(* The listed set, as a sequence without duplicates.                       *)
LEMMA AscendingDistinct ==
  ASSUME NEW c \in Nat, NEW S \in SUBSET (1..c)
  PROVE  /\ Ascending(S) \in Seq(1..c) /\ IsInjective(Ascending(S))
         /\ \A i : i \in ToSet(Ascending(S)) <=> i \in S
<1> DEFINE n == Cardinality(S)
           w == Ascending(S)
<1>1. n \in Nat /\ (\A k \in 1..n : w[k] \in S) /\ Enumerates(w, 1..n, S)
  BY AscendingProperties
<1>2. w = [k \in 1..n |-> CHOOSE i \in S : Cardinality({j \in S : j <= i}) = k]
  BY DEF Ascending
<1>3. DOMAIN w = 1..n /\ w = [k \in 1..n |-> w[k]]
  BY <1>2
<1> HIDE DEF w, n
<1>4. w \in Seq(1..c)
  BY <1>1, <1>3, IsASeq
<1>5. IsInjective(w)
  BY <1>1, <1>3 DEF Enumerates, IsInjective
<1>6. \A i : i \in ToSet(w) <=> i \in S
  BY <1>1, <1>3 DEF Enumerates, ToSet
<1> QED
  BY <1>4, <1>5, <1>6 DEF w

(* What indexing one sequence with a list of indices gives.                *)
LEMMA TakeMeans ==
  ASSUME NEW S, NEW s \in Seq(S), NEW keep \in Seq(1..Len(s))
  PROVE  /\ Take(s, keep) \in Seq(S) /\ Len(Take(s, keep)) = Len(keep)
         /\ \A k \in 1..Len(keep) : keep[k] \in 1..Len(s) /\ Take(s, keep)[k] = s[keep[k]]
<1> DEFINE n == Len(keep)
           t == [k \in 1..n |-> s[keep[k]]]
<1>1. n \in Nat /\ \A k \in 1..n : keep[k] \in 1..Len(s)
  OBVIOUS
<1>2. Take(s, keep) = t
  BY DEF Take
<1> HIDE DEF n
<1>3. \A k \in 1..n : s[keep[k]] \in S
  BY <1>1, ElementOfSeq
<1>4. t \in Seq(S) /\ Len(t) = n
  BY <1>1, <1>3, IsASeq
<1> QED
  BY <1>1, <1>2, <1>4 DEF n

(* From a sequence without duplicates, different indices take different    *)
(* elements.                                                               *)
LEMMA TakeDistinct ==
  ASSUME NEW S, NEW s \in Seq(S), IsInjective(s), NEW keep \in Seq(1..Len(s)), IsInjective(keep)
  PROVE  /\ Take(s, keep) \in Seq(S) /\ IsInjective(Take(s, keep))
         /\ \A r : r \in ToSet(Take(s, keep)) <=> \E i \in ToSet(keep) : r = s[i]
<1> DEFINE n == Len(keep)
           t == Take(s, keep)
<1>1. /\ t \in Seq(S) /\ Len(t) = n /\ n \in Nat
      /\ \A k \in 1..n : keep[k] \in 1..Len(s) /\ t[k] = s[keep[k]]
  BY TakeMeans
<1>2. DOMAIN keep = 1..n /\ DOMAIN s = 1..Len(s)
  OBVIOUS
<1>3. /\ \A i, j \in 1..Len(s) : s[i] = s[j] => i = j
      /\ \A k, l \in 1..n : keep[k] = keep[l] => k = l
  BY <1>2 DEF IsInjective
<1> HIDE DEF n, t
<1>4. DOMAIN t = 1..n
  BY <1>1
<1>5. IsInjective(t)
  <2>1. ASSUME NEW k \in 1..n, NEW l \in 1..n, t[k] = t[l] PROVE k = l
    <3>1. PICK x \in 1..Len(s) : x = keep[k] /\ t[k] = s[x]
      BY <1>1
    <3>2. PICK y \in 1..Len(s) : y = keep[l] /\ t[l] = s[y]
      BY <1>1
    <3>3. x = y
      BY <1>3, <2>1, <3>1, <3>2
    <3> QED
      BY <1>3, <3>1, <3>2, <3>3
  <2> QED
    BY <1>4, <2>1 DEF IsInjective
<1>6. ASSUME NEW r PROVE r \in ToSet(t) <=> \E i \in ToSet(keep) : r = s[i]
  <2>1. r \in ToSet(t) <=> \E k \in 1..n : r = t[k]
    BY <1>4 DEF ToSet
  <2>2. \A i : i \in ToSet(keep) <=> \E k \in 1..n : i = keep[k]
    BY <1>2 DEF ToSet
  <2>3. ASSUME NEW k \in 1..n, r = t[k] PROVE \E i \in ToSet(keep) : r = s[i]
    <3>1. r = s[keep[k]] /\ keep[k] \in ToSet(keep)
      BY <1>1, <2>2, <2>3, Zenon
    <3> QED
      BY <3>1, Zenon
  <2>4. ASSUME NEW i \in ToSet(keep), r = s[i] PROVE \E k \in 1..n : r = t[k]
    <3>1. PICK k \in 1..n : i = keep[k]
      BY <2>2
    <3>2. t[k] = s[keep[k]]
      BY <1>1
    <3> QED
      BY <2>4, <3>1, <3>2, Zenon
  <2> QED
    BY <2>1, <2>3, <2>4, Zenon
<1> QED
  BY <1>1, <1>5, <1>6 DEF t

(* The elements of a list in the opposite order.                           *)
LEMMA ReverseDistinct ==
  ASSUME NEW S, NEW s \in Seq(S), IsInjective(s)
  PROVE  /\ Reverse(s) \in Seq(S) /\ IsInjective(Reverse(s))
         /\ \A r : r \in ToSet(Reverse(s)) <=> r \in ToSet(s)
<1> DEFINE n == Len(s)
           e(i) == s[(n - i) + 1]
           t == Reverse(s)
<1>1. n \in Nat /\ DOMAIN s = 1..n /\ (\A i \in 1..n : s[i] \in S)
  OBVIOUS
<1>2. t = [i \in 1..n |-> e(i)]
  BY DEF Reverse
<1>3. \A i \in 1..n : (n - i) + 1 \in 1..n
  BY <1>1
<1>4. \A i \in 1..n : e(i) \in S
  BY <1>1, <1>3
<1>5. t \in Seq(S) /\ DOMAIN t = 1..n /\ \A i \in 1..n : t[i] = s[(n - i) + 1]
  <2>1. [i \in 1..n |-> e(i)] \in Seq(S)
    <3> HIDE DEF n, e
    <3> QED
      BY <1>1, <1>4, IsASeq
  <2> QED
    BY <1>2, <2>1, Zenon
<1>6. \A i, j \in 1..n : s[i] = s[j] => i = j
  BY <1>1 DEF IsInjective
<1> HIDE DEF n, t, e
<1>7. ASSUME NEW i \in 1..n, NEW j \in 1..n, t[i] = t[j] PROVE i = j
  <2>1. (n - i) + 1 = (n - j) + 1
    BY <1>3, <1>5, <1>6, <1>7
  <2> QED
    BY <1>1, <2>1
<1>8. ASSUME NEW r PROVE r \in ToSet(t) <=> r \in ToSet(s)
  <2>1. (r \in ToSet(t) <=> \E i \in 1..n : r = t[i]) /\ (r \in ToSet(s) <=> \E i \in 1..n : r = s[i])
    BY <1>1, <1>5 DEF ToSet
  <2>2. ASSUME NEW i \in 1..n, r = s[i] PROVE \E j \in 1..n : r = t[j]
    <3>1. (n - i) + 1 \in 1..n /\ (n - ((n - i) + 1)) + 1 = i
      BY <1>1
    <3> QED
      BY <1>5, <2>2, <3>1
  <2> QED
    BY <1>3, <1>5, <2>1, <2>2
<1> QED
  BY <1>5, <1>7, <1>8 DEF t, IsInjective

Full(b) == b.reqs # <<>> => Len(b.rows) = Len(b.reqs) /\ Len(b.output_ids) = Len(b.reqs)

SameRow(f, k, b, i) ==
  f.reqs[k] = b.reqs[i] /\ f.rows[k] = b.rows[i] /\ f.output_ids[k] = b.output_ids[i]

(* A batch's tensors are sequences, indexed by its rows.                   *)
LEMMA BatchLengths ==
  ASSUME NEW b \in BatchType
  PROVE  /\ b.reqs \in Seq(Reqs) /\ Len(b.reqs) \in Nat /\ DOMAIN b.reqs = Indices(b)
         /\ b.rows \in Seq([for : Reqs, latent : BOOLEAN]) /\ b.output_ids \in Seq(Tokens)
         /\ b.reqs = <<>> <=> Len(b.reqs) = 0
         /\ \A r : r \in ToSet(b.reqs) <=> \E i \in Indices(b) : r = b.reqs[i]
         /\ \A i \in Indices(b) : b.reqs[i] \in Reqs
<1>1. b.reqs \in Seq(Reqs) /\ b.rows \in Seq([for : Reqs, latent : BOOLEAN]) /\ b.output_ids \in Seq(Tokens)
  BY DEF BatchType
<1>2. Len(b.reqs) \in Nat /\ DOMAIN b.reqs = Indices(b) /\ (b.reqs = <<>> <=> Len(b.reqs) = 0)
  BY <1>1, EmptySeq DEF Indices
<1> QED
  BY <1>1, <1>2 DEF ToSet

\* f is the batch b without the rows that keep does not list.
Filters(f, b, keep) ==
  /\ f \in BatchType /\ Full(f) /\ IsInjective(f.reqs)
  /\ \A k \in Indices(f) : \E i \in ToSet(keep) : SameRow(f, k, b, i)
  /\ \A r : r \in ToSet(f.reqs) <=> \E i \in ToSet(keep) : r = b.reqs[i]

(* filter_batch keeps whole rows of a batch, each at most once, in any     *)
(* order.                                                                  *)
LEMMA FilterMeans ==
  ASSUME NEW b \in BatchType, Full(b), IsInjective(b.reqs),
         NEW keep \in Seq(Indices(b)), IsInjective(keep),
         NEW f, f = FilterBatch(b, keep)
  PROVE  Filters(f, b, keep)
<1> DEFINE n == Len(keep)
<1>1. /\ n \in Nat /\ DOMAIN keep = 1..n /\ (\A k \in 1..n : keep[k] \in Indices(b))
      /\ \A i : i \in ToSet(keep) <=> \E k \in 1..n : i = keep[k]
  BY DEF ToSet
<1>2. CASE keep = <<>>
  <2>1. f = [b EXCEPT !.reqs = <<>>]
    BY <1>2 DEF FilterBatch
  <2>2. f \in BatchType /\ f.reqs = <<>>
    BY <2>1, EmptySeq DEF BatchType
  <2>3. Indices(f) = {} /\ ToSet(f.reqs) = {} /\ IsInjective(f.reqs) /\ ToSet(keep) = {}
    BY <1>2, <2>2 DEF Indices, ToSet, IsInjective
  <2> QED
    BY <2>2, <2>3 DEF Full, Filters
<1>3. CASE keep # <<>> /\ n = Len(b.reqs)
  <2>1. f = b
    BY <1>3 DEF FilterBatch
  <2>2. Indices(b) = 1..n
    BY <1>3 DEF Indices
  <2> HIDE DEF n
  <2>3. Permutes(keep, n)
    BY <1>1, <2>2 DEF Permutes, IsInjective
  <2>4. Covers(keep, n)
    BY <1>1, <2>3, Pigeonhole
  <2>5. \A i : i \in ToSet(keep) <=> i \in Indices(b)
    BY <1>1, <2>2, <2>4 DEF Covers
  <2>6. \A r : r \in ToSet(b.reqs) <=> \E i \in ToSet(keep) : r = b.reqs[i]
    <3>1. \A r : r \in ToSet(b.reqs) <=> \E i \in Indices(b) : r = b.reqs[i]
      BY BatchLengths
    <3> QED
      BY <2>5, <3>1, Zenon
  <2>7. \A k \in Indices(b) : \E i \in ToSet(keep) : SameRow(b, k, b, i)
    BY <2>5 DEF SameRow
  <2> QED
    BY <2>1, <2>6, <2>7 DEF Filters
<1>4. CASE keep # <<>> /\ n # Len(b.reqs)
  <2>1. b.reqs # <<>> /\ Len(b.rows) = Len(b.reqs) /\ Len(b.output_ids) = Len(b.reqs)
    <3>1. b.reqs # <<>>
      <4>1. 1 \in 1..n
        BY <1>1, <1>4, EmptySeq
      <4>2. keep[1] \in 1..Len(b.reqs)
        BY <1>1, <4>1 DEF Indices
      <4> QED
        BY <4>2, BatchLengths
    <3> QED
      BY <3>1 DEF Full
  <2>2. /\ f.reqs = Take(b.reqs, keep) /\ f.rows = Take(b.rows, keep)
        /\ f.output_ids = Take(b.output_ids, keep) /\ f.is_all_greedy = b.is_all_greedy
        /\ f = [reqs |-> Take(b.reqs, keep), rows |-> Take(b.rows, keep),
                output_ids |-> Take(b.output_ids, keep), is_all_greedy |-> b.is_all_greedy]
    BY <1>4 DEF FilterBatch, BatchType
  <2>3. /\ f.reqs \in Seq(Reqs) /\ Len(f.reqs) = n
        /\ \A k \in 1..n : f.reqs[k] = b.reqs[keep[k]]
    BY <2>2, BatchLengths, TakeMeans DEF Indices
  <2>4. /\ f.rows \in Seq([for : Reqs, latent : BOOLEAN]) /\ Len(f.rows) = n
        /\ \A k \in 1..n : f.rows[k] = b.rows[keep[k]]
    <3>1. keep \in Seq(1..Len(b.rows)) /\ b.rows \in Seq([for : Reqs, latent : BOOLEAN])
      BY <2>1, BatchLengths DEF Indices
    <3> QED
      BY <2>2, <3>1, TakeMeans
  <2>5. /\ f.output_ids \in Seq(Tokens) /\ Len(f.output_ids) = n
        /\ \A k \in 1..n : f.output_ids[k] = b.output_ids[keep[k]]
    <3>1. keep \in Seq(1..Len(b.output_ids)) /\ b.output_ids \in Seq(Tokens)
      BY <2>1, BatchLengths DEF Indices
    <3> QED
      BY <2>2, <3>1, TakeMeans
  <2> HIDE DEF n
  <2>6. f \in BatchType
    BY <2>2, <2>3, <2>4, <2>5 DEF BatchType
  <2>7. Indices(f) = 1..n
    BY <2>3 DEF Indices
  <2>8. \A k \in 1..n : SameRow(f, k, b, keep[k])
    BY <2>3, <2>4, <2>5 DEF SameRow
  <2>9. IsInjective(f.reqs) /\ \A r : r \in ToSet(f.reqs) <=> \E i \in ToSet(keep) : r = b.reqs[i]
    <3>1. b.reqs \in Seq(Reqs) /\ keep \in Seq(1..Len(b.reqs))
      BY BatchLengths DEF Indices
    <3> QED
      BY <2>2, <3>1, TakeDistinct
  <2>10. Full(f)
    BY <2>3, <2>4, <2>5 DEF Full
  <2>11. \A k \in Indices(f) : \E i \in ToSet(keep) : SameRow(f, k, b, i)
    BY <1>1, <2>7, <2>8
  <2> QED
    BY <2>6, <2>9, <2>10, <2>11 DEF Filters
<1> QED
  BY <1>2, <1>3, <1>4

(* The default indices: those of the requests to keep.                     *)
LEMMA UnfinishedMeans ==
  ASSUME NEW b \in BatchType, NEW exclude
  PROVE  /\ Unfinished(b, exclude) \in Seq(Indices(b)) /\ IsInjective(Unfinished(b, exclude))
         /\ \A i : i \in ToSet(Unfinished(b, exclude)) <=>
              i \in Indices(b) /\ ~req[b.reqs[i]].finished /\ b.reqs[i] # exclude
<1> DEFINE keep == {i \in Indices(b) : ~req[b.reqs[i]].finished /\ b.reqs[i] # exclude}
           c == Len(b.reqs)
<1>1. c \in Nat /\ Indices(b) = 1..c /\ keep \in SUBSET (1..c)
  BY BatchLengths DEF Indices
<1>2. \A i : i \in keep <=> i \in Indices(b) /\ ~req[b.reqs[i]].finished /\ b.reqs[i] # exclude
  OBVIOUS
<1>3. Unfinished(b, exclude) = Ascending(keep)
  BY DEF Unfinished
<1> HIDE DEF keep, c
<1>4. /\ Ascending(keep) \in Seq(1..c) /\ IsInjective(Ascending(keep))
      /\ \A i : i \in ToSet(Ascending(keep)) <=> i \in keep
  BY <1>1, AscendingDistinct
<1> QED
  BY <1>1, <1>2, <1>3, <1>4

(* retract_decode's sorted_indices list each row once: no row sorts before *)
(* itself.                                                                 *)
LEMMA SortedMeans ==
  ASSUME req \in [Reqs -> ReqType], NEW b \in BatchType, NEW order \in SortedIndices(b)
  PROVE  /\ order \in Seq(Indices(b)) /\ IsInjective(order) /\ Len(order) = Len(b.reqs)
         /\ \A i : i \in ToSet(order) <=> i \in Indices(b)
<1> DEFINE n == Len(b.reqs)
<1>1. n \in Nat /\ Indices(b) = 1..n
  BY BatchLengths DEF Indices
<1>2. /\ order \in [1..n -> 1..n]
      /\ \A k, l \in 1..n : k < l => SortsBefore(b, order[k], order[l])
  BY <1>1 DEF SortedIndices
<1>3. ASSUME NEW i \in 1..n PROVE ~SortsBefore(b, i, i)
  <2>1. b.reqs[i] \in Reqs
    BY <1>1, BatchLengths
  <2>2. Len(req[b.reqs[i]].output_ids) \in Nat /\ InputLen[b.reqs[i]] \in Nat
    BY <2>1, InputLenAssumption DEF ReqType
  <2> QED
    BY <1>1, <2>2 DEF SortsBefore
<1> HIDE DEF n
<1>4. ASSUME NEW k \in 1..n, NEW l \in 1..n, order[k] = order[l] PROVE k = l
  <2>1. ~(k < l) /\ ~(l < k)
    BY <1>2, <1>3, <1>4
  <2> QED
    BY <1>1, <2>1
<1>5. order \in Seq(1..n) /\ Len(order) = n /\ DOMAIN order = 1..n
  BY <1>1, <1>2, IsASeq
<1>6. Permutes(order, n)
  BY <1>2, <1>4 DEF Permutes
<1>7. Covers(order, n)
  BY <1>1, <1>6, Pigeonhole
<1>8. \A i : i \in ToSet(order) <=> i \in 1..n
  BY <1>2, <1>5, <1>7 DEF Covers, ToSet
<1>9. IsInjective(order)
  BY <1>4, <1>5 DEF IsInjective
<1> QED
  BY <1>1, <1>5, <1>8, <1>9 DEF n

\* A batch of requests that can be merged into another; m is a with b behind it.
Mergeable(b) == b \in BatchType /\ Full(b) /\ IsInjective(b.reqs) /\ b.reqs # <<>>

Merges(m, a, b) ==
  /\ m \in BatchType /\ Full(m) /\ IsInjective(m.reqs)
  /\ \A k \in Indices(m) : \/ \E i \in Indices(a) : SameRow(m, k, a, i)
                           \/ \E i \in Indices(b) : SameRow(m, k, b, i)
  /\ \A r : r \in ToSet(m.reqs) <=> r \in ToSet(a.reqs) \/ r \in ToSet(b.reqs)

(* merge_batch puts the rows of the one batch behind those of the other.   *)
LEMMA MergeMeans ==
  ASSUME NEW a, Mergeable(a), NEW b, Mergeable(b),
         ToSet(a.reqs) \cap ToSet(b.reqs) = {},
         NEW m, m = MergeBatch(a, b)
  PROVE  Merges(m, a, b)
<1>0. /\ a \in BatchType /\ Full(a) /\ IsInjective(a.reqs) /\ a.reqs # <<>>
      /\ b \in BatchType /\ Full(b) /\ IsInjective(b.reqs) /\ b.reqs # <<>>
  BY DEF Mergeable
<1> DEFINE x == Len(a.reqs)
           y == Len(b.reqs)
<1>1. /\ x \in Nat /\ Len(a.rows) = x /\ Len(a.output_ids) = x /\ Indices(a) = 1..x
      /\ y \in Nat /\ Len(b.rows) = y /\ Len(b.output_ids) = y /\ Indices(b) = 1..y
      /\ a.reqs \in Seq(Reqs) /\ b.reqs \in Seq(Reqs)
      /\ a.rows \in Seq([for : Reqs, latent : BOOLEAN])
      /\ b.rows \in Seq([for : Reqs, latent : BOOLEAN])
      /\ a.output_ids \in Seq(Tokens) /\ b.output_ids \in Seq(Tokens)
  BY <1>0, BatchLengths DEF Full, Indices
<1>2. m = [reqs |-> a.reqs \o b.reqs, rows |-> a.rows \o b.rows,
           output_ids |-> a.output_ids \o b.output_ids,
           is_all_greedy |-> a.is_all_greedy \/ b.is_all_greedy]
  BY DEF MergeBatch
<1> HIDE DEF x, y
<1>3. /\ Joins(m.reqs, a.reqs, b.reqs) /\ Joins(m.rows, a.rows, b.rows)
      /\ Joins(m.output_ids, a.output_ids, b.output_ids)
  <2> DEFINE A == a.reqs \o b.reqs
             B == a.rows \o b.rows
             C == a.output_ids \o b.output_ids
  <2>1. m = [reqs |-> A, rows |-> B, output_ids |-> C,
             is_all_greedy |-> a.is_all_greedy \/ b.is_all_greedy]
    BY <1>2
  <2> HIDE DEF A, B, C
  <2>2. m.reqs = A /\ m.rows = B /\ m.output_ids = C
    BY <2>1
  <2> QED
    BY <2>2 DEF A, B, C, Joins
<1>4. /\ m.reqs \in Seq(Reqs) /\ Len(m.reqs) = x + y
      /\ \A k \in 1..x + y : m.reqs[k] = IF k <= x THEN a.reqs[k] ELSE b.reqs[k - x]
  <2> DEFINE R == Reqs
             s == a.reqs
             t == b.reqs
             u == m.reqs
  <2>1. /\ s \in Seq(R) /\ t \in Seq(R) /\ Joins(u, s, t)
        /\ x \in Nat /\ y \in Nat /\ Len(s) = x /\ Len(t) = y
    BY <1>1, <1>3 DEF x, y
  <2> HIDE DEF R, s, t, u
  <2>2. /\ u \in Seq(R) /\ Len(u) = x + y
        /\ \A k \in 1..x + y : u[k] = IF k <= x THEN s[k] ELSE t[k - x]
    BY <2>1, Concatenated
  <2> QED
    BY <2>2 DEF R, s, t, u
<1>5. /\ m.rows \in Seq([for : Reqs, latent : BOOLEAN]) /\ Len(m.rows) = x + y
      /\ \A k \in 1..x + y : m.rows[k] = IF k <= x THEN a.rows[k] ELSE b.rows[k - x]
  <2> DEFINE R == [for : Reqs, latent : BOOLEAN]
             s == a.rows
             t == b.rows
             u == m.rows
  <2>1. /\ s \in Seq(R) /\ t \in Seq(R) /\ Joins(u, s, t)
        /\ x \in Nat /\ y \in Nat /\ Len(s) = x /\ Len(t) = y
    BY <1>1, <1>3 DEF x, y
  <2> HIDE DEF R, s, t, u
  <2>2. /\ u \in Seq(R) /\ Len(u) = x + y
        /\ \A k \in 1..x + y : u[k] = IF k <= x THEN s[k] ELSE t[k - x]
    BY <2>1, Concatenated
  <2> QED
    BY <2>2 DEF R, s, t, u
<1>6. /\ m.output_ids \in Seq(Tokens) /\ Len(m.output_ids) = x + y
      /\ \A k \in 1..x + y : m.output_ids[k] = IF k <= x THEN a.output_ids[k] ELSE b.output_ids[k - x]
  <2> DEFINE R == Tokens
             s == a.output_ids
             t == b.output_ids
             u == m.output_ids
  <2>1. /\ s \in Seq(R) /\ t \in Seq(R) /\ Joins(u, s, t)
        /\ x \in Nat /\ y \in Nat /\ Len(s) = x /\ Len(t) = y
    BY <1>1, <1>3 DEF x, y
  <2> HIDE DEF R, s, t, u
  <2>2. /\ u \in Seq(R) /\ Len(u) = x + y
        /\ \A k \in 1..x + y : u[k] = IF k <= x THEN s[k] ELSE t[k - x]
    BY <2>1, Concatenated
  <2> QED
    BY <2>2 DEF R, s, t, u
<1>7. m \in BatchType
  BY <1>0, <1>2, <1>4, <1>5, <1>6 DEF BatchType
<1>8. Full(m)
  BY <1>4, <1>5, <1>6 DEF Full
<1>9. IsInjective(m.reqs) /\ \A r : r \in ToSet(m.reqs) <=> r \in ToSet(a.reqs) \/ r \in ToSet(b.reqs)
  <2>1. (\A i, j \in DOMAIN a.reqs : a.reqs[i] = a.reqs[j] => i = j)
        /\ (\A i, j \in DOMAIN b.reqs : b.reqs[i] = b.reqs[j] => i = j)
    BY <1>0 DEF IsInjective
  <2>2. /\ \A i, j \in DOMAIN (a.reqs \o b.reqs) : (a.reqs \o b.reqs)[i] = (a.reqs \o b.reqs)[j] => i = j
        /\ \A r : r \in ToSet(a.reqs \o b.reqs) <=> r \in ToSet(a.reqs) \/ r \in ToSet(b.reqs)
    BY <1>1, <2>1, ConcatDistinct
  <2> DEFINE u == a.reqs \o b.reqs
  <2>3. IsInjective(u)
    BY <2>2 DEF IsInjective
  <2> HIDE DEF u
  <2>4. m.reqs = u
    BY <1>3 DEF u, Joins
  <2>5. \A r : r \in ToSet(u) <=> r \in ToSet(a.reqs) \/ r \in ToSet(b.reqs)
    BY <2>2 DEF u
  <2> QED
    BY <2>3, <2>4, <2>5, Zenon
<1>10. ASSUME NEW k \in Indices(m)
       PROVE  \/ \E i \in Indices(a) : SameRow(m, k, a, i)
              \/ \E i \in Indices(b) : SameRow(m, k, b, i)
  <2>1. k \in 1..x + y
    BY <1>4 DEF Indices
  <2>2. CASE k <= x
    <3>1. k \in 1..x /\ SameRow(m, k, a, k)
      BY <2>1, <2>2, <1>1, <1>4, <1>5, <1>6 DEF SameRow
    <3> QED
      BY <1>1, <3>1
  <2>3. CASE ~(k <= x)
    <3>1. k - x \in 1..y
      BY <2>1, <2>3, <1>1
    <3>2. SameRow(m, k, b, k - x)
      BY <2>1, <2>3, <1>4, <1>5, <1>6 DEF SameRow
    <3> QED
      BY <1>1, <3>1, <3>2
  <2> QED
    BY <2>2, <2>3
<1> QED
  BY <1>7, <1>8, <1>9, <1>10 DEF Merges
-----------------------------------------------------------------------------
(* No request has been received.                                           *)
LEMMA InitInv == Init => Inv
<1> SUFFICES ASSUME Init PROVE Inv
  OBVIOUS
<1>1. /\ pc = "merge" /\ waiting = <<>> /\ chunked = NoReq
      /\ last = EmptyBatch /\ running = EmptyBatch /\ req = [r \in Reqs |-> NewReq]
  BY DEF Init
<1>2. EmptyBatch \in BatchType /\ EmptyBatch.reqs = <<>>
  BY EmptySeq DEF EmptyBatch, BatchType
<1>3. /\ NewReq \in ReqType /\ NewReq.is_chunked = 0 /\ ~NewReq.received /\ ~NewReq.finished
      /\ Whole(NewReq)
  <2>1. NewReq \in ReqType /\ NewReq.is_chunked = 0 /\ ~NewReq.received /\ ~NewReq.finished
    BY EmptySeq, TokensAssumption DEF NewReq, NoTopk, ReqType
  <2>2. /\ NewReq.output_ids = <<>> /\ NewReq.trace = <<>> /\ NewReq.latent_mode
        /\ Len(NewReq.output_ids) = 0 /\ Len(NewReq.trace) = 0
    BY DEF NewReq
  <2> QED
    BY <2>1, <2>2, MaxNewTokensAssumption DEF Whole
<1>4. \A r \in Reqs : req[r] = NewReq
  BY <1>1
<1>5. ToSet(<<>>) = {} /\ IsInjective(<<>>)
  BY DEF ToSet, IsInjective
<1> HIDE DEF EmptyBatch, NewReq
<1>6. Types
  <2>1. waiting \in Seq(Reqs)
    BY <1>1, EmptySeq
  <2> QED
    BY <1>1, <1>2, <1>3, <2>1 DEF Types
<1>7. AllWhole
  BY <1>3, <1>4 DEF AllWhole
<1>8. Chunks /\ Rows /\ Fed
  BY <1>1, <1>2, <1>3, <1>4 DEF Chunks, Rows, Fed
<1>9. Places
  BY <1>1, <1>2, <1>3, <1>4, <1>5, ReqsAssumption DEF Places
<1> QED
  BY <1>6, <1>7, <1>8, <1>9 DEF Inv
-----------------------------------------------------------------------------
(* A request arrives.                                                      *)
LEMMA ReceiveInv ==
  ASSUME Inv, NEW r \in Reqs, Receive(r)
  PROVE  Inv'
<1> USE DEF Inv
<1>1. /\ pc = "merge" /\ ~req[r].received
      /\ req' = [req EXCEPT ![r].received = TRUE] /\ waiting' = Append(waiting, r)
      /\ UNCHANGED <<pc, last, running, chunked>>
  BY DEF Receive
<1>2. req' \in [Reqs -> ReqType]
  <2>1. req' = [req EXCEPT ![r] = [req[r] EXCEPT !.received = TRUE]]
    BY <1>1
  <2>2. req \in [Reqs -> ReqType] /\ req[r] \in ReqType
    BY DEF Types
  <2>3. [req[r] EXCEPT !.received = TRUE] \in ReqType
    BY <2>2 DEF ReqType
  <2> QED
    BY <2>1, <2>2, <2>3
<1>3. \A q \in Reqs : /\ req'[q].finished = req[q].finished /\ req'[q].output_ids = req[q].output_ids
                      /\ req'[q].latent_mode = req[q].latent_mode /\ req'[q].topk = req[q].topk
                      /\ req'[q].trace = req[q].trace /\ req'[q].is_chunked = req[q].is_chunked
                      /\ req'[q].received = (q = r \/ req[q].received)
  <2> SUFFICES ASSUME NEW q \in Reqs
               PROVE  /\ req'[q].finished = req[q].finished /\ req'[q].output_ids = req[q].output_ids
                      /\ req'[q].latent_mode = req[q].latent_mode /\ req'[q].topk = req[q].topk
                      /\ req'[q].trace = req[q].trace /\ req'[q].is_chunked = req[q].is_chunked
                      /\ req'[q].received = (q = r \/ req[q].received)
    OBVIOUS
  <2>1. req'[q] = IF q = r THEN [req[r] EXCEPT !.received = TRUE] ELSE req[q]
    BY <1>1 DEF Types
  <2>2. req[q] \in ReqType /\ req[r] \in ReqType
    BY DEF Types
  <2>3. CASE q = r
    <3>1. req'[r] = [req[r] EXCEPT !.received = TRUE]
      BY <2>1, <2>3
    <3> QED
      BY <2>2, <2>3, <3>1 DEF ReqType
  <2>4. CASE q # r
    <3>1. req'[q] = req[q]
      BY <2>1, <2>4
    <3>2. req[q].received = (q = r \/ req[q].received)
      BY <2>2, <2>4 DEF ReqType
    <3> QED
      BY <3>1, <3>2, Zenon
  <2> QED
    BY <2>3, <2>4
<1>4. waiting \in Seq(Reqs) /\ Len(waiting) \in Nat /\ DOMAIN waiting = 1..Len(waiting)
  BY DEF Types
<1>5. /\ waiting' \in Seq(Reqs) /\ Len(waiting') = Len(waiting) + 1
      /\ \A i \in 1..Len(waiting) : waiting'[i] = waiting[i]
      /\ waiting'[Len(waiting) + 1] = r /\ DOMAIN waiting' = 1..Len(waiting) + 1
  BY <1>1, <1>4, AppendProperties
<1>6. \A q : q \in ToSet(waiting') <=> q \in ToSet(waiting) \/ q = r
  BY <1>4, <1>5 DEF ToSet
<1>7. r \notin ToSet(waiting) /\ r # chunked /\ r \notin ToSet(last.reqs) /\ r \notin ToSet(running.reqs)
  BY <1>1 DEF Places
<1>8. IsInjective(waiting')
  <2>1. \A i \in 1..Len(waiting) : waiting[i] # r
    BY <1>4, <1>7 DEF ToSet
  <2>2. \A i, j \in 1..Len(waiting) : waiting[i] = waiting[j] => i = j
    BY <1>4 DEF Places, IsInjective
  <2> QED
    BY <1>4, <1>5, <2>1, <2>2 DEF IsInjective
<1>9. Types'
  BY <1>1, <1>2, <1>5 DEF Types
<1>10. AllWhole'
  <2> SUFFICES ASSUME NEW q \in Reqs
               PROVE  Whole(req'[q]) /\ (req'[q].finished => req'[q].received)
    BY DEF AllWhole
  <2>1. Whole(req[q]) /\ (req[q].finished => req[q].received)
    BY DEF AllWhole
  <2>2. Whole(req'[q])
    BY SMTT(30), <1>3, <2>1 DEF Whole
  <2> QED
    BY <1>3, <2>1, <2>2
<1>11. Chunks'
  BY <1>1, <1>3 DEF Chunks
<1>12. Places'
  <2>1. /\ IsInjective(waiting') /\ IsInjective(last.reqs) /\ IsInjective(running.reqs)
        /\ \A q \in ToSet(waiting') :
             q # chunked /\ q \notin ToSet(last.reqs) /\ q \notin ToSet(running.reqs)
        /\ \A q \in ToSet(running.reqs) : q # chunked /\ q \notin ToSet(last.reqs)
    BY <1>6, <1>7, <1>8 DEF Places
  <2>2. ASSUME NEW q \in Reqs
        PROVE  /\ q \in ToSet(waiting') \/ q = chunked => req'[q].received /\ ~req'[q].finished
               /\ q \in ToSet(last.reqs) \/ q \in ToSet(running.reqs) => req'[q].received
               /\ req'[q].received /\ ~req'[q].finished =>
                    \/ q \in ToSet(waiting') \/ q = chunked
                    \/ q \in ToSet(last.reqs) \/ q \in ToSet(running.reqs)
    <3>1. ~req[r].finished
      BY <1>1 DEF AllWhole
    <3> QED
      BY <1>3, <1>6, <1>7, <3>1 DEF Places
  <2> QED
    BY <1>1, <2>1, <2>2 DEF Places
<1>13. Rows'
  <2>1. \A b \in {last, running} : b.reqs # <<>> =>
          Len(b.rows) = Len(b.reqs) /\ \A i \in Indices(b) : RowOk(b, i) /\ b.reqs[i] \in Reqs
    BY BatchLengths DEF Rows, Types
  <2> QED
    BY <1>1, <1>3, <2>1 DEF Rows, RowOk, Indices
<1>14. Fed'
  <2>1. \A b \in {last, running} : \A i \in Indices(b) : b.reqs[i] \in Reqs
    BY BatchLengths DEF Types
  <2> QED
    BY SMTT(30), <1>1, <1>3, <2>1 DEF Fed, FedOk, Indices
<1> QED
  BY <1>9, <1>10, <1>11, <1>12, <1>13, <1>14

(* The prefilled requests join the running batch.                          *)
LEMMA MergeLastInv ==
  ASSUME Inv, MergeLast
  PROVE  Inv'
<1> USE DEF Inv
<1> DEFINE keep == Unfinished(last, chunked)
           l == FilterBatch(last, keep)
<1>1. /\ pc = "merge" /\ pc' = "pick" /\ last' = EmptyBatch
      /\ UNCHANGED <<waiting, chunked, req>>
      /\ running' = IF l.reqs = <<>> THEN running
                    ELSE IF running.reqs = <<>> THEN l ELSE MergeBatch(running, l)
  BY DEF MergeLast
<1>2. /\ last \in BatchType /\ Full(last) /\ IsInjective(last.reqs)
      /\ running \in BatchType /\ Full(running) /\ IsInjective(running.reqs)
  BY <1>1 DEF Types, Rows, Fed, Full, Places
<1>3. /\ keep \in Seq(Indices(last)) /\ IsInjective(keep)
      /\ \A i \in ToSet(keep) : i \in Indices(last) /\ last.reqs[i] # chunked /\ ~req[last.reqs[i]].finished
      /\ \A i \in Indices(last) : last.reqs[i] # chunked /\ ~req[last.reqs[i]].finished => i \in ToSet(keep)
  BY <1>2, UnfinishedMeans
<1>4. /\ l \in BatchType /\ Full(l) /\ IsInjective(l.reqs)
      /\ \A k \in Indices(l) : \E i \in ToSet(keep) : SameRow(l, k, last, i)
      /\ \A r : r \in ToSet(l.reqs) <=> \E i \in ToSet(keep) : r = last.reqs[i]
  <2>1. l = FilterBatch(last, keep)
    OBVIOUS
  <2> HIDE DEF l, keep
  <2>2. Filters(l, last, keep)
    BY <1>2, <1>3, <2>1, FilterMeans
  <2> QED
    BY <2>2 DEF Filters
<1> HIDE DEF keep, l
<1>5. \A i \in Indices(last) : last.reqs[i] \in ToSet(last.reqs) /\ last.reqs[i] \in Reqs
  BY <1>2, BatchLengths
<1>6. \A r : r \in ToSet(l.reqs) => /\ r \in ToSet(last.reqs) /\ r # chunked
                                    /\ r \notin ToSet(running.reqs) /\ r \notin ToSet(waiting)
  BY <1>3, <1>4, <1>5 DEF Places
<1>7. /\ running' \in BatchType /\ Full(running') /\ IsInjective(running'.reqs)
      /\ \A k \in Indices(running') : \/ \E i \in Indices(running) : SameRow(running', k, running, i)
                                      \/ \E i \in ToSet(keep) : SameRow(running', k, last, i)
      /\ \A r : r \in ToSet(running'.reqs) <=> r \in ToSet(running.reqs) \/ r \in ToSet(l.reqs)
  <2>1. CASE l.reqs = <<>>
    <3>1. running' = running /\ ToSet(l.reqs) = {}
      BY <1>1, <2>1 DEF ToSet
    <3> QED
      BY <1>2, <3>1 DEF SameRow
  <2>2. CASE l.reqs # <<>> /\ running.reqs = <<>>
    <3>1. running' = l /\ ToSet(running.reqs) = {}
      BY <1>1, <2>2 DEF ToSet
    <3> QED
      BY <1>4, <3>1
  <2>3. CASE l.reqs # <<>> /\ running.reqs # <<>>
    <3>1. running' = MergeBatch(running, l)
      BY <1>1, <2>3
    <3>2. ToSet(running.reqs) \cap ToSet(l.reqs) = {}
      BY <1>6
    <3>3. /\ running' \in BatchType /\ Full(running') /\ IsInjective(running'.reqs)
          /\ \A k \in Indices(running') : \/ \E i \in Indices(running) : SameRow(running', k, running, i)
                                          \/ \E i \in Indices(l) : SameRow(running', k, l, i)
          /\ \A r : r \in ToSet(running'.reqs) <=> r \in ToSet(running.reqs) \/ r \in ToSet(l.reqs)
      <4>1. Mergeable(running) /\ Mergeable(l)
        BY <1>2, <1>4, <2>3 DEF Mergeable
      <4>2. Merges(running', running, l)
        BY <3>1, <3>2, <4>1, MergeMeans
      <4> QED
        BY <4>2 DEF Merges
    <3>4. ASSUME NEW k \in Indices(running'), NEW i \in Indices(l), SameRow(running', k, l, i)
          PROVE  \E j \in ToSet(keep) : SameRow(running', k, last, j)
      <4>1. PICK j \in ToSet(keep) : SameRow(l, i, last, j)
        BY <1>4, <3>4
      <4>2. SameRow(running', k, last, j)
        BY <3>4, <4>1 DEF SameRow
      <4> QED
        BY <4>2
    <3> QED
      BY <3>3, <3>4
  <2> QED
    BY <2>1, <2>2, <2>3
<1>8. EmptyBatch \in BatchType /\ EmptyBatch.reqs = <<>> /\ ToSet(EmptyBatch.reqs) = {} /\ IsInjective(EmptyBatch.reqs)
  BY EmptySeq DEF EmptyBatch, BatchType, ToSet, IsInjective
<1> HIDE DEF EmptyBatch
<1>9. \A k \in Indices(running') : running'.reqs[k] \in Reqs
  BY <1>7, BatchLengths
<1>10. Types' /\ AllWhole' /\ Chunks'
  BY <1>1, <1>7, <1>8 DEF Types, AllWhole, Chunks
<1>11. Places'
  <2>1. \A r \in ToSet(running'.reqs) : r # chunked /\ r \notin ToSet(waiting)
    BY <1>6, <1>7 DEF Places
  <2>2. ASSUME NEW r \in Reqs, req[r].received, ~req[r].finished
        PROVE  r \in ToSet(waiting) \/ r = chunked \/ r \in ToSet(running'.reqs)
    <3>1. r \in ToSet(last.reqs) => r = chunked \/ r \in ToSet(l.reqs)
      <4>1. r \in ToSet(last.reqs) => \E i \in Indices(last) : r = last.reqs[i]
        BY ZenonT(30), <1>2, BatchLengths
      <4> QED
        BY <1>3, <1>4, <2>2, <4>1
    <3> QED
      BY <1>7, <2>2, <3>1 DEF Places
  <2>3. \A r \in Reqs : r \in ToSet(running'.reqs) => req[r].received
    BY <1>6, <1>7 DEF Places
  <2> QED
    BY <1>1, <1>7, <1>8, <2>1, <2>2, <2>3 DEF Places
<1>12. ASSUME NEW k \in Indices(running') PROVE RowOk(running, k)' /\ FedOk(running, k)'
  <2>1. ASSUME NEW i \in Indices(running), SameRow(running', k, running, i)
        PROVE  RowOk(running, k)' /\ FedOk(running, k)'
    <3>1. RowOk(running, i) /\ FedOk(running, i)
      BY <2>1, <1>2, BatchLengths DEF Rows, Fed
    <3> QED
      BY <2>1, <3>1, <1>1 DEF RowOk, FedOk, SameRow
  <2>2. ASSUME NEW i \in ToSet(keep), SameRow(running', k, last, i)
        PROVE  RowOk(running, k)' /\ FedOk(running, k)'
    <3>1. RowOk(last, i) /\ FedOk(last, i)
      BY <2>2, <1>1, <1>2, <1>3, BatchLengths DEF Rows, Fed
    <3> QED
      BY <2>2, <3>1, <1>1 DEF RowOk, FedOk, SameRow
  <2> QED
    BY <1>7, <2>1, <2>2
<1>13. Rows' /\ Fed'
  BY <1>1, <1>7, <1>8, <1>12 DEF Rows, Fed, Full
<1> QED
  BY <1>10, <1>11, <1>13

(* The chunked request and the first of the queue are prefilled.           *)
LEMMA PrefillInv ==
  ASSUME Inv, NEW n \in 0..Len(waiting), NEW cut \in BOOLEAN, Prefill(n, cut)
  PROVE  Inv'
<1> USE DEF Inv
<1> DEFINE old == IF chunked = NoReq THEN <<>> ELSE <<chunked>>
           front == SubSeq(waiting, 1, n)
           rest == SubSeq(waiting, n + 1, Len(waiting))
           new == old \o front
           cutReq == IF cut THEN Last(new) ELSE NoReq
<1>1. /\ pc = "pick" /\ pc' = "prefill" /\ new # <<>>
      /\ waiting' = rest /\ chunked' = cutReq /\ last' = NewBatch(new) /\ running' = running
      /\ req' = IF cut THEN [req EXCEPT ![cutReq].is_chunked = @ + 1] ELSE req
  BY DEF Prefill
<1>2. waiting \in Seq(Reqs) /\ chunked \in Reqs \cup {NoReq} /\ req \in [Reqs -> ReqType]
  BY DEF Types
<1>3. /\ front \in Seq(Reqs) /\ rest \in Seq(Reqs)
      /\ \A i, j \in DOMAIN front : front[i] = front[j] => i = j
      /\ IsInjective(rest)
      /\ \A r \in ToSet(front) : r \in ToSet(waiting)
      /\ \A r : r \in ToSet(rest) <=> r \in ToSet(waiting) /\ r \notin ToSet(front)
  <2>1. \A i, j \in DOMAIN waiting : waiting[i] = waiting[j] => i = j
    BY DEF Places, IsInjective
  <2>2. /\ front \in Seq(Reqs) /\ rest \in Seq(Reqs)
        /\ \A i, j \in DOMAIN front : front[i] = front[j] => i = j
        /\ \A i, j \in DOMAIN rest : rest[i] = rest[j] => i = j
        /\ \A r \in ToSet(front) : r \in ToSet(waiting)
        /\ \A r : r \in ToSet(rest) <=> r \in ToSet(waiting) /\ r \notin ToSet(front)
    <3> HIDE DEF front, rest
    <3>1. CutAt(waiting, n, front, rest)
      BY DEF CutAt, front, rest
    <3> QED
      BY <1>2, <2>1, <3>1, SplitDistinct
  <2> HIDE DEF front, rest
  <2> QED
    BY <2>2 DEF IsInjective
<1>4. old \in Seq(Reqs) /\ \A i, j \in DOMAIN old : old[i] = old[j] => i = j
  BY <1>2
<1>5. \A r : r \in ToSet(old) <=> r = chunked /\ chunked # NoReq
  BY DEF ToSet
<1> HIDE DEF old, front, rest
<1>6. /\ new \in Seq(Reqs) /\ IsInjective(new)
      /\ \A r : r \in ToSet(new) <=> r \in ToSet(old) \/ r \in ToSet(front)
  <2>1. ToSet(old) \cap ToSet(front) = {}
    BY <1>3, <1>5 DEF Places
  <2> QED
    BY <1>3, <1>4, <2>1, ConcatDistinct DEF IsInjective
<1> HIDE DEF new
<1>7. Len(new) \in Nat \ {0} /\ DOMAIN new = 1..Len(new) /\ \A i \in 1..Len(new) : new[i] \in Reqs /\ new[i] \in ToSet(new)
  BY <1>1, <1>6, EmptySeq DEF ToSet
<1>8. Last(new) \in Reqs /\ Last(new) \in ToSet(new)
  BY <1>7 DEF Last
<1>9. /\ cut => cutReq \in Reqs /\ cutReq \in ToSet(new)
      /\ ~cut => cutReq = NoReq
      /\ cutReq \in Reqs \cup {NoReq}
  BY <1>8
<1> HIDE DEF cutReq
<1>10. /\ req' \in [Reqs -> ReqType]
       /\ \A r \in Reqs : /\ req'[r].finished = req[r].finished /\ req'[r].output_ids = req[r].output_ids
                          /\ req'[r].latent_mode = req[r].latent_mode /\ req'[r].topk = req[r].topk
                          /\ req'[r].trace = req[r].trace /\ req'[r].received = req[r].received
                          /\ req'[r].is_chunked = IF r = cutReq THEN 1 ELSE 0
  <2>1. \A r \in Reqs : req[r] \in ReqType /\ req[r].is_chunked = 0
    BY <1>1, <1>2 DEF Chunks
  <2>2. CASE cut
    <3>1. req' = [req EXCEPT ![cutReq].is_chunked = @ + 1] /\ cutReq \in Reqs
      BY <1>1, <1>9, <2>2
    <3>2. req' = [req EXCEPT ![cutReq] = [req[cutReq] EXCEPT !.is_chunked = req[cutReq].is_chunked + 1]]
      BY <3>1
    <3>3. [req[cutReq] EXCEPT !.is_chunked = req[cutReq].is_chunked + 1] \in ReqType
      BY SMTT(30), <2>1, <3>1 DEF ReqType
    <3>4. req' \in [Reqs -> ReqType]
      BY <1>2, <3>1, <3>2, <3>3
    <3> QED
      BY <1>2, <2>1, <3>1, <3>2, <3>4 DEF ReqType
  <2>3. CASE ~cut
    BY <1>1, <1>2, <1>9, <2>1, <2>3, ReqsAssumption
  <2> QED
    BY <2>2, <2>3
<1>11. /\ last' \in BatchType /\ last'.reqs = new /\ Len(last'.rows) = Len(new)
       /\ \A i \in 1..Len(new) : last'.rows[i] = [for |-> new[i], latent |-> req[new[i]].latent_mode]
  <2> DEFINE rows == [i \in 1..Len(new) |-> [for |-> new[i], latent |-> req[new[i]].latent_mode]]
  <2>1. \A i \in 1..Len(new) : [for |-> new[i], latent |-> req[new[i]].latent_mode] \in [for : Reqs, latent : BOOLEAN]
    BY <1>2, <1>7 DEF ReqType
  <2>2. rows \in Seq([for : Reqs, latent : BOOLEAN]) /\ Len(rows) = Len(new)
    BY <1>7, <2>1, IsASeq
  <2>3. last' = [reqs |-> new, rows |-> rows, output_ids |-> <<>>, is_all_greedy |-> (ToSet(new) \subseteq Greedy)]
    BY <1>1 DEF NewBatch
  <2>4. \A i \in 1..Len(new) : rows[i] = [for |-> new[i], latent |-> req[new[i]].latent_mode]
    OBVIOUS
  <2>5. <<>> \in Seq(Tokens) /\ (ToSet(new) \subseteq Greedy) \in BOOLEAN
    OBVIOUS
  <2> HIDE DEF rows
  <2> QED
    BY <1>6, <2>2, <2>3, <2>4, <2>5 DEF BatchType
<1>12. Types'
  BY <1>1, <1>3, <1>9, <1>10, <1>11 DEF Types
<1>13. AllWhole'
  <2> SUFFICES ASSUME NEW q \in Reqs
               PROVE  Whole(req'[q]) /\ (req'[q].finished => req'[q].received)
    BY DEF AllWhole
  <2>1. Whole(req[q]) /\ (req[q].finished => req[q].received)
    BY DEF AllWhole
  <2>2. Whole(req'[q])
    BY <1>10, <2>1 DEF Whole
  <2> QED
    BY <1>10, <2>1, <2>2
<1>14. Chunks'
  BY <1>1, <1>9, <1>10, <1>11 DEF Chunks
<1>15. \A r : r \in ToSet(new) <=> (r = chunked /\ r # NoReq) \/ r \in ToSet(front)
  BY <1>5, <1>6
<1>16. Places'
  <2>1. \A r \in ToSet(waiting) : r \in Reqs /\ r # NoReq
    BY <1>2, ReqsAssumption DEF ToSet
  <2>2. cutReq = NoReq \/ cutReq \in ToSet(new)
    BY <1>9
  <2>3. /\ IsInjective(waiting') /\ IsInjective(last'.reqs) /\ IsInjective(running'.reqs)
    BY <1>1, <1>3, <1>6, <1>11 DEF Places
  <2>4. \A r \in ToSet(waiting') :
          r # chunked' /\ r \notin ToSet(last'.reqs) /\ r \notin ToSet(running'.reqs)
    BY <1>1, <1>3, <1>11, <1>15, <2>1, <2>2 DEF Places
  <2>5. \A r \in ToSet(running'.reqs) : r # chunked' /\ r \notin ToSet(last'.reqs)
    <3>1. \A r \in ToSet(running.reqs) : r \in Reqs /\ r # NoReq
      <4>1. running \in BatchType
        BY DEF Types
      <4>2. running.reqs \in Seq(Reqs)
        BY <4>1, BatchLengths
      <4> QED
        BY <4>2, ReqsAssumption DEF ToSet
    <3> QED
      BY <1>1, <1>3, <1>11, <1>15, <2>2, <3>1 DEF Places
  <2>6. ASSUME NEW r \in Reqs
        PROVE  /\ r \in ToSet(waiting') \/ r = chunked' => req[r].received /\ ~req[r].finished
               /\ r \in ToSet(last'.reqs) => req[r].received /\ ~req[r].finished
               /\ r \in ToSet(running'.reqs) => req[r].received
               /\ req[r].received /\ ~req[r].finished =>
                    r \in ToSet(waiting') \/ r \in ToSet(last'.reqs) \/ r \in ToSet(running'.reqs)
    <3>1. last.reqs = <<>> /\ r \notin ToSet(last.reqs) /\ r # NoReq
      BY <1>1, ReqsAssumption DEF Chunks, ToSet
    <3>2. r \in ToSet(last'.reqs) => req[r].received /\ ~req[r].finished
      BY <1>3, <1>11, <1>15 DEF Places
    <3>3. r \in ToSet(waiting') \/ r = chunked' => req[r].received /\ ~req[r].finished
      BY <1>1, <1>3, <1>11, <2>2, <3>1, <3>2 DEF Places
    <3>4. r \in ToSet(running'.reqs) => req[r].received
      BY <1>1 DEF Places
    <3>5. req[r].received /\ ~req[r].finished =>
            r \in ToSet(waiting') \/ r \in ToSet(last'.reqs) \/ r \in ToSet(running'.reqs)
      BY <1>1, <1>3, <1>11, <1>15, <3>1 DEF Places
    <3> QED
      BY <3>2, <3>3, <3>4, <3>5
  <2> QED
    BY <1>1, <1>10, <2>3, <2>4, <2>5, <2>6 DEF Places
<1>17. \A i \in Indices(running) : running.reqs[i] \in Reqs
  BY BatchLengths DEF Types
<1>18. Rows'
  <2>1. \A i \in 1..Len(new) : RowOk(last, i)'
    <3> SUFFICES ASSUME NEW i \in 1..Len(new) PROVE RowOk(last, i)'
      OBVIOUS
    <3>1. last'.reqs[i] = new[i] /\ new[i] \in Reqs
      BY <1>7, <1>11
    <3>2. last'.rows[i] = [for |-> new[i], latent |-> req[new[i]].latent_mode]
      BY <1>11
    <3> QED
      BY <1>10, <3>1, <3>2 DEF RowOk
  <2>2. running.reqs # <<>> => Len(running.rows) = Len(running.reqs) /\ \A i \in Indices(running) : RowOk(running, i)
    BY DEF Rows
  <2>3. \A i \in Indices(running) : RowOk(running, i) => RowOk(running, i)'
    BY <1>1, <1>10, <1>17 DEF RowOk
  <2>4. Indices(last)' = 1..Len(new) /\ Indices(running)' = Indices(running)
    BY <1>1, <1>11 DEF Indices
  <2> QED
    BY <1>1, <1>11, <2>1, <2>2, <2>3, <2>4 DEF Rows
<1>19. Fed'
  <2>1. \A i \in Indices(running) : FedOk(running, i) => FedOk(running, i)'
    BY <1>1, <1>10, <1>17 DEF FedOk
  <2>2. Indices(running)' = Indices(running) /\ pc' # "merge"
    BY <1>1 DEF Indices
  <2> QED
    BY <1>1, <2>1, <2>2 DEF Fed
<1> QED
  BY <1>12, <1>13, <1>14, <1>16, <1>18, <1>19

(* The finished requests leave the running batch, and those retracted go   *)
(* back to the queue.                                                      *)
LEMMA DecodeInv ==
  ASSUME Inv, NEW n, Decode(n)
  PROVE  Inv'
<1> USE DEF Inv
<1> DEFINE keep == Unfinished(running, NoReq)
           live == FilterBatch(running, keep)
           size == Len(live.reqs)
<1>1. /\ pc = "pick" /\ UNCHANGED <<last, chunked, req>>
      /\ size = 0 => running' = live /\ pc' = "merge" /\ waiting' = waiting
      /\ size # 0 =>
           /\ n \in 1..size /\ pc' = "decode"
           /\ \E order \in SortedIndices(live) :
                /\ running' = FilterBatch(live, SubSeq(order, 1, n))
                /\ waiting' = waiting \o Reverse(Take(live.reqs, SubSeq(order, n + 1, size)))
  BY DEF Decode
<1>2. /\ last.reqs = <<>> /\ waiting \in Seq(Reqs) /\ req \in [Reqs -> ReqType]
      /\ running \in BatchType /\ Full(running) /\ IsInjective(running.reqs)
  BY <1>1 DEF Types, Rows, Fed, Full, Places, Chunks
<1>3. /\ keep \in Seq(Indices(running)) /\ IsInjective(keep)
      /\ \A i \in ToSet(keep) : i \in Indices(running)
      /\ \A i \in Indices(running) : i \in ToSet(keep) <=> ~req[running.reqs[i]].finished
  <2>1. \A i \in Indices(running) : running.reqs[i] # NoReq
    BY <1>2, BatchLengths, ReqsAssumption
  <2> QED
    BY <1>2, <2>1, UnfinishedMeans
<1>4. /\ live \in BatchType /\ Full(live) /\ IsInjective(live.reqs)
      /\ \A k \in Indices(live) : \E i \in ToSet(keep) : SameRow(live, k, running, i)
      /\ \A r : r \in ToSet(live.reqs) <=> \E i \in ToSet(keep) : r = running.reqs[i]
  <2>1. live = FilterBatch(running, keep)
    OBVIOUS
  <2> HIDE DEF live, keep
  <2>2. Filters(live, running, keep)
    BY <1>2, <1>3, <2>1, FilterMeans
  <2> QED
    BY <2>2 DEF Filters
<1> HIDE DEF keep, live
<1>5. /\ live.reqs \in Seq(Reqs) /\ DOMAIN live.reqs = Indices(live) /\ Indices(live) = 1..size
      /\ size \in Nat /\ (live.reqs = <<>> <=> size = 0)
      /\ \A r : r \in ToSet(live.reqs) <=> \E i \in Indices(live) : r = live.reqs[i]
  BY <1>4, BatchLengths DEF Indices
<1> HIDE DEF size
<1>6. \A r : r \in ToSet(live.reqs) <=> r \in ToSet(running.reqs) /\ ~req[r].finished
  <2>1. \A r : r \in ToSet(running.reqs) <=> \E i \in Indices(running) : r = running.reqs[i]
    BY <1>2, BatchLengths
  <2> QED
    BY <1>3, <1>4, <2>1
<1>7. PICK kept, popped, back :
        /\ kept \in Seq(Indices(live)) /\ IsInjective(kept)
        /\ popped \in Seq(Indices(live)) /\ IsInjective(popped)
        /\ \A i : i \in Indices(live) <=> i \in ToSet(kept) \/ i \in ToSet(popped)
        /\ \A i : ~(i \in ToSet(kept) /\ i \in ToSet(popped))
        /\ back \in Seq(Reqs) /\ IsInjective(back)
        /\ \A r : r \in ToSet(back) <=> \E i \in ToSet(popped) : r = live.reqs[i]
        /\ Filters(running', live, kept)
        /\ waiting' = waiting \o back
  <2>1. CASE size = 0
    <3> DEFINE e == <<>>
    <3>1. running' = live /\ waiting' = waiting /\ Indices(live) = {}
      BY <1>1, <1>5, <2>1
    <3>2. e \in Seq(Indices(live)) /\ e \in Seq(Reqs) /\ IsInjective(e) /\ ToSet(e) = {}
      BY DEF ToSet, IsInjective
    <3>3. Filters(running', live, e)
      BY <1>4, <1>5, <3>1, <3>2 DEF Filters
    <3>4. waiting' = waiting \o e
      BY <1>2, <3>1
    <3> HIDE DEF e
    <3> QED
      BY <3>1, <3>2, <3>3, <3>4
  <2>2. CASE size # 0
    <3>1. PICK order \in SortedIndices(live) :
            /\ running' = FilterBatch(live, SubSeq(order, 1, n))
            /\ waiting' = waiting \o Reverse(Take(live.reqs, SubSeq(order, n + 1, size)))
      BY <1>1, <2>2
    <3>2. /\ order \in Seq(Indices(live)) /\ IsInjective(order) /\ Len(order) = size
          /\ \A i : i \in ToSet(order) <=> i \in Indices(live)
      BY <1>2, <1>4, SortedMeans DEF size
    <3>3. n \in 0..Len(order) /\ \A i, j \in DOMAIN order : order[i] = order[j] => i = j
      BY <1>1, <1>5, <2>2, <3>2 DEF IsInjective
    <3> DEFINE kept == SubSeq(order, 1, n)
               popped == SubSeq(order, n + 1, size)
               back == Reverse(Take(live.reqs, popped))
    <3>4. CutAt(order, n, kept, popped)
      BY <3>2 DEF CutAt
    <3>5. running' = FilterBatch(live, kept) /\ waiting' = waiting \o back
      BY <3>1
    <3>6. back = Reverse(Take(live.reqs, popped))
      OBVIOUS
    <3> HIDE DEF kept, popped, back
    <3>7. /\ kept \in Seq(Indices(live)) /\ IsInjective(kept)
          /\ popped \in Seq(Indices(live)) /\ IsInjective(popped)
          /\ \A i : i \in ToSet(popped) <=> i \in ToSet(order) /\ i \notin ToSet(kept)
          /\ \A i \in ToSet(kept) : i \in ToSet(order)
      BY <3>2, <3>3, <3>4, SplitDistinct DEF IsInjective
    <3>8. Filters(running', live, kept)
      BY <1>4, <3>5, <3>7, FilterMeans
    <3>9. popped \in Seq(1..Len(live.reqs))
      BY <1>5, <3>7 DEF size
    <3>10. /\ Take(live.reqs, popped) \in Seq(Reqs) /\ IsInjective(Take(live.reqs, popped))
           /\ \A r : r \in ToSet(Take(live.reqs, popped)) <=> \E i \in ToSet(popped) : r = live.reqs[i]
      <4>1. /\ live.reqs \in Seq(Reqs) /\ IsInjective(live.reqs)
            /\ popped \in Seq(1..Len(live.reqs)) /\ IsInjective(popped)
        BY <1>4, <1>5, <3>7, <3>9
      <4> QED
        BY <4>1, TakeDistinct, SMTT(30)
    <3>11. /\ back \in Seq(Reqs) /\ IsInjective(back)
           /\ \A r : r \in ToSet(back) <=> \E i \in ToSet(popped) : r = live.reqs[i]
      <4>1. PICK taken : taken = Take(live.reqs, popped)
        OBVIOUS
      <4>2. /\ taken \in Seq(Reqs) /\ IsInjective(taken) /\ back = Reverse(taken)
            /\ \A r : r \in ToSet(taken) <=> \E i \in ToSet(popped) : r = live.reqs[i]
        BY <3>6, <3>10, <4>1, Zenon
      <4>3. /\ Reverse(taken) \in Seq(Reqs) /\ IsInjective(Reverse(taken))
            /\ \A r : r \in ToSet(Reverse(taken)) <=> r \in ToSet(taken)
        BY <4>2, ReverseDistinct
      <4> QED
        BY <4>2, <4>3, Zenon
    <3>12. \A i : i \in Indices(live) <=> i \in ToSet(kept) \/ i \in ToSet(popped)
      BY <3>2, <3>7
    <3> QED
      BY <3>5, <3>7, <3>8, <3>11, <3>12
  <2> QED
    BY <2>1, <2>2
<1>8. /\ running' \in BatchType /\ Full(running') /\ IsInjective(running'.reqs)
      /\ \A k \in Indices(running') : \E i \in ToSet(kept) : SameRow(running', k, live, i)
      /\ \A r : r \in ToSet(running'.reqs) <=> \E i \in ToSet(kept) : r = live.reqs[i]
  BY <1>7 DEF Filters
<1>9. /\ \A r : r \in ToSet(live.reqs) <=> r \in ToSet(running'.reqs) \/ r \in ToSet(back)
      /\ \A r : ~(r \in ToSet(running'.reqs) /\ r \in ToSet(back))
  <2>1. \A i, j \in Indices(live) : live.reqs[i] = live.reqs[j] => i = j
    BY <1>4, <1>5 DEF IsInjective
  <2>2. ASSUME NEW r PROVE r \in ToSet(live.reqs) <=> r \in ToSet(running'.reqs) \/ r \in ToSet(back)
    <3>1. r \in ToSet(live.reqs) <=> \E i \in Indices(live) : r = live.reqs[i]
      BY <1>5
    <3>2. r \in ToSet(back) <=> \E i \in ToSet(popped) : r = live.reqs[i]
      BY <1>7, Zenon
    <3>3. r \in ToSet(running'.reqs) <=> \E i \in ToSet(kept) : r = live.reqs[i]
      BY <1>8, Zenon
    <3>4. \A i : i \in Indices(live) <=> i \in ToSet(kept) \/ i \in ToSet(popped)
      BY <1>7, Zenon
    <3> QED
      BY <3>1, <3>2, <3>3, <3>4, Zenon
  <2>3. ASSUME NEW r, r \in ToSet(running'.reqs), r \in ToSet(back) PROVE FALSE
    <3>1. PICK i \in ToSet(kept) : r = live.reqs[i]
      BY <1>8, <2>3
    <3>2. PICK j \in ToSet(popped) : r = live.reqs[j]
      BY <1>7, <2>3
    <3>3. i = j
      BY <1>7, <2>1, <3>1, <3>2
    <3> QED
      BY <1>7, <3>3
  <2> QED
    BY <2>2, <2>3
<1>10. /\ waiting' \in Seq(Reqs) /\ IsInjective(waiting')
       /\ \A r : r \in ToSet(waiting') <=> r \in ToSet(waiting) \/ r \in ToSet(back)
  <2>1. ToSet(waiting) \cap ToSet(back) = {}
    BY <1>6, <1>9 DEF Places
  <2>2. /\ \A i, j \in DOMAIN waiting : waiting[i] = waiting[j] => i = j
        /\ \A i, j \in DOMAIN back : back[i] = back[j] => i = j
    BY <1>7 DEF Places, IsInjective
  <2>3. /\ waiting \o back \in Seq(Reqs)
        /\ \A i, j \in DOMAIN (waiting \o back) : (waiting \o back)[i] = (waiting \o back)[j] => i = j
        /\ \A r : r \in ToSet(waiting \o back) <=> r \in ToSet(waiting) \/ r \in ToSet(back)
    BY <1>2, <1>7, <2>1, <2>2, ConcatDistinct
  <2> DEFINE u == waiting \o back
  <2>4. u \in Seq(Reqs) /\ IsInjective(u) /\ \A r : r \in ToSet(u) <=> r \in ToSet(waiting) \/ r \in ToSet(back)
    BY <2>3 DEF IsInjective
  <2>5. waiting' = u
    BY <1>7
  <2> HIDE DEF u
  <2> QED
    BY <2>4, <2>5, Zenon
<1>11. ASSUME NEW k \in Indices(running')
       PROVE  \E i \in Indices(running) : SameRow(running', k, running, i)
  <2>1. PICK j \in Indices(live) : SameRow(running', k, live, j)
    BY <1>7, <1>8
  <2>2. PICK i \in ToSet(keep) : SameRow(live, j, running, i)
    BY <1>4
  <2>3. SameRow(running', k, running, i)
    BY <2>1, <2>2 DEF SameRow
  <2> QED
    BY <1>3, <2>3
<1>12. pc' \in {"merge", "decode"}
  BY <1>1
<1>13. Types' /\ AllWhole' /\ Chunks'
  BY <1>1, <1>2, <1>8, <1>10, <1>12 DEF Types, AllWhole, Chunks
<1>14. Places'
  <2>1. IsInjective(waiting') /\ IsInjective(last'.reqs) /\ IsInjective(running'.reqs)
    BY <1>1, <1>8, <1>10 DEF Places
  <2>2. ToSet(last.reqs) = {}
    BY <1>2 DEF ToSet
  <2>3. \A r \in ToSet(waiting') : r # chunked /\ r \notin ToSet(running'.reqs)
    BY <1>6, <1>9, <1>10 DEF Places
  <2>4. \A r \in ToSet(running'.reqs) : r # chunked /\ ~req[r].finished
    BY <1>6, <1>9 DEF Places
  <2>5. ASSUME NEW r \in Reqs
        PROVE  /\ r \in ToSet(waiting') \/ r = chunked => req[r].received /\ ~req[r].finished
               /\ r \in ToSet(running'.reqs) => req[r].received
               /\ req[r].received /\ ~req[r].finished =>
                    r \in ToSet(waiting') \/ r = chunked \/ r \in ToSet(running'.reqs)
    BY <1>6, <1>9, <1>10, <2>2 DEF Places
  <2> QED
    BY <1>1, <1>12, <2>1, <2>2, <2>3, <2>4, <2>5 DEF Places
<1>15. ASSUME NEW k \in Indices(running') PROVE RowOk(running, k)' /\ FedOk(running, k)'
  <2>1. PICK i \in Indices(running) : SameRow(running', k, running, i)
    BY <1>11
  <2>2. RowOk(running, i) /\ FedOk(running, i)
    BY <2>1, <1>2, BatchLengths DEF Rows, Fed
  <2> QED
    BY <2>1, <2>2, <1>1 DEF RowOk, FedOk, SameRow
<1>16. Rows' /\ Fed'
  BY <1>1, <1>2, <1>8, <1>15 DEF Rows, Fed, Full
<1> QED
  BY <1>13, <1>14, <1>16

(* The batch just scheduled runs, and each of its requests is processed.   *)
LEMMA RunInv ==
  ASSUME Inv, Run
  PROVE  Inv'
<1> USE DEF Inv
<1> DEFINE b == IF pc = "prefill" THEN last ELSE running
<1>1. pc \in {"prefill", "decode"} /\ pc' = "merge" /\ waiting' = waiting /\ chunked' = chunked
  BY DEF Run
<1>2. PICK top \in [Indices(b) -> Tokens], drawn \in [Indices(b) -> Tokens] :
        LET token == [i \in Indices(b) |-> Sampled(b, i, top[i], drawn[i])]
        IN  /\ Ran(b, top, token)
            /\ last' = IF pc = "prefill" THEN [b EXCEPT !.output_ids = token] ELSE last
            /\ running' = IF pc = "decode" THEN [b EXCEPT !.output_ids = token] ELSE running
  BY ZenonT(30) DEF Run
<1> DEFINE token == [i \in Indices(b) |-> Sampled(b, i, top[i], drawn[i])]
           new == [b EXCEPT !.output_ids = token]
<1>3. /\ Ran(b, top, token)
      /\ pc = "prefill" => b = last /\ last' = new /\ running' = running
      /\ pc = "decode" => b = running /\ running' = new /\ last' = last
  BY <1>2
<1>4. /\ last \in BatchType /\ running \in BatchType /\ req \in [Reqs -> ReqType]
      /\ b \in BatchType /\ IsInjective(b.reqs)
  BY <1>1 DEF Types, Places
<1>5. pc = "prefill" \/ pc = "decode"
  BY <1>1
<1> HIDE DEF b
<1>6. b.reqs # <<>> => Len(b.rows) = Len(b.reqs) /\ \A i \in Indices(b) : RowOk(b, i)
  BY <1>3, <1>5 DEF Rows
<1>7. ASSUME NEW i \in Indices(b)
      PROVE  /\ b.reqs[i] \in Reqs /\ b.reqs[i] \in ToSet(b.reqs)
             /\ ~req[b.reqs[i]].finished /\ req[b.reqs[i]].received
             /\ RowOk(b, i) /\ b.rows[i].latent \in BOOLEAN
  <2>1. b.reqs[i] \in Reqs /\ b.reqs[i] \in ToSet(b.reqs) /\ b.reqs # <<>>
    <3>1. b.reqs[i] \in Reqs /\ b.reqs[i] \in ToSet(b.reqs)
      BY <1>4, BatchLengths
    <3>2. b.reqs = <<>> => Indices(b) = {}
      BY <1>4, BatchLengths DEF Indices
    <3> QED
      BY <3>1, <3>2
  <2>2. b.rows \in Seq([for : Reqs, latent : BOOLEAN]) /\ i \in 1..Len(b.rows)
    BY <1>4, <1>6, <2>1, BatchLengths DEF Indices
  <2>3. b.rows[i] \in [for : Reqs, latent : BOOLEAN]
    BY <2>2, ElementOfSeq
  <2>4. ~req[b.reqs[i]].finished /\ req[b.reqs[i]].received
    BY <1>3, <1>5, <2>1 DEF Places
  <2> QED
    BY <1>6, <2>1, <2>3, <2>4
<1>8. ASSUME NEW i \in Indices(b)
      PROVE  /\ top[i] \in Tokens /\ token[i] \in Tokens
             /\ req[b.reqs[i]].latent_mode => top[i] = token[i]
  <2>1. top[i] \in Tokens /\ drawn[i] \in Tokens
    BY <1>2
  <2>2. token[i] = IF b.rows[i].latent \/ b.is_all_greedy THEN top[i] ELSE drawn[i]
    BY DEF Sampled
  <2>3. req[b.reqs[i]].latent_mode => b.rows[i].latent
    BY <1>7 DEF RowOk
  <2> QED
    BY <2>1, <2>2, <2>3
<1>9. token \in Seq(Tokens) /\ Len(token) = Len(b.reqs)
  <2>1. Indices(b) = 1..Len(b.reqs) /\ Len(b.reqs) \in Nat
    BY <1>4, BatchLengths DEF Indices
  <2>2. token = [i \in 1..Len(b.reqs) |-> token[i]]
    BY <2>1
  <2> HIDE DEF token
  <2> QED
    <3> DEFINE m == Len(b.reqs)
               e(i) == token[i]
    <3>1. m \in Nat /\ token = [i \in 1..m |-> e(i)] /\ \A i \in 1..m : e(i) \in Tokens
      BY <1>8, <2>1, <2>2
    <3> HIDE DEF m
    <3>2. [i \in 1..m |-> e(i)] \in Seq(Tokens) /\ Len([i \in 1..m |-> e(i)]) = m
      BY <3>1, IsASeq
    <3> QED
      BY <3>1, <3>2 DEF m
<1> HIDE DEF token
<1>10. new \in BatchType /\ new.reqs = b.reqs /\ new.rows = b.rows /\ new.output_ids = token
  BY <1>4, <1>9 DEF BatchType
<1> HIDE DEF new
<1>11. /\ req' = [r \in Reqs |-> req'[r]]
       /\ \A i \in Indices(b) : req'[b.reqs[i]] = Processed(req[b.reqs[i]], top[i], token[i])
       /\ \A r \in Reqs : r \notin ToSet(b.reqs) => req'[r] = req[r]
  BY <1>3, <1>4, RanMeans
<1>12. \A r \in Reqs : req[r] \in ReqType /\ Whole(req[r]) /\ req[r].is_chunked \in {0, 1}
  BY <1>4 DEF AllWhole, Chunks
<1>13. ASSUME NEW i \in Indices(b), NEW q, q = req[b.reqs[i]], NEW p, p = req'[b.reqs[i]]
       PROVE  /\ p \in ReqType /\ Whole(p) /\ p.received /\ p.is_chunked = 0
              /\ p.latent_mode => q.latent_mode
              /\ q.is_chunked = 1 => ~p.finished
              /\ q.is_chunked = 0 => /\ Len(p.output_ids) > 0 /\ Last(p.output_ids) = token[i]
                                     /\ p.topk.set /\ p.topk.idx = token[i]
  <2>1. q \in ReqType /\ Whole(q) /\ ~q.finished /\ q.received /\ q.is_chunked \in {0, 1}
    BY <1>7, <1>12, <1>13
  <2>2. p = Processed(q, top[i], token[i])
    BY <1>11, <1>13
  <2>3. Continues(p, q, top[i], token[i])
    <3> DEFINE t == top[i]
               k == token[i]
    <3>1. t \in Tokens /\ k \in Tokens /\ p = Processed(q, t, k)
      BY <1>8, <2>2
    <3> HIDE DEF t, k
    <3>2. Continues(p, q, t, k)
      BY <2>1, <3>1, ProcessedMeans
    <3> QED
      BY <3>2 DEF t, k
  <2> QED
    BY <1>8, <1>13, <2>1, <2>3 DEF Continues
<1>14. \A r : r \in ToSet(b.reqs) <=> \E i \in Indices(b) : r = b.reqs[i]
  BY <1>4, BatchLengths
<1>15. ASSUME NEW r \in Reqs
       PROVE  /\ req'[r] \in ReqType /\ Whole(req'[r]) /\ req'[r].received = req[r].received
              /\ req'[r].is_chunked = 0
              /\ req'[r].latent_mode => req[r].latent_mode
              /\ req'[r].finished => req'[r].received
  <2>1. CASE r \in ToSet(b.reqs)
    <3>1. PICK i \in Indices(b) : r = b.reqs[i]
      BY <1>14, <2>1
    <3> QED
      BY <1>7, <1>12, <1>13, <3>1 DEF ReqType
  <2>2. CASE r \notin ToSet(b.reqs)
    <3>1. req[r].is_chunked = 0
      BY <1>3, <1>5, <2>2, ReqsAssumption DEF Chunks
    <3> QED
      BY <1>11, <1>12, <2>2, <3>1 DEF AllWhole
  <2> QED
    BY <2>1, <2>2
<1>16. /\ last' \in BatchType /\ last'.reqs = last.reqs /\ last'.rows = last.rows
       /\ running' \in BatchType /\ running'.reqs = running.reqs /\ running'.rows = running.rows
  BY <1>3, <1>4, <1>5, <1>10
<1>17. Types'
  <2>1. req' \in [Reqs -> ReqType]
    BY <1>11, <1>15
  <2> QED
    BY <1>1, <1>16, <2>1 DEF Types
<1>18. AllWhole' /\ Chunks'
  BY <1>1, <1>15 DEF AllWhole, Chunks
<1>19. ASSUME NEW r \in Reqs, r \in ToSet(waiting) \/ r = chunked
       PROVE  req'[r].received /\ ~req'[r].finished
  <2>1. req[r].received /\ ~req[r].finished
    BY <1>19 DEF Places
  <2>2. CASE r \notin ToSet(b.reqs)
    BY <1>11, <2>1, <2>2
  <2>3. CASE r \in ToSet(b.reqs)
    <3>1. pc = "prefill" /\ r = chunked
      BY <1>3, <1>5, <1>19, <2>3 DEF Places
    <3>2. req[r].is_chunked = 1
      BY <3>1 DEF Chunks
    <3> QED
      BY <1>13, <1>14, <2>3, <3>2
  <2> QED
    BY <2>2, <2>3
<1>20. Places'
  <2>1. ASSUME NEW r \in Reqs, req'[r].received, ~req'[r].finished
        PROVE  \/ r \in ToSet(waiting) \/ r = chunked
               \/ r \in ToSet(last.reqs) \/ r \in ToSet(running.reqs)
    <3>1. CASE r \in ToSet(b.reqs)
      BY <1>3, <1>5, <3>1
    <3>2. CASE r \notin ToSet(b.reqs)
      BY <1>11, <2>1, <3>2 DEF Places
    <3> QED
      BY <3>1, <3>2
  <2>2. \A r \in Reqs : r \in ToSet(last.reqs) \/ r \in ToSet(running.reqs) => req'[r].received
    BY <1>15 DEF Places
  <2>3. pc' # "prefill" /\ pc' # "decode"
    BY <1>1
  <2>4. /\ IsInjective(waiting) /\ IsInjective(last.reqs) /\ IsInjective(running.reqs)
        /\ \A r \in ToSet(waiting) :
             r # chunked /\ r \notin ToSet(last.reqs) /\ r \notin ToSet(running.reqs)
        /\ \A r \in ToSet(running.reqs) : r # chunked /\ r \notin ToSet(last.reqs)
    BY DEF Places
  <2> QED
    BY <1>1, <1>16, <1>19, <2>1, <2>2, <2>3, <2>4 DEF Places
<1>21. Indices(last)' = Indices(last) /\ Indices(running)' = Indices(running)
  BY <1>16 DEF Indices
<1>22. Rows'
  <2>1. ASSUME NEW i \in Indices(last), RowOk(last, i) PROVE RowOk(last, i)'
    <3>1. last.reqs[i] \in Reqs
      BY <1>4, BatchLengths
    <3> QED
      BY <2>1, <3>1, <1>15, <1>16 DEF RowOk
  <2>2. ASSUME NEW i \in Indices(running), RowOk(running, i) PROVE RowOk(running, i)'
    <3>1. running.reqs[i] \in Reqs
      BY <1>4, BatchLengths
    <3> QED
      BY <2>2, <3>1, <1>15, <1>16 DEF RowOk
  <2> QED
    BY <1>16, <1>21, <2>1, <2>2 DEF Rows
<1>23. Fed'
  <2>1. CASE pc = "prefill"
    <3>1. ASSUME NEW i \in Indices(last), last.reqs[i] # chunked PROVE FedOk(last, i)'
      <4>1. last.reqs[i] \in Reqs /\ req[last.reqs[i]].is_chunked = 0
        BY <3>1, <1>4, BatchLengths DEF Chunks
      <4>2. /\ Len(req'[last.reqs[i]].output_ids) > 0
            /\ Last(req'[last.reqs[i]].output_ids) = token[i]
            /\ req'[last.reqs[i]].topk.set /\ req'[last.reqs[i]].topk.idx = token[i]
        BY <1>3, <1>13, <2>1, <4>1
      <4> QED
        BY <1>3, <1>10, <2>1, <4>2 DEF FedOk
    <3>2. ASSUME NEW i \in Indices(running), FedOk(running, i) PROVE FedOk(running, i)'
      <4>1. running.reqs[i] \in ToSet(running.reqs) /\ running.reqs[i] \in Reqs
        BY <1>4, BatchLengths
      <4>2. running.reqs[i] \notin ToSet(b.reqs)
        BY <1>3, <2>1, <4>1 DEF Places
      <4>3. req'[running.reqs[i]] = req[running.reqs[i]] /\ running' = running
        BY <1>3, <1>11, <2>1, <4>1, <4>2
      <4> QED
        BY <3>2, <4>3 DEF FedOk
    <3>3. Len(last'.output_ids) = Len(last.reqs)
      BY <1>3, <1>9, <1>10, <2>1
    <3> QED
      BY <1>3, <1>16, <1>21, <2>1, <3>1, <3>2, <3>3, <1>1 DEF Fed
  <2>2. CASE pc = "decode"
    <3>1. last'.reqs = <<>>
      BY <1>16, <2>2 DEF Chunks
    <3>2. ASSUME NEW i \in Indices(running) PROVE FedOk(running, i)'
      <4>1. running.reqs[i] \in Reqs /\ req[running.reqs[i]].is_chunked = 0
        BY <1>4, <2>2, BatchLengths DEF Chunks
      <4>2. /\ Len(req'[running.reqs[i]].output_ids) > 0
            /\ Last(req'[running.reqs[i]].output_ids) = token[i]
            /\ req'[running.reqs[i]].topk.set /\ req'[running.reqs[i]].topk.idx = token[i]
        BY <1>3, <1>13, <2>2, <4>1
      <4> QED
        BY <1>3, <1>10, <2>2, <4>2 DEF FedOk
    <3>3. Len(running'.output_ids) = Len(running'.reqs)
      BY <1>3, <1>9, <1>10, <2>2
    <3> QED
      BY <1>21, <3>1, <3>2, <3>3 DEF Fed
  <2> QED
    BY <1>5, <2>1, <2>2
<1> QED
  BY <1>17, <1>18, <1>20, <1>22, <1>23
-----------------------------------------------------------------------------
(* Every step keeps the invariant.                                         *)
LEMMA NextInv == Inv /\ [Next]_vars => Inv'
<1> SUFFICES ASSUME Inv, [Next]_vars PROVE Inv'
  OBVIOUS
<1>1. ASSUME NEW r \in Reqs, Receive(r) PROVE Inv'
  BY <1>1, ReceiveInv
<1>2. CASE MergeLast
  BY <1>2, MergeLastInv
<1>3. ASSUME NEW n \in 0..Len(waiting), NEW cut \in BOOLEAN, Prefill(n, cut) PROVE Inv'
  BY <1>3, PrefillInv
<1>4. ASSUME NEW n, Decode(n) PROVE Inv'
  BY <1>4, DecodeInv
<1>5. CASE Run
  BY <1>5, RunInv
<1>6. CASE UNCHANGED vars
  BY SMTT(30), <1>6 DEF vars, Inv, Types, AllWhole, Chunks, Places, Rows, RowOk, Fed, FedOk, Indices
<1> QED
  BY <1>1, <1>2, <1>3, <1>4, <1>5, <1>6 DEF Next

(* Any number of requests filtered, merged, chunked, retracted and sampled *)
(* keep the invariant of the batch.                                        *)
THEOREM BatchInv == Spec => []Inv
<1>1. Init => Inv
  BY InitInv
<1>2. Inv /\ [Next]_vars => Inv'
  BY NextInv
<1> QED
  BY <1>1, <1>2, PTL DEF Spec
-----------------------------------------------------------------------------
(* A sequence without duplicates has a member at one position.             *)
LEMMA OnePosition ==
  ASSUME NEW S, NEW s \in Seq(S), IsInjective(s), NEW r
  PROVE  Cardinality({i \in 1..Len(s) : s[i] = r}) = IF r \in ToSet(s) THEN 1 ELSE 0
<1>1. DOMAIN s = 1..Len(s)
  OBVIOUS
<1>2. CASE r \in ToSet(s)
  <2>1. PICK i \in 1..Len(s) : s[i] = r
    BY <1>1, <1>2 DEF ToSet
  <2>2. {k \in 1..Len(s) : s[k] = r} = {i}
    BY <1>1, <2>1 DEF IsInjective
  <2> QED
    BY <1>2, <2>2, FS_Singleton
<1>3. CASE r \notin ToSet(s)
  <2>1. {k \in 1..Len(s) : s[k] = r} = {}
    BY <1>1, <1>3 DEF ToSet
  <2> QED
    BY <1>3, <2>1, FS_EmptySet
<1> QED
  BY <1>2, <1>3

(* The type invariant.                                                     *)
THEOREM TypeCorrect == Spec => []TypeOK
<1>1. ASSUME Inv PROVE TypeOK
  <2>1. Types /\ AllWhole
    BY <1>1 DEF Inv
  <2>2. \A r \in Reqs : /\ req[r].output_ids \in Seq(Tokens) /\ req[r].trace \in Seq(BOOLEAN)
                        /\ req[r].is_chunked \in 0..1
    BY <2>1 DEF Types, ReqType
  <2>3. \A r \in Reqs : Len(req[r].output_ids) <= MaxNewTokens
    BY <2>1 DEF AllWhole, Whole
  <2>4. \A b \in {last, running} :
          /\ b.reqs \in Seq(Reqs) /\ b.output_ids \in Seq(Tokens)
          /\ b.rows \in Seq([for : Reqs, latent : BOOLEAN])
          /\ b.is_all_greedy \in BOOLEAN
    BY <2>1 DEF Types, BatchType
  <2> QED
    BY <2>1, <2>2, <2>3, <2>4 DEF TypeOK, Types
<1> QED
  BY <1>1, BatchInv, PTL

(* Row i of every per-row tensor of a batch is that of reqs[i].            *)
THEOREM RowsOfTheirRequests == Spec => []RowsAligned
<1>1. ASSUME Inv PROVE RowsAligned
  BY <1>1 DEF Inv, Rows, RowOk, RowsAligned
<1> QED
  BY <1>1, BatchInv, PTL

(* A decode step feeds, for each row, the token its request sampled last.  *)
THEOREM FedTheLastToken == Spec => []InputMatchesToken
<1>1. ASSUME Inv PROVE InputMatchesToken
  <2> SUFFICES ASSUME NEW i \in Indices(running)
               PROVE  FedOk(running, i)
    BY DEF InputMatchesToken, FedOk
  <2>1. running \in BatchType
    BY <1>1 DEF Inv, Types
  <2>2. running.reqs # <<>>
    BY <2>1, BatchLengths DEF Indices
  <2> QED
    BY <1>1, <2>2 DEF Inv, Fed
<1> QED
  BY <1>1, BatchInv, PTL

(* A request's input is a mix of tokens until it sampled LatentEnd, and    *)
(* one token from then on.                                                 *)
THEOREM SoftUntilLatentEnd == Spec => []TraceSoftUntilEnd
<1>1. ASSUME Inv PROVE TraceSoftUntilEnd
  BY <1>1 DEF Inv, AllWhole, Whole, TraceSoftUntilEnd
<1> QED
  BY <1>1, BatchInv, PTL

(* No request is lost or held twice by the queue, the chunked slot and the *)
(* two batches.                                                            *)
THEOREM HeldInOnePlace == Spec => []OnePlace
<1>1. ASSUME Inv PROVE OnePlace
  <2> SUFFICES ASSUME NEW r \in Reqs
               PROVE  LET places == Cardinality({i \in 1..Len(waiting) : waiting[i] = r})
                            + (IF chunked = r THEN 1 ELSE 0)
                            + Cardinality({i \in Indices(last) : last.reqs[i] = r /\ chunked # r})
                            + Cardinality({i \in Indices(running) : running.reqs[i] = r})
                      IN  IF req[r].received /\ ~req[r].finished THEN places = 1 ELSE places <= 1
    BY DEF OnePlace
  <2> DEFINE w == Cardinality({i \in 1..Len(waiting) : waiting[i] = r})
             c == IF chunked = r THEN 1 ELSE 0
             l == Cardinality({i \in Indices(last) : last.reqs[i] = r /\ chunked # r})
             d == Cardinality({i \in Indices(running) : running.reqs[i] = r})
  <2>1. Types /\ Places
    BY <1>1 DEF Inv
  <2>2. /\ waiting \in Seq(Reqs) /\ last.reqs \in Seq(Reqs) /\ running.reqs \in Seq(Reqs)
        /\ IsInjective(waiting) /\ IsInjective(last.reqs) /\ IsInjective(running.reqs)
    BY <2>1 DEF Types, BatchType, Places
  <2>3. w = IF r \in ToSet(waiting) THEN 1 ELSE 0
    BY <2>2, OnePosition
  <2>4. d = IF r \in ToSet(running.reqs) THEN 1 ELSE 0
    BY <2>2, OnePosition DEF Indices
  <2>5. l = IF r \in ToSet(last.reqs) /\ chunked # r THEN 1 ELSE 0
    <3>1. CASE chunked = r
      <4>1. {i \in Indices(last) : last.reqs[i] = r /\ chunked # r} = {}
        BY <3>1
      <4> QED
        BY <3>1, <4>1, FS_EmptySet
    <3>2. CASE chunked # r
      <4>1. {i \in Indices(last) : last.reqs[i] = r /\ chunked # r} = {i \in 1..Len(last.reqs) : last.reqs[i] = r}
        BY <3>2 DEF Indices
      <4>2. Cardinality({i \in 1..Len(last.reqs) : last.reqs[i] = r}) = IF r \in ToSet(last.reqs) THEN 1 ELSE 0
        BY <2>2, OnePosition
      <4> QED
        BY <3>2, <4>1, <4>2
    <3> QED
      BY <3>1, <3>2
  <2> HIDE DEF w, l, d
  <2>6. IF req[r].received /\ ~req[r].finished THEN w + c + l + d = 1 ELSE w + c + l + d <= 1
    BY <2>1, <2>3, <2>4, <2>5 DEF Places
  <2> QED
    BY <2>6 DEF w, l, d
<1> QED
  BY <1>1, BatchInv, PTL
=============================================================================
