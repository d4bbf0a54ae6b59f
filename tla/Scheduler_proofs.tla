-------------------------- MODULE Scheduler_proofs --------------------------
(***************************************************************************)
(* The scheduler's invariants for any requests, memory and limits.         *)
(***************************************************************************)
EXTENDS Scheduler, SharedLemmas, SequenceTheorems, TLAPS

(* The queue holds no request twice.                                       *)
QueuedOnce == \A i, j \in DOMAIN waiting : waiting[i] = waiting[j] => i = j

(* Only requests that have entered and were not dropped from the queue are *)
(* in a batch, and each of them has still a token to sample while it lives.*)
InBatches ==
  /\ \A r \in running \cup last : status[r] \in {"live", "finished"}
  /\ \A r \in Reqs : status[r] \in {"new", "live"} => out[r] < MaxNewTokens[r]

(* What is held fits, and the request whose prompt is being chunked has    *)
(* room for the rest of it, in memory and in the running batch: nothing    *)
(* decodes before its last chunk is computed.                              *)
ChunkFits ==
  /\ Used <= MaxTotal
  /\ chunked # NoReq => /\ Cardinality(Merged) < MaxRunning
                        /\ Reserve(chunked) <= Available

(* NoRequestLost without counting: at least one place, and no two.         *)
Placed ==
  \A r \in Reqs :
    /\ status[r] = "live" =>
         /\ r \in ToSet(waiting) \/ r = chunked \/ r \in last \ {chunked} \/ r \in running
         /\ r \in ToSet(waiting) => r # chunked /\ r \notin last /\ r \notin running
         /\ r \in running => r \notin last /\ r # chunked
    /\ status[r] # "live" => held[r] = 0 /\ r \notin ToSet(waiting) /\ r # chunked

(* Types without the bound on held, which follows from the rest.           *)
Types ==
  /\ waiting \in Seq(Reqs) /\ running \subseteq Reqs /\ last \subseteq Reqs
  /\ chunked \in Reqs \cup {NoReq} /\ full \in BOOLEAN
  /\ \A r \in Reqs : held[r] \in Nat /\ out[r] \in 0..MaxNewTokens[r]
  /\ status \in [Reqs -> {"new", "live", "finished", "aborted"}]
  /\ to_abort \subseteq Reqs /\ peak \in Nat

Inv == /\ Types /\ Placed /\ HoldsItsTokens /\ QueuedOnce /\ InBatches /\ ChunkFits
       /\ MemoryFits
-----------------------------------------------------------------------------
(* The invariant says what the runs check.                                 *)
LEMMA PlacedMeans == Placed => NoRequestLost
BY DEF Placed, NoRequestLost

(* The invariant bounds what is held and what is queued.                   *)
LEMMA InvTypeOK == Inv => TypeOK
<1> SUFFICES ASSUME Inv PROVE TypeOK
  OBVIOUS
<1> USE DEF Inv
<1>1. Cardinality(ToSet(waiting)) = Len(waiting)
  <2>1. waiting \in Seq(Reqs)
    BY DEF Types
  <2>2. Enumerates(waiting, 1..Len(waiting), ToSet(waiting))
    BY <2>1 DEF ToSet, Enumerates, QueuedOnce
  <2> QED
    BY <2>1, <2>2, DistinctCount
<1>2. ASSUME NEW r \in Reqs PROVE held[r] \in 0..InputLen[r] + MaxNewTokens[r]
  <2>1. /\ InputLen[r] \in Nat /\ MaxNewTokens[r] \in Nat
        /\ held[r] \in Nat /\ out[r] \in 0..MaxNewTokens[r]
    BY LengthsAssumption DEF Types
  <2>2. status[r] # "live" => held[r] = 0
    BY DEF Placed
  <2>3. status[r] = "live" => \/ held[r] = 0
                              \/ held[r] = InputLen[r] + out[r] - 1
                              \/ held[r] \in 1..InputLen[r] + out[r] - 1
    BY DEF Placed, HoldsItsTokens
  <2> QED
    BY <2>1, <2>2, <2>3
<1> QED
  BY <1>1, <1>2 DEF Types, TypeOK

(* The invariant implies what the runs check.                              *)
LEMMA InvMeans == Inv => TypeOK /\ NoRequestLost /\ HoldsItsTokens /\ MemoryFits
BY InvTypeOK, PlacedMeans DEF Inv

(* What the adder reserves is a number.                                     *)
LEMMA ClippedType ==
  ASSUME NEW n \in Nat
  PROVE  Clipped(n) \in Nat
BY LimitsAssumption, MinOfTwo DEF Clipped

(* The numbers the tests compare are numbers.                              *)
LEMMA Numbers ==
  ASSUME Types
  PROVE  /\ \A r \in Reqs : /\ InputLen[r] \in Nat \ {0} /\ MaxNewTokens[r] \in Nat \ {0}
                            /\ InputLen[r] + MaxNewTokens[r] <= MaxTotal - 2
                            /\ held[r] \in Nat /\ out[r] \in Nat /\ out[r] <= MaxNewTokens[r]
                            /\ ExtendLen(r) \in Int /\ Clipped(MaxNewTokens[r]) \in Nat
                            /\ Reserve(r) = ExtendLen(r) + Clipped(MaxNewTokens[r])
         /\ MaxTotal \in Nat /\ ChunkSize \in Nat \ {0} /\ MaxRunning \in Nat \ {0}
         /\ RetractSteps \in Nat \ {0}
         /\ IsFiniteSet(Reqs) /\ NoReq \notin Reqs
         /\ Used \in Nat /\ Available = MaxTotal - Used
<1>1. Used \in Nat
  BY LimitsAssumption, SumType DEF Used, HeldBy, Types
<1>2. ASSUME NEW r \in Reqs
      PROVE /\ InputLen[r] \in Nat \ {0} /\ MaxNewTokens[r] \in Nat \ {0}
            /\ InputLen[r] + MaxNewTokens[r] <= MaxTotal - 2
            /\ held[r] \in Nat /\ out[r] \in Nat /\ out[r] <= MaxNewTokens[r]
            /\ ExtendLen(r) \in Int /\ Clipped(MaxNewTokens[r]) \in Nat
                            /\ Reserve(r) = ExtendLen(r) + Clipped(MaxNewTokens[r])
  <2>1. MaxNewTokens[r] \in Nat
    BY LengthsAssumption
  <2>2. Clipped(MaxNewTokens[r]) \in Nat
    BY <2>1, ClippedType, Zenon
  <2> QED
    BY <2>2, LengthsAssumption DEF Types, ExtendLen, Reserve
<1> QED
  BY <1>1, <1>2, LimitsAssumption DEF Available

(* __init__: nothing is held, queued or running.                           *)
LEMMA InitInv == Init => Inv
<1> SUFFICES ASSUME Init PROVE Inv
  OBVIOUS
<1>1. Types
  <2>1. \A r \in Reqs : held[r] = 0 /\ out[r] = 0 /\ MaxNewTokens[r] \in Nat
    BY LengthsAssumption DEF Init
  <2>2. waiting \in Seq(Reqs) /\ full \in BOOLEAN
    BY EmptySeq DEF Init
  <2> QED
    BY <2>1, <2>2 DEF Init, Types
<1>2. Used = 0
  BY SumZero DEF Init, Used, HeldBy
<1> QED
  BY <1>1, <1>2, LimitsAssumption, LengthsAssumption
     DEF Init, Inv, Placed, HoldsItsTokens, QueuedOnce, InBatches, ChunkFits, MemoryFits, ToSet
-----------------------------------------------------------------------------
(* A request arrives.                                                      *)
LEMMA ReceiveInv ==
  ASSUME Inv, NEW r \in Reqs, Receive(r)
  PROVE  Inv'
<1> USE DEF Inv, Receive
<1>1. waiting \in Seq(Reqs) /\ Len(waiting) \in Nat /\ DOMAIN waiting = 1..Len(waiting)
  BY DEF Types
<1>2. /\ waiting' \in Seq(Reqs) /\ Len(waiting') = Len(waiting) + 1
      /\ \A i \in 1..Len(waiting) : waiting'[i] = waiting[i]
      /\ waiting'[Len(waiting) + 1] = r /\ DOMAIN waiting' = 1..Len(waiting) + 1
  BY <1>1, AppendProperties
<1>3. r \notin ToSet(waiting) /\ r \notin running \cup last /\ r # chunked /\ held[r] = 0
  BY DEF Placed, InBatches
<1>4. \A q : q \in ToSet(waiting)' <=> q \in ToSet(waiting) \/ q = r
  BY <1>1, <1>2 DEF ToSet
<1>5. Types'
  BY <1>2 DEF Types
<1>6. Placed'
  BY <1>3, <1>4 DEF Placed, Types
<1>7. HoldsItsTokens'
  BY <1>3, <1>4 DEF HoldsItsTokens, Types
<1>8. QueuedOnce'
  <2>1. \A i \in 1..Len(waiting) : waiting[i] # r
    BY <1>1, <1>3 DEF ToSet
  <2> QED
    BY <1>1, <1>2, <2>1 DEF QueuedOnce
<1>9. InBatches'
  BY <1>3, Numbers DEF InBatches, Types, Placed
<1>10. ChunkFits' /\ MemoryFits'
  <2>1. Merged' = Merged
    BY <1>3 DEF Merged, Unfinished, Types
  <2>2. Used' = Used /\ Available' = Available
    BY DEF Used, HeldBy, Available
  <2>3. chunked # NoReq => Reserve(chunked)' = Reserve(chunked)
    BY DEF Reserve, ExtendLen
  <2> QED
    BY <2>1, <2>2, <2>3 DEF ChunkFits, MemoryFits
<1> QED
  BY <1>5, <1>6, <1>7, <1>8, <1>9, <1>10
-----------------------------------------------------------------------------
(* A client gives a request up.                                            *)
LEMMA AbortInv ==
  ASSUME Inv, NEW r \in Aborts, Abort(r)
  PROVE  Inv'
<1> USE DEF Inv
<1>0. r \in Reqs
  BY LimitsAssumption
<1>1. CASE r \in ToSet(waiting)
  <2>1. PICK i \in DOMAIN waiting : waiting[i] = r /\ waiting' = RemoveAt(waiting, i)
    BY <1>1 DEF Abort
  <2>2. /\ waiting' \in Seq(Reqs)
        /\ \A j, k \in DOMAIN waiting' : waiting'[j] = waiting'[k] => j = k
        /\ \A q : q \in ToSet(waiting') <=> q \in ToSet(waiting) /\ q # r
    BY <2>1, RemoveAtProperties DEF Types, QueuedOnce
  <2>3. /\ status' = [status EXCEPT ![r] = "aborted"]
        /\ UNCHANGED <<running, full, last, chunked, held, out, to_abort, peak>>
    BY <1>1 DEF Abort
  <2>4. \A q : q \in ToSet(waiting)' <=> q \in ToSet(waiting) /\ q # r
    BY <2>2
  <2>5. status[r] = "live" /\ r \notin running \cup last /\ r # chunked /\ held[r] = 0
    BY <1>0, <1>1 DEF Abort, Placed, HoldsItsTokens
  <2>6. Types' /\ Placed' /\ HoldsItsTokens'
    BY <1>0, <2>2, <2>3, <2>4, <2>5 DEF Types, Placed, HoldsItsTokens
  <2>7. QueuedOnce'
    BY <2>2 DEF QueuedOnce
  <2>8. InBatches'
    BY <1>0, <2>3, <2>5 DEF InBatches, Types
  <2>9. ChunkFits' /\ MemoryFits'
    <3>1. Merged' = Merged
      BY <1>0, <2>3, <2>5 DEF Merged, Unfinished, Types
    <3>2. Used' = Used /\ Available' = Available
      BY <2>3 DEF Used, HeldBy, Available
    <3>3. chunked # NoReq => Reserve(chunked)' = Reserve(chunked)
      BY <2>3 DEF Reserve, ExtendLen
    <3> QED
      BY <2>3, <3>1, <3>2, <3>3 DEF ChunkFits, MemoryFits
  <2> QED
    BY <2>6, <2>7, <2>8, <2>9
<1>2. CASE r \notin ToSet(waiting)
  <2>1. /\ to_abort' = to_abort \cup {r}
        /\ UNCHANGED <<waiting, running, full, last, chunked, held, out, status, peak>>
    BY <1>2 DEF Abort
  <2>2. Types' /\ Placed' /\ HoldsItsTokens' /\ QueuedOnce' /\ InBatches'
    BY <1>0, <2>1 DEF Types, Placed, HoldsItsTokens, QueuedOnce, InBatches, ToSet
  <2>3. ChunkFits' /\ MemoryFits'
    BY <2>1 DEF ChunkFits, MemoryFits, Merged, Unfinished, Reserve, ExtendLen, Available, Used, HeldBy
  <2> QED
    BY <2>2, <2>3
<1> QED
  BY <1>1, <1>2
-----------------------------------------------------------------------------
(* What process_batch_result does to each request, when the allocation     *)
(* before it has fitted.                                                   *)
LEMMA ProcessFits ==
  ASSUME Types, NEW B \in SUBSET Reqs, NEW eos, NEW memory, Process(B, eos, memory),
         \A r \in Reqs : memory[r] \in Nat, SumOver(memory, Reqs) <= MaxTotal,
         \A r \in B : status[r] = "live" /\ out[r] < MaxNewTokens[r]
  PROVE  /\ peak' \in Nat /\ peak' <= MaxTotal
         /\ Used' <= SumOver(memory, Reqs) /\ Used' <= MaxTotal /\ Used' \in Nat
         /\ status' \in [Reqs -> {"new", "live", "finished", "aborted"}]
         /\ \A r \in Reqs : held'[r] \in Nat /\ out'[r] \in 0..MaxNewTokens[r]
         /\ \A r \in Reqs \ B : out'[r] = out[r] /\ status'[r] = status[r] /\ held'[r] = memory[r]
         /\ \A r \in B : /\ out'[r] = out[r] + 1
                         /\ \/ status'[r] = "finished" /\ held'[r] = 0
                            \/ status'[r] = "live" /\ held'[r] = memory[r] /\ out'[r] < MaxNewTokens[r]
<1> DEFINE done == {r \in B : Stops(r, eos)}
<1>1. /\ peak' = SumOver(memory, Reqs)
      /\ out' = [r \in Reqs |-> IF r \in B THEN out[r] + 1 ELSE out[r]]
      /\ status' = [r \in Reqs |-> IF r \in done THEN "finished" ELSE status[r]]
      /\ held' = [r \in Reqs |-> IF r \in done THEN 0 ELSE memory[r]]
  BY DEF Process
<1>2. \A r \in B : r \notin done => out[r] + 1 < MaxNewTokens[r]
  BY Numbers DEF Stops
<1>3. IsFiniteSet(Reqs)
  BY Numbers
<1> HIDE DEF done
<1>4. done \subseteq B
  BY DEF done
<1>5. \A r \in Reqs : held'[r] \in Nat /\ held'[r] <= memory[r]
  BY <1>1
<1>6. SumOver(held', Reqs) <= SumOver(memory, Reqs) /\ SumOver(held', Reqs) \in Nat
  BY <1>3, <1>5, SumMonotone, SumType
<1>7. SumOver(memory, Reqs) \in Nat
  BY <1>3, SumType
<1>8. Used' = SumOver(held', Reqs)
  BY DEF Used, HeldBy
<1>9. \A r \in Reqs : out'[r] \in 0..MaxNewTokens[r]
  BY <1>1, Numbers
<1>10. status' \in [Reqs -> {"new", "live", "finished", "aborted"}]
  BY <1>1 DEF Types
<1>11. \A r \in Reqs \ B : out'[r] = out[r] /\ status'[r] = status[r] /\ held'[r] = memory[r]
  BY <1>1, <1>4
<1>12. \A r \in B : /\ out'[r] = out[r] + 1
                    /\ \/ status'[r] = "finished" /\ held'[r] = 0
                       \/ status'[r] = "live" /\ held'[r] = memory[r] /\ out'[r] < MaxNewTokens[r]
  BY <1>1, <1>2, <1>4
<1>13. SumOver(held', Reqs) <= MaxTotal
  BY <1>6, <1>7, Numbers
<1> QED
  BY <1>1, <1>5, <1>6, <1>7, <1>8, <1>9, <1>10, <1>11, <1>12, <1>13

(* A round in which no prefill batch comes out has no chunked request.     *)
LEMMA NoChunkInDecode ==
  ASSUME Inv, NEW ratio \in Ratios, NoPrefill(ratio)
  PROVE  /\ chunked = NoReq
         /\ \A r \in Reqs : status[r] = "live" <=> r \in ToSet(waiting) \/ r \in Unfinished(Merged)
         /\ Unfinished(Merged) \subseteq Reqs
<1> USE DEF Inv
<1>1. chunked = NoReq
  BY DEF NoPrefill, Tried, ChunkFits
<1>2. \A r : r \in Unfinished(Merged) <=> r \in running \cup last /\ status[r] # "finished"
  BY <1>1, Numbers DEF Unfinished, Merged, Types
<1>3. \A r \in Reqs : r # chunked
  BY <1>1, Numbers
<1> QED
  BY <1>1, <1>2, <1>3 DEF Placed, InBatches, Types

(* get_next_batch_to_run with nothing to run: self_check_during_idle.      *)
LEMMA IdleInv ==
  ASSUME Inv, NEW ratio \in Ratios, IdleRound(ratio)
  PROVE  Inv'
<1> USE DEF Inv
<1>1. /\ running' = {} /\ last' = {} /\ full' \in BOOLEAN
      /\ UNCHANGED <<waiting, chunked, held, out, status, to_abort, peak>>
  BY DEF IdleRound
<1>2. chunked = NoReq /\ \A r \in Reqs : status[r] = "live" <=> r \in ToSet(waiting)
  BY NoChunkInDecode DEF IdleRound
<1>3. Types' /\ Placed' /\ HoldsItsTokens' /\ QueuedOnce' /\ InBatches'
  BY <1>1, <1>2 DEF Types, Placed, HoldsItsTokens, QueuedOnce, InBatches, ToSet
<1>4. ChunkFits' /\ MemoryFits'
  BY <1>1, <1>2 DEF ChunkFits, MemoryFits, Used, HeldBy
<1> QED
  BY <1>3, <1>4
-----------------------------------------------------------------------------
(* The retracted requests go back to the queue, each once.                 *)
LEMMA OrderProperties ==
  ASSUME NEW R, IsFiniteSet(R), NEW order \in SetToSeqs(R)
  PROVE  /\ order \in Seq(R)
         /\ \A i, j \in DOMAIN order : order[i] = order[j] => i = j
         /\ \A r : r \in R <=> r \in ToSet(order)
<1> DEFINE n == Cardinality(R)
<1>1. n \in Nat
  BY FS_CardinalityType
<1> HIDE DEF n
<1>2. order \in [1..n -> R] /\ \A i, j \in 1..n : i # j => order[i] # order[j]
  BY DEF SetToSeqs, n
<1>3. order \in Seq(R)
  BY <1>1, <1>2, IsASeq
<1>4. order \in Injection(1..n, R)
  BY <1>2 DEF Injection, IsInjective
<1>5. Cardinality(1..n) = Cardinality(R)
  BY <1>1, FS_Interval DEF n
<1>6. order \in Surjection(1..n, R)
  BY <1>4, <1>5, FS_Injection
<1>7. \A r \in R : \E i \in 1..n : order[i] = r
  BY <1>6 DEF Surjection
<1> QED
  BY <1>2, <1>3, <1>7 DEF ToSet


(* The memory of a decode step once the requests R have been retracted.    *)
DecodeMemory(B, R) ==
  [r \in Reqs |-> IF r \in R THEN 0 ELSE IF r \in B THEN held[r] + 1 ELSE held[r]]

(* check_decode_mem or the retraction loop leaves a slot for each request  *)
(* that goes on, because only the requests of the batch hold memory.       *)
LEMMA DecodeFits ==
  ASSUME Inv, chunked = NoReq, NEW B, B \in SUBSET Reqs,
         \A r \in Reqs : status[r] = "live" <=> r \in ToSet(waiting) \/ r \in B,
         \A r \in B : held[r] = InputLen[r] + out[r] - 1 /\ out[r] < MaxNewTokens[r],
         NEW R, R \in Retractions(B)
  PROVE  /\ R \in SUBSET B
         /\ \A r \in Reqs : DecodeMemory(B, R)[r] \in Nat
         /\ SumOver(DecodeMemory(B, R), Reqs) <= MaxTotal
<1> USE DEF Inv
<1> DEFINE mem == DecodeMemory(B, R)
           K == B \ R
<1>1. R \in SUBSET B
  BY DEF Retractions
<1>2. IsFiniteSet(Reqs) /\ IsFiniteSet(B) /\ IsFiniteSet(R) /\ IsFiniteSet(K) /\ IsFiniteSet(Reqs \ K)
  <2>1. IsFiniteSet(Reqs)
    BY Numbers
  <2>2. B \in SUBSET Reqs /\ R \in SUBSET Reqs /\ K \in SUBSET Reqs /\ Reqs \ K \in SUBSET Reqs
    BY <1>1
  <2> QED
    BY <2>1, <2>2, FS_Subset
<1>3. \A r \in Reqs : held[r] \in Nat /\ mem[r] \in Nat
  BY <1>1, Numbers DEF DecodeMemory
<1>4. \A r \in Reqs : r \notin B => held[r] = 0
  BY DEF Placed, HoldsItsTokens
<1>5. SumOver(mem, Reqs) = SumOver(mem, K)
  <2>1. \A r \in Reqs \ K : mem[r] = 0
    BY <1>1, <1>4 DEF DecodeMemory
  <2>2. SumOver(mem, Reqs \ K) = 0
    BY <2>1, SumZero
  <2>3. K \cap (Reqs \ K) = {} /\ K \cup (Reqs \ K) = Reqs
    BY <1>1
  <2>4. SumOver(mem, K \cup (Reqs \ K)) = SumOver(mem, K) + SumOver(mem, Reqs \ K)
    <3>1. \A r \in K \cup (Reqs \ K) : mem[r] \in Nat
      BY <1>3, <2>3
    <3> HIDE DEF mem, K
    <3> QED
      BY <1>2, <2>3, <3>1, SumSplit
  <2>5. SumOver(mem, K) \in Nat
    <3>1. \A r \in K : mem[r] \in Nat
      BY <1>3, <2>3
    <3> HIDE DEF mem, K
    <3> QED
      BY <1>2, <3>1, SumType
  <2>6. SumOver(mem, Reqs) = SumOver(mem, K) + SumOver(mem, Reqs \ K)
    BY <2>3, <2>4, Zenon
  <2> HIDE DEF mem, K
  <2> QED
    BY <2>2, <2>5, <2>6
<1>6. SumOver(mem, K) = SumOver(held, K) + Cardinality(K)
  <2> DEFINE one == [r \in K |-> 1]
  <2>1. \A r \in K : held[r] \in Nat /\ one[r] \in Nat /\ mem[r] = held[r] + one[r]
    BY <1>1, <1>3 DEF DecodeMemory
  <2>2. \A r \in K : one[r] = 1
    OBVIOUS
  <2> HIDE DEF mem, K, one
  <2>3. SumOver(one, K) = Cardinality(K)
    BY <1>2, <2>2, SumOnes
  <2>4. SumOver(mem, K) = SumOver(held, K) + SumOver(one, K)
    BY <1>2, <2>1, SumPlus
  <2> QED
    BY <2>3, <2>4
<1>7. Used = SumOver(held, K) + SumOver(held, R)
  <2>1. SumOver(held, B) = SumOver(held, K) + SumOver(held, R)
    <3>1. K \cap R = {} /\ K \cup R = B /\ \A r \in K \cup R : held[r] \in Nat
      BY <1>1, <1>3
    <3>2. SumOver(held, K \cup R) = SumOver(held, K) + SumOver(held, R)
      <4> HIDE DEF K
      <4> QED
        BY <1>2, <3>1, SumSplit
    <3> QED
      BY <3>1, <3>2, Zenon
  <2>2. Used = SumOver(held, B) + SumOver(held, Reqs \ B)
    <3>1. B \cap (Reqs \ B) = {} /\ B \cup (Reqs \ B) = Reqs /\ IsFiniteSet(Reqs \ B)
      BY <1>2, FS_Difference
    <3>2. \A r \in B \cup (Reqs \ B) : held[r] \in Nat
      BY <1>3, <3>1
    <3>3. SumOver(held, B \cup (Reqs \ B)) = SumOver(held, B) + SumOver(held, Reqs \ B)
      BY <1>2, <3>1, <3>2, SumSplit
    <3> QED
      BY <3>1, <3>3, Zenon DEF Used, HeldBy
  <2>3. SumOver(held, Reqs \ B) = 0
    BY <1>4, SumZero
  <2>4. SumOver(held, B) \in Nat
    BY <1>2, <1>3, SumType
  <2> QED
    BY <2>1, <2>2, <2>3, <2>4
<1>8. SumOver(held, K) \in Nat /\ SumOver(held, R) \in Nat /\ Cardinality(K) \in Nat
  <2>1. (\A r \in K : held[r] \in Nat) /\ (\A r \in R : held[r] \in Nat)
    BY <1>1, <1>3
  <2> QED
    BY <1>2, <2>1, SumType, FS_CardinalityType
<1>9. SumOver(held, K) + Cardinality(K) <= MaxTotal
  <2>1. CASE Available >= Cardinality(B)
    <3>1. R = {} /\ K = B
      BY <2>1 DEF Retractions
    <3>2. Cardinality(K) <= Available
      BY <2>1, <3>1, Zenon
    <3> HIDE DEF K
    <3> QED
      BY <1>7, <1>8, <3>2, Numbers
  <2>2. CASE Cardinality(K) = 1
    <3>1. PICK r \in Reqs : K = {r} /\ r \in B
      <4>1. \E x : K = {x}
        BY <1>2, <2>2, FS_Singleton, Zenon
      <4> QED
        BY <4>1
    <3>2. SumOver(held, {r}) = held[r]
      BY <1>3, SumSingleton
    <3>3. SumOver(held, K) = held[r]
      BY <3>1, <3>2, Zenon
    <3> HIDE DEF K
    <3> QED
      BY <2>2, <3>1, <3>3, Numbers
  <2>3. CASE Available + HeldBy(R) >= Cardinality(K) * RetractSteps
    <3> HIDE DEF K
    <3>1. Cardinality(K) * RetractSteps >= Cardinality(K)
      BY <1>8, Numbers
    <3> QED
      BY <2>3, <1>7, <1>8, <3>1, Numbers DEF HeldBy
  <2>4. ~(Available >= Cardinality(B)) => Enough(B, R)
    BY DEF Retractions
  <2> QED
    BY <2>1, <2>2, <2>3, <2>4 DEF Enough
<1>10. SumOver(mem, Reqs) <= MaxTotal
  <2> HIDE DEF mem, K
  <2> QED
    BY <1>5, <1>6, <1>9
<1> QED
  BY <1>1, <1>3, <1>10

(* A decode step: retraction, the step itself and its results.             *)
LEMMA DecodeInv ==
  ASSUME Inv, NEW ratio \in Ratios, DecodeRound(ratio)
  PROVE  Inv'
<1> USE DEF Inv
<1> DEFINE B == Unfinished(Merged)
<1>1. /\ chunked = NoReq /\ B \subseteq Reqs
      /\ \A r \in Reqs : status[r] = "live" <=> r \in ToSet(waiting) \/ r \in B
  BY NoChunkInDecode DEF DecodeRound
<1>2. PICK R \in Retractions(B) :
        /\ \E order \in SetToSeqs(R) :
             /\ \A i, j \in DOMAIN order : i < j => ~RetractedBefore(order[j], order[i])
             /\ waiting' = waiting \o order
        /\ running' = B \ R
        /\ full' = (FullAfterTry(ratio) /\ running' = Merged)
        /\ \E eos \in SUBSET (B \ R) : Process(B \ R, eos, DecodeMemory(B, R))
  BY DEF DecodeRound, DecodeMemory
<1>3. PICK order \in SetToSeqs(R) : waiting' = waiting \o order
  BY <1>2
<1>4. PICK eos \in SUBSET (B \ R) : Process(B \ R, eos, DecodeMemory(B, R))
  BY <1>2
<1>5. last' = {} /\ chunked' = chunked /\ to_abort' = to_abort /\ running' = B \ R /\ full' \in BOOLEAN
  BY <1>2 DEF DecodeRound
<1>6. \A r \in B : r \in running \cup last /\ r # chunked /\ status[r] = "live" /\ r \notin ToSet(waiting)
  <2>1. \A r \in B : r \in running \cup last /\ status[r] # "finished"
    BY DEF Unfinished, Merged
  <2> QED
    BY <1>1, <2>1, Numbers DEF InBatches, Placed
<1>7. \A r \in B : held[r] = InputLen[r] + out[r] - 1 /\ out[r] < MaxNewTokens[r]
  BY <1>1, <1>6 DEF HoldsItsTokens, InBatches
<1> HIDE DEF B
<1>8. /\ R \in SUBSET B
      /\ \A r \in Reqs : DecodeMemory(B, R)[r] \in Nat
      /\ SumOver(DecodeMemory(B, R), Reqs) <= MaxTotal
  BY <1>1, <1>7, DecodeFits
<1> DEFINE mem == DecodeMemory(B, R)
           K == B \ R
<1>9. /\ \A r \in R : mem[r] = 0
      /\ \A r \in K : mem[r] = held[r] + 1
      /\ \A r \in Reqs \ B : mem[r] = held[r]
  BY <1>1, <1>8 DEF DecodeMemory
<1> HIDE DEF mem
<1>10. K \in SUBSET Reqs /\ \A r \in K : r \in B /\ r \notin R
  BY <1>1
<1> HIDE DEF K
<1>11. /\ peak' \in Nat /\ peak' <= MaxTotal
       /\ Used' <= MaxTotal
       /\ status' \in [Reqs -> {"new", "live", "finished", "aborted"}]
       /\ \A r \in Reqs : held'[r] \in Nat /\ out'[r] \in 0..MaxNewTokens[r]
       /\ \A r \in Reqs \ K : out'[r] = out[r] /\ status'[r] = status[r] /\ held'[r] = mem[r]
       /\ \A r \in K : /\ out'[r] = out[r] + 1
                       /\ \/ status'[r] = "finished" /\ held'[r] = 0
                          \/ status'[r] = "live" /\ held'[r] = mem[r] /\ out'[r] < MaxNewTokens[r]
  <2>1. Process(K, eos, mem) /\ \A r \in Reqs : mem[r] \in Nat
    BY <1>4, <1>8 DEF K, mem
  <2>2. SumOver(mem, Reqs) <= MaxTotal
    BY <1>8 DEF mem
  <2>3. \A r \in K : status[r] = "live" /\ out[r] < MaxNewTokens[r]
    BY <1>6, <1>7, <1>10
  <2> QED
    BY <1>10, <2>1, <2>2, <2>3, ProcessFits
<1>12. /\ waiting' \in Seq(Reqs) /\ QueuedOnce'
       /\ \A r : r \in ToSet(waiting') <=> r \in ToSet(waiting) \/ r \in R
  <2>1. R \in SUBSET Reqs /\ IsFiniteSet(R)
    BY <1>1, <1>8, Numbers, FS_Subset
  <2>2. /\ order \in Seq(R) /\ \A i, j \in DOMAIN order : order[i] = order[j] => i = j
        /\ \A r : r \in R <=> r \in ToSet(order)
    BY <2>1, OrderProperties
  <2>3. order \in Seq(Reqs)
    BY <2>1, <2>2, SeqMonotonic
  <2>4. ToSet(waiting) \cap ToSet(order) = {}
    BY <1>6, <1>8, <2>2
  <2>5. waiting \in Seq(Reqs) /\ \A i, j \in DOMAIN waiting : waiting[i] = waiting[j] => i = j
    BY DEF Types, QueuedOnce
  <2>6. /\ waiting \o order \in Seq(Reqs)
        /\ \A i, j \in DOMAIN (waiting \o order) : (waiting \o order)[i] = (waiting \o order)[j] => i = j
        /\ \A r : r \in ToSet(waiting \o order) <=> r \in ToSet(waiting) \/ r \in ToSet(order)
    BY <2>2, <2>3, <2>4, <2>5, ConcatDistinct
  <2> QED
    BY <1>3, <2>2, <2>6, Zenon DEF QueuedOnce
<1>13. \A r : r \in ToSet(waiting)' <=> r \in ToSet(waiting) \/ r \in R
  BY <1>12 DEF ToSet
<1>14. Types'
  BY <1>5, <1>10, <1>11, <1>12, <1>1 DEF Types, K
<1>15. running' = K
  BY <1>5 DEF K
<1>16. \A r \in Reqs : r \in B <=> r \in K \/ r \in R
  BY <1>8 DEF K
<1>17. \A r \in Reqs : r # chunked
  BY <1>1, Numbers
<1>18. Placed'
  BY <1>1, <1>5, <1>6, <1>8, <1>9, <1>10, <1>11, <1>13, <1>15, <1>16, <1>17 DEF Placed
<1>19. HoldsItsTokens'
  <2> SUFFICES ASSUME NEW r \in Reqs, status'[r] = "live"
               PROVE  /\ r \in ToSet(waiting)' => held'[r] = 0
                      /\ r \in running' => held'[r] = InputLen[r] + out'[r] - 1
    BY <1>5, <1>17 DEF HoldsItsTokens
  <2>1. CASE r \in K
    BY <2>1, <1>6, <1>7, <1>9, <1>10, <1>11, <1>13, Numbers
  <2>2. CASE r \notin K
    <3>1. r \in ToSet(waiting) => held[r] = 0 /\ r \notin B
      BY <1>1, <1>6 DEF HoldsItsTokens
    <3> QED
      BY <2>2, <3>1, <1>9, <1>11, <1>13, <1>15
  <2> QED
    BY <2>1, <2>2
<1>20. InBatches'
  BY <1>5, <1>10, <1>11, <1>15 DEF InBatches
<1>21. ChunkFits' /\ MemoryFits'
  BY <1>1, <1>5, <1>8, <1>11, Numbers DEF ChunkFits, MemoryFits, mem
<1> QED
  BY <1>12, <1>14, <1>18, <1>19, <1>20, <1>21
-----------------------------------------------------------------------------
(* What the adder knows of the requests it has admitted.                   *)
LEMMA AdmittedProperties ==
  ASSUME Types, NEW ratio \in Ratios
  PROVE  /\ Admitted(ratio) \in 0..Len(waiting) /\ Len(waiting) \in Nat
         /\ \A i \in 1..Admitted(ratio) : HasRoom(i) /\ Fits(i, ratio) /\ ChunkLeft(i) > 0
<1> DEFINE T == {n \in 0..Len(waiting) :
                   \A i \in 1..n : HasRoom(i) /\ Fits(i, ratio) /\ ChunkLeft(i) > 0}
<1>1. Len(waiting) \in Nat
  BY DEF Types
<1>2. T \in SUBSET Nat /\ \A k \in T : k <= Len(waiting)
  BY <1>1
<1>3. 0 \in T
  BY <1>1
<1>4. Admitted(ratio) = CHOOSE x \in T : \A y \in T : x >= y
  BY DEF Admitted, Max
<1> HIDE DEF T
<1>5. \E m \in T : \A k \in T : k <= m
  BY <1>1, <1>2, <1>3, GreatestNatural
<1>6. \E m \in T : \A k \in T : m >= k
  BY <1>2, <1>5
<1>7. Admitted(ratio) \in T
  BY <1>4, <1>6, Zenon
<1> QED
  BY <1>1, <1>7 DEF T

(* add_chunked_req takes the whole rest of the prompt or a whole chunk.    *)
LEMMA ChunkTokensProperties ==
  ASSUME Inv
  PROVE  /\ ChunkTokens \in Nat
         /\ chunked = NoReq => ChunkTokens = 0 /\ ~ChunkCut
         /\ chunked # NoReq =>
              /\ chunked \in Reqs /\ ExtendLen(chunked) \in Nat
              /\ ChunkTokens \in 1..ExtendLen(chunked)
              /\ ChunkCut => ChunkTokens = ChunkSize /\ ChunkTokens < ExtendLen(chunked)
              /\ ~ChunkCut => ChunkTokens = ExtendLen(chunked)
<1> USE DEF Inv
<1>1. CASE chunked = NoReq
  BY <1>1 DEF ChunkTokens, ChunkCut
<1>2. CASE chunked # NoReq
  <2>1. chunked \in Reqs /\ status[chunked] = "live"
    BY <1>2 DEF Types, Placed
  <2>2. held[chunked] \in 1..InputLen[chunked] + out[chunked] - 1
    BY <2>1 DEF HoldsItsTokens
  <2>3. ExtendLen(chunked) \in Nat \ {0} /\ ChunkSize \in Nat \ {0}
    BY <2>1, <2>2, Numbers DEF ExtendLen
  <2>4. ChunkTokens = IF ExtendLen(chunked) <= ChunkSize THEN ExtendLen(chunked) ELSE ChunkSize
    BY <1>2, <2>3, MinOfTwo DEF ChunkTokens
  <2>5. ChunkCut <=> ExtendLen(chunked) > ChunkSize
    BY <1>2 DEF ChunkCut
  <2> QED
    BY <1>2, <2>1, <2>3, <2>4, <2>5
<1> QED
  BY <1>1, <1>2

(* The prompts in the queue, by position.                                  *)
Lengths == [i \in 1..Len(waiting) |-> ExtendLen(waiting[i])]
Reserves == [i \in 1..Len(waiting) |-> Reserve(waiting[i])]

(* A queued request holds nothing and has something to compute.            *)
LEMMA QueuedRequests ==
  ASSUME Inv
  PROVE  /\ Len(waiting) \in Nat
         /\ \A i \in 1..Len(waiting) :
              /\ i \in DOMAIN waiting /\ waiting[i] \in Reqs /\ waiting[i] \in ToSet(waiting)
              /\ status[waiting[i]] = "live" /\ held[waiting[i]] = 0 /\ waiting[i] # chunked
              /\ Lengths[i] = ExtendLen(waiting[i]) /\ Reserves[i] = Reserve(waiting[i])
              /\ Lengths[i] \in Nat \ {0} /\ Reserves[i] \in Nat
              /\ Reserves[i] = Lengths[i] + Clipped(MaxNewTokens[waiting[i]])
              /\ Lengths[i] <= Reserves[i]
<1> USE DEF Inv
<1>1. waiting \in Seq(Reqs)
  BY DEF Types
<1>2. ASSUME NEW i \in 1..Len(waiting)
      PROVE  /\ i \in DOMAIN waiting /\ waiting[i] \in Reqs /\ waiting[i] \in ToSet(waiting)
             /\ status[waiting[i]] = "live" /\ held[waiting[i]] = 0 /\ waiting[i] # chunked
             /\ Lengths[i] = ExtendLen(waiting[i]) /\ Reserves[i] = Reserve(waiting[i])
             /\ Lengths[i] \in Nat \ {0} /\ Reserves[i] \in Nat
             /\ Reserves[i] = Lengths[i] + Clipped(MaxNewTokens[waiting[i]])
             /\ Lengths[i] <= Reserves[i]
  <2>1. i \in DOMAIN waiting /\ waiting[i] \in Reqs /\ waiting[i] \in ToSet(waiting)
    BY <1>1 DEF ToSet
  <2>2. status[waiting[i]] = "live" /\ held[waiting[i]] = 0 /\ waiting[i] # chunked
    BY <2>1 DEF Placed, HoldsItsTokens
  <2>3. Lengths[i] = ExtendLen(waiting[i]) /\ Reserves[i] = Reserve(waiting[i])
    BY DEF Lengths, Reserves
  <2>4. /\ ExtendLen(waiting[i]) \in Nat \ {0} /\ Clipped(MaxNewTokens[waiting[i]]) \in Nat
        /\ Reserve(waiting[i]) = ExtendLen(waiting[i]) + Clipped(MaxNewTokens[waiting[i]])
    <3> DEFINE q == waiting[i]
    <3>1. /\ InputLen[q] \in Nat \ {0} /\ Clipped(MaxNewTokens[q]) \in Nat /\ out[q] \in Nat
          /\ Reserve(q) = ExtendLen(q) + Clipped(MaxNewTokens[q])
      BY <2>1, Numbers
    <3>2. ExtendLen(q) = InputLen[q] + out[q] - 0
      BY <2>2 DEF ExtendLen
    <3> HIDE DEF q
    <3>3. ExtendLen(q) \in Nat \ {0}
      BY <3>1, <3>2
    <3> QED
      BY <3>1, <3>3 DEF q
  <2> QED
    BY <2>1, <2>2, <2>3, <2>4
<1> QED
  BY <1>1, <1>2

(* The adder's sums over the queue are sums of these.                      *)
LEMMA QueueSums ==
  ASSUME Inv, NEW i \in 1..Len(waiting)
  PROVE  /\ SumOver(Lengths, 1..i-1) \in Nat /\ SumOver(Reserves, 1..i-1) \in Nat
         /\ SumOver(Lengths, 1..i) = SumOver(Lengths, 1..i-1) + Lengths[i]
         /\ SumOver(Lengths, 1..i-1) <= SumOver(Reserves, 1..i-1)
         /\ ChunkLeft(i) = ChunkSize - ChunkTokens - SumOver(Lengths, 1..i-1)
         /\ SumOver([j \in 1..i-1 |-> Reserve(waiting[j])], 1..i-1) = SumOver(Reserves, 1..i-1)
<1>1. \A j \in 1..i : j \in 1..Len(waiting) /\ Lengths[j] \in Nat /\ Reserves[j] \in Nat /\ Lengths[j] <= Reserves[j]
  BY QueuedRequests
<1>0. i \in Nat \ {0}
  BY QueuedRequests
<1>2. IsFiniteSet(1..i-1) /\ i \in Nat \ {0}
  BY <1>0, FS_Interval
<1>3. \A j \in 1..i-1 : j \in 1..i
  BY <1>2
<1>4. SumOver(Lengths, 1..i-1) \in Nat /\ SumOver(Reserves, 1..i-1) \in Nat
  BY <1>1, <1>2, <1>3, SumType
<1>5. SumOver(Lengths, 1..i) = SumOver(Lengths, 1..i-1) + Lengths[i]
  BY <1>1, <1>2, SumUpTo
<1>6. SumOver(Lengths, 1..i-1) <= SumOver(Reserves, 1..i-1)
  BY <1>1, <1>2, <1>3, SumMonotone
<1> DEFINE f == [j \in 1..i-1 |-> ExtendLen(waiting[j])]
           g == [j \in 1..i-1 |-> Reserve(waiting[j])]
<1>7. \A j \in 1..i-1 : f[j] = Lengths[j] /\ g[j] = Reserves[j]
  BY <1>1, <1>3 DEF Lengths, Reserves
<1>8. ChunkLeft(i) = ChunkSize - ChunkTokens - SumOver(f, 1..i-1)
  BY DEF ChunkLeft
<1>9. SumOver(f, 1..i-1) = SumOver(Lengths, 1..i-1) /\ SumOver(g, 1..i-1) = SumOver(Reserves, 1..i-1)
  <2> HIDE DEF f, g
  <2> QED
    BY <1>7, SumCong
<1> QED
  BY <1>4, <1>5, <1>6, <1>8, <1>9, Zenon

(* The running batch after the last prefill was merged into it.            *)
LEMMA MergedProperties ==
  ASSUME Types
  PROVE  Merged \in SUBSET Reqs /\ IsFiniteSet(Merged) /\ Cardinality(Merged) \in Nat
<1>1. Merged \in SUBSET Reqs
  BY DEF Types, Merged, Unfinished
<1> QED
  BY <1>1, Numbers, FS_Subset, FS_CardinalityType

(* The admission test leaves room for every request taken before, in full. *)
LEMMA FitsMeans ==
  ASSUME Inv, NEW ratio \in Ratios, NEW i \in 1..Len(waiting), Fits(i, ratio)
  PROVE  ChunkTokens + SumOver(Reserves, 1..i-1) + Reserves[i] < Available
<1> DEFINE f == [r \in Merged |-> Clipped(MaxNewTokens[r] - out[r])]
           X == SumOver(f, Merged)
           Y == IF chunked = NoReq \/ ChunkCut THEN 0 ELSE Clipped(MaxNewTokens[chunked])
           S == SumOver(Reserves, 1..i-1)
<1>1. Types
  BY DEF Inv
<1>2. X \in Nat
  <2>1. \A r \in Merged : MaxNewTokens[r] - out[r] \in Nat
    BY SMTT(30), <1>1, MergedProperties, Numbers
  <2>2. \A r \in Merged : f[r] \in Nat
    BY <2>1, ClippedType
  <2> HIDE DEF f
  <2> QED
    BY <1>1, <2>2, MergedProperties, SumType
<1>3. Y \in Nat
  BY <1>1, ChunkTokensProperties, Numbers
<1>4. S \in Nat /\ SumOver([j \in 1..i-1 |-> Reserve(waiting[j])], 1..i-1) = S
  BY QueueSums
<1>5. Offset(i, ratio) = ratio * X + 10 * (ChunkTokens + Y + S)
  <2>1. Offset(i, ratio) = ratio * X + 10 * (ChunkTokens + Y + SumOver([j \in 1..i-1 |-> Reserve(waiting[j])], 1..i-1))
    BY DEF Offset
  <2> HIDE DEF X, Y, S
  <2> QED
    BY <2>1, <1>4, Zenon
<1>6. 10 * Reserve(waiting[i]) < 10 * Available - Offset(i, ratio)
  BY DEF Fits
<1>7. Reserves[i] = Reserve(waiting[i]) /\ Reserves[i] \in Nat
  BY QueuedRequests
<1> HIDE DEF X, Y, S
<1>8. ratio * X \in Nat
  BY <1>2, LimitsAssumption
<1>9. ChunkTokens \in Nat /\ Available \in Int
  BY <1>1, ChunkTokensProperties, Numbers
<1>10. 10 * Reserves[i] < 10 * Available - (ratio * X + 10 * (ChunkTokens + Y + S))
  BY <1>5, <1>6, <1>7, Zenon
<1> DEFINE Z == ratio * X
<1> HIDE DEF Z
<1>11. Z \in Nat /\ 10 * Reserves[i] < 10 * Available - (Z + 10 * (ChunkTokens + Y + S))
  BY <1>8, <1>10 DEF Z
<1>12. ChunkTokens + S + Reserves[i] < Available
  BY <1>3, <1>4, <1>7, <1>9, <1>11
<1> QED
  BY <1>12 DEF S

(* Only the last of the admitted requests can be cut to what the chunk has *)
(* left, and none is admitted behind a chunk that is already full.         *)
LEMMA CutProperties ==
  ASSUME Inv, NEW ratio \in Ratios
  PROVE  /\ ChunkCut => Admitted(ratio) = 0
         /\ \A i \in 1..Admitted(ratio) :
              /\ i \in 1..Len(waiting)
              /\ Min({Lengths[i], ChunkLeft(i)}) \in 1..Lengths[i]
              /\ i # Admitted(ratio) => Min({Lengths[i], ChunkLeft(i)}) = Lengths[i]
<1> DEFINE n == Admitted(ratio)
<1>1. /\ n \in 0..Len(waiting) /\ Len(waiting) \in Nat
      /\ \A i \in 1..n : HasRoom(i) /\ Fits(i, ratio) /\ ChunkLeft(i) > 0
  BY AdmittedProperties DEF Inv
<1> HIDE DEF n
<1>2. \A i \in 1..n : i \in 1..Len(waiting)
  BY <1>1
<1>3. /\ ChunkTokens \in Nat /\ ChunkSize \in Nat
      /\ ChunkCut => ChunkTokens = ChunkSize
  BY ChunkTokensProperties, Numbers DEF Inv
<1>4. ASSUME NEW i \in 1..n
      PROVE /\ ChunkLeft(i) = ChunkSize - ChunkTokens - SumOver(Lengths, 1..i-1)
            /\ SumOver(Lengths, 1..i-1) \in Nat
            /\ ChunkLeft(i) \in Nat \ {0}
  <2>1. /\ ChunkLeft(i) = ChunkSize - ChunkTokens - SumOver(Lengths, 1..i-1)
        /\ SumOver(Lengths, 1..i-1) \in Nat
    BY <1>2, QueueSums
  <2> QED
    BY <2>1, <1>1, <1>3
<1>5. ChunkCut => n = 0
  <2> SUFFICES ASSUME ChunkCut, n # 0 PROVE FALSE
    OBVIOUS
  <2>1. 1 \in 1..n
    BY <1>1
  <2> QED
    BY <2>1, <1>3, <1>4
<1>6. ASSUME NEW i \in 1..n
      PROVE  /\ Min({Lengths[i], ChunkLeft(i)}) \in 1..Lengths[i]
             /\ i # n => Min({Lengths[i], ChunkLeft(i)}) = Lengths[i]
  <2>1. Lengths[i] \in Nat \ {0}
    BY <1>2, QueuedRequests
  <2>2. ChunkLeft(i) \in Nat \ {0}
    BY <1>4
  <2>3. Min({Lengths[i], ChunkLeft(i)}) = IF Lengths[i] <= ChunkLeft(i) THEN Lengths[i] ELSE ChunkLeft(i)
    BY <2>1, <2>2, MinOfTwo
  <2>4. ASSUME i # n PROVE Lengths[i] <= ChunkLeft(i)
    <3>1. i + 1 \in 1..n /\ (i + 1) - 1 = i
      BY <1>1, <2>4
    <3>2. ChunkLeft(i + 1) = ChunkSize - ChunkTokens - SumOver(Lengths, 1..i) /\ ChunkLeft(i + 1) \in Nat \ {0}
      BY <1>4, <3>1
    <3>3. SumOver(Lengths, 1..i) = SumOver(Lengths, 1..i-1) + Lengths[i]
      BY <1>2, QueueSums
    <3>4. ChunkLeft(i) = ChunkSize - ChunkTokens - SumOver(Lengths, 1..i-1) /\ SumOver(Lengths, 1..i-1) \in Nat
      BY <1>4
    <3> QED
      BY <2>1, <3>2, <3>3, <3>4, <1>3
  <2> QED
    BY <2>1, <2>2, <2>3, <2>4
<1> QED
  BY <1>2, <1>5, <1>6 DEF n

(* The requests of a prefill batch and the tokens computed for each.       *)
LEMMA TakenProperties ==
  ASSUME Inv, NEW n \in 0..Len(waiting)
  PROVE  /\ DOMAIN Taken(n) = ({chunked} \ {NoReq}) \cup FirstQueued(n)
         /\ chunked # NoReq => Taken(n)[chunked] = ChunkTokens
         /\ \A i \in 1..n : Taken(n)[waiting[i]] = Min({Lengths[i], ChunkLeft(i)})
<1> DEFINE pos(r) == CHOOSE j \in 1..n : waiting[j] = r
<1>2. Len(waiting) \in Nat /\ \A i \in 1..n : i \in 1..Len(waiting)
  BY QueuedRequests
<1>3. \A i \in 1..n : waiting[i] \in FirstQueued(n) /\ waiting[i] # chunked
  BY <1>2, QueuedRequests DEF FirstQueued
<1>4. /\ DOMAIN Taken(n) = ({chunked} \ {NoReq}) \cup FirstQueued(n)
      /\ chunked # NoReq => Taken(n)[chunked] = ChunkTokens
      /\ \A r \in FirstQueued(n) : r # chunked => Taken(n)[r] = Min({ExtendLen(r), ChunkLeft(pos(r))})
  BY DEF Taken
<1>5. ASSUME NEW i \in 1..n PROVE pos(waiting[i]) = i
  <2>1. \A j \in 1..n : waiting[j] = waiting[i] => j = i
    BY <1>2, QueuedRequests DEF Inv, QueuedOnce
  <2> QED
    BY <2>1
<1>6. ASSUME NEW i \in 1..n PROVE Taken(n)[waiting[i]] = Min({Lengths[i], ChunkLeft(i)})
  <2>1. Taken(n)[waiting[i]] = Min({ExtendLen(waiting[i]), ChunkLeft(pos(waiting[i]))})
    BY <1>3, <1>4
  <2>2. Lengths[i] = ExtendLen(waiting[i])
    BY <1>2, QueuedRequests
  <2> HIDE DEF pos
  <2> QED
    BY <2>1, <2>2, <1>5
<1> QED
  BY <1>4, <1>6

(* The queue without its first n requests.                                 *)
LEMMA RestOfQueue ==
  ASSUME Inv, NEW n \in 0..Len(waiting)
  PROVE  LET rest == SubSeq(waiting, n + 1, Len(waiting))
         IN  /\ rest \in Seq(Reqs)
             /\ \A i, j \in DOMAIN rest : rest[i] = rest[j] => i = j
             /\ \A r : r \in ToSet(rest) <=> r \in ToSet(waiting) /\ r \notin FirstQueued(n)
             /\ FirstQueued(n) \subseteq ToSet(waiting)
<1> DEFINE m == Len(waiting)
           rest == SubSeq(waiting, n + 1, m)
<1>1. m \in Nat /\ DOMAIN waiting = 1..m /\ \A i \in 1..m : waiting[i] \in Reqs
  BY DEF Inv, Types
<1>2. \A i, j \in 1..m : waiting[i] = waiting[j] => i = j
  BY <1>1 DEF Inv, QueuedOnce
<1>3. n \in 0..m
  OBVIOUS
<1> HIDE DEF m
<1>4. n + 1 \in Int /\ \A i \in n + 1..m : waiting[i] \in Reqs
  BY <1>1, <1>3
<1>5. /\ rest \in Seq(Reqs)
      /\ Len(rest) = IF n + 1 <= m THEN m - (n + 1) + 1 ELSE 0
      /\ \A i \in 1..m - (n + 1) + 1 : rest[i] = waiting[n + 1 + i - 1]
  BY <1>1, <1>4, SubSeqProperties
<1> HIDE DEF rest
<1>6. Len(rest) = m - n /\ DOMAIN rest = 1..m - n /\ \A i \in 1..m - n : rest[i] = waiting[n + i]
  <2>1. Len(rest) = m - n
    BY <1>1, <1>3, <1>5
  <2>2. ASSUME NEW i \in 1..m - n PROVE rest[i] = waiting[n + i]
    <3>1. i \in 1..m - (n + 1) + 1 /\ n + 1 + i - 1 = n + i
      BY <1>1, <1>3
    <3> QED
      BY <3>1, <1>5
  <2> QED
    BY <1>5, <2>1, <2>2
<1>7. \A i \in 1..m - n : n + i \in 1..m
  BY <1>1, <1>3
<1>8. \A i, j \in DOMAIN rest : rest[i] = rest[j] => i = j
  BY <1>1, <1>2, <1>3, <1>6, <1>7
<1>9. ASSUME NEW r PROVE r \in ToSet(rest) <=> r \in ToSet(waiting) /\ r \notin FirstQueued(n)
  <2>1. ASSUME NEW i \in 1..m - n, r = rest[i]
        PROVE  r \in ToSet(waiting) /\ r \notin FirstQueued(n)
    <3>1. r = waiting[n + i] /\ n + i \in 1..m
      BY <2>1, <1>6, <1>7
    <3>2. \A j \in 1..n : j \in 1..m /\ j # n + i
      BY <1>1, <1>3
    <3>3. r \notin FirstQueued(n)
      BY <3>1, <3>2, <1>2 DEF FirstQueued
    <3> QED
      BY <3>1, <3>3, <1>1 DEF ToSet
  <2>2. ASSUME NEW i \in 1..m, r = waiting[i], r \notin FirstQueued(n)
        PROVE  \E j \in 1..m - n : r = rest[j]
    <3>1. i \notin 1..n
      BY <2>2 DEF FirstQueued
    <3>2. PICK j \in 1..m - n : i = n + j
      <4>1. i - n \in 1..m - n /\ i = n + (i - n)
        BY <3>1, <1>1, <1>3
      <4> QED
        BY <4>1
    <3> QED
      BY <2>2, <3>2, <1>6
  <2>3. r \in ToSet(rest) <=> \E j \in 1..m - n : r = rest[j]
    BY <1>6 DEF ToSet
  <2>4. r \in ToSet(waiting) <=> \E i \in 1..m : r = waiting[i]
    BY <1>1 DEF ToSet
  <2> QED
    BY <2>1, <2>2, <2>3, <2>4
<1>10. FirstQueued(n) \subseteq ToSet(waiting)
  BY <1>1, <1>3 DEF FirstQueued, ToSet
<1> QED
  BY <1>5, <1>8, <1>9, <1>10 DEF rest, m

(* The memory once the batch has been allocated.                           *)
PrefillMemory(taken) ==
  [r \in Reqs |-> IF r \in DOMAIN taken THEN held[r] + taken[r] ELSE held[r]]

(* The tokens of the i-th admitted request.                                *)
TakenAt(n) == [i \in 1..n |-> Taken(n)[waiting[i]]]

(* The requests of a prefill batch, each with at least one token.          *)
LEMMA PrefillBatch ==
  ASSUME Inv, NEW ratio \in Ratios, NEW n, n = Admitted(ratio)
  PROVE  /\ n \in 0..Len(waiting) /\ Len(waiting) \in Nat /\ \A i \in 1..n : i \in 1..Len(waiting)
         /\ DOMAIN Taken(n) = ({chunked} \ {NoReq}) \cup FirstQueued(n)
         /\ DOMAIN Taken(n) \in SUBSET Reqs
         /\ \A r \in DOMAIN Taken(n) :
              /\ status[r] = "live" /\ out[r] < MaxNewTokens[r]
              /\ r \notin running /\ r \notin last \ {chunked}
              /\ Taken(n)[r] \in 1..ExtendLen(r) /\ ExtendLen(r) \in Nat
         /\ chunked # NoReq => Taken(n)[chunked] = ChunkTokens
         /\ \A i \in 1..n : /\ TakenAt(n)[i] \in 1..Lengths[i]
                            /\ i # n => TakenAt(n)[i] = Lengths[i]
         /\ Enumerates(waiting, 1..n, FirstQueued(n))
<1> USE DEF Inv
<1>1. n \in 0..Len(waiting) /\ Len(waiting) \in Nat /\ \A i \in 1..n : i \in 1..Len(waiting)
  BY AdmittedProperties
<1>2. /\ DOMAIN Taken(n) = ({chunked} \ {NoReq}) \cup FirstQueued(n)
      /\ chunked # NoReq => Taken(n)[chunked] = ChunkTokens
      /\ \A i \in 1..n : Taken(n)[waiting[i]] = Min({Lengths[i], ChunkLeft(i)})
  BY <1>1, TakenProperties
<1>3. \A i \in 1..n : /\ TakenAt(n)[i] \in 1..Lengths[i]
                      /\ i # n => TakenAt(n)[i] = Lengths[i]
  BY <1>2, CutProperties DEF TakenAt
<1>4. \A i \in 1..n : /\ waiting[i] \in Reqs /\ waiting[i] \in ToSet(waiting)
                      /\ TakenAt(n)[i] = Taken(n)[waiting[i]]
                      /\ Lengths[i] = ExtendLen(waiting[i]) /\ Lengths[i] \in Nat
  BY <1>1, QueuedRequests DEF TakenAt
<1>5. chunked # NoReq => /\ chunked \in Reqs /\ ExtendLen(chunked) \in Nat
                         /\ ChunkTokens \in 1..ExtendLen(chunked)
  BY ChunkTokensProperties
<1>6. ASSUME NEW r \in DOMAIN Taken(n)
      PROVE  /\ r \in Reqs /\ status[r] = "live" /\ out[r] < MaxNewTokens[r]
             /\ r \notin running /\ r \notin last \ {chunked}
             /\ Taken(n)[r] \in 1..ExtendLen(r) /\ ExtendLen(r) \in Nat
  <2>1. CASE r = chunked /\ chunked # NoReq
    BY <2>1, <1>2, <1>5 DEF Placed, InBatches
  <2>2. ASSUME NEW i \in 1..n, r = waiting[i]
        PROVE  /\ r \in Reqs /\ r \in ToSet(waiting)
               /\ Taken(n)[r] \in 1..ExtendLen(r) /\ ExtendLen(r) \in Nat
    BY <2>2, <1>3, <1>4
  <2>3. CASE r \in FirstQueued(n)
    <3>1. /\ r \in Reqs /\ r \in ToSet(waiting)
          /\ Taken(n)[r] \in 1..ExtendLen(r) /\ ExtendLen(r) \in Nat
      BY <2>2, <2>3 DEF FirstQueued
    <3> QED
      BY <3>1 DEF Placed, InBatches
  <2> QED
    BY <2>1, <2>3, <1>2
<1>7. Enumerates(waiting, 1..n, FirstQueued(n))
  BY <1>1, QueuedRequests DEF Enumerates, FirstQueued, QueuedOnce
<1> QED
  BY <1>1, <1>2, <1>3, <1>6, <1>7

(* What the batch takes in all.                                            *)
LEMMA PrefillSum ==
  ASSUME Inv, NEW ratio \in Ratios, NEW n, n = Admitted(ratio)
  PROVE  /\ \A r \in Reqs : PrefillMemory(Taken(n))[r] \in Nat
         /\ SumOver(PrefillMemory(Taken(n)), Reqs) = Used + ChunkTokens + SumOver(TakenAt(n), 1..n)
<1> DEFINE taken == Taken(n)
           W == FirstQueued(n)
           C == {chunked} \ {NoReq}
           B == DOMAIN taken
           mem == PrefillMemory(taken)
           t == [r \in Reqs |-> IF r \in B THEN taken[r] ELSE 0]
<1>1. /\ n \in Nat /\ B = C \cup W /\ B \in SUBSET Reqs
      /\ \A r \in B : taken[r] \in Nat
      /\ \A i \in 1..n : waiting[i] \in W /\ waiting[i] \in Reqs /\ waiting[i] # chunked
      /\ Enumerates(waiting, 1..n, W)
  <2>1. /\ n \in 0..Len(waiting) /\ Len(waiting) \in Nat /\ \A i \in 1..n : i \in 1..Len(waiting)
        /\ B = C \cup W /\ B \in SUBSET Reqs
        /\ \A r \in B : taken[r] \in 1..ExtendLen(r)
        /\ Enumerates(waiting, 1..n, W)
    BY PrefillBatch
  <2>2. \A i \in 1..n : waiting[i] \in Reqs /\ waiting[i] # chunked
    BY <2>1, QueuedRequests
  <2> HIDE DEF taken, B, C
  <2> QED
    BY <2>1, <2>2 DEF FirstQueued
<1>2. IsFiniteSet(Reqs) /\ IsFiniteSet(C) /\ IsFiniteSet(W) /\ IsFiniteSet(B) /\ IsFiniteSet(Reqs \ B)
  <2>1. IsFiniteSet(Reqs)
    BY Numbers DEF Inv
  <2>2. C \in SUBSET Reqs /\ W \in SUBSET Reqs /\ Reqs \ B \in SUBSET Reqs
    BY <1>1
  <2> QED
    BY <1>1, <2>1, <2>2, FS_Subset
<1>3. \A r \in Reqs : held[r] \in Nat
  BY Numbers DEF Inv
<1>4. \A r \in Reqs : t[r] \in Nat /\ mem[r] \in Nat /\ mem[r] = held[r] + t[r]
  BY <1>1, <1>3 DEF PrefillMemory
<1>5. /\ \A r \in Reqs \ B : t[r] = 0
      /\ \A i \in 1..n : t[waiting[i]] = TakenAt(n)[i]
  BY <1>1 DEF TakenAt
<1>6. chunked # NoReq => C = {chunked} /\ t[chunked] = ChunkTokens
  BY <1>1, PrefillBatch
<1>7. chunked = NoReq => C = {} /\ ChunkTokens = 0
  BY ChunkTokensProperties
<1>8. C \cap W = {}
  BY <1>1 DEF Enumerates
<1> HIDE DEF taken, W, C, B, mem, t
<1>9. SumOver(mem, Reqs) = SumOver(held, Reqs) + SumOver(t, Reqs)
  BY <1>2, <1>3, <1>4, SumPlus
<1>10. SumOver(t, Reqs) = SumOver(t, B) + SumOver(t, Reqs \ B)
  <2>1. B \cap (Reqs \ B) = {} /\ B \cup (Reqs \ B) = Reqs
    BY <1>1
  <2>2. SumOver(t, B \cup (Reqs \ B)) = SumOver(t, B) + SumOver(t, Reqs \ B)
    BY <1>2, <1>4, <2>1, SumSplit
  <2> QED
    BY <2>1, <2>2, Zenon
<1>11. SumOver(t, Reqs \ B) = 0
  BY <1>5, SumZero
<1>12. SumOver(t, B) = SumOver(t, C) + SumOver(t, W)
  <2>1. SumOver(t, C \cup W) = SumOver(t, C) + SumOver(t, W)
    <3>1. \A r \in C \cup W : t[r] \in Nat
      BY <1>1, <1>4
    <3> QED
      BY <1>2, <1>8, <3>1, SumSplit
  <2> QED
    BY <1>1, <2>1, Zenon
<1>13. SumOver(t, C) = ChunkTokens
  <2>1. CASE chunked = NoReq
    BY <2>1, <1>7, SumEmpty
  <2>2. CASE chunked # NoReq
    <3>1. t[chunked] \in Nat
      BY <2>2, <1>6, ChunkTokensProperties
    <3>2. SumOver(t, {chunked}) = t[chunked]
      BY <3>1, SumSingleton
    <3> QED
      BY <2>2, <1>6, <3>2, Zenon
  <2> QED
    BY <2>1, <2>2
<1>14. SumOver(t, W) = SumOver(TakenAt(n), 1..n)
  <2>1. IsFiniteSet(1..n)
    BY <1>1, FS_Interval
  <2>2. \A i \in 1..n : TakenAt(n)[i] = t[waiting[i]] /\ TakenAt(n)[i] \in Nat
    BY <1>1, <1>4, <1>5
  <2> QED
    BY <1>1, <2>1, <2>2, SumReindex
<1>15. SumOver(t, B) \in Nat /\ SumOver(t, C) \in Nat /\ SumOver(t, W) \in Nat
  <2>1. (\A r \in B : t[r] \in Nat) /\ (\A r \in C : t[r] \in Nat) /\ (\A r \in W : t[r] \in Nat)
    BY <1>1, <1>4
  <2> QED
    BY <1>2, <2>1, SumType
<1>16. Used = SumOver(held, Reqs) /\ Used \in Nat
  BY Numbers DEF Used, HeldBy, Inv
<1>17. SumOver(mem, Reqs) = Used + ChunkTokens + SumOver(TakenAt(n), 1..n)
  BY <1>9, <1>10, <1>11, <1>12, <1>13, <1>14, <1>15, <1>16
<1> QED
  BY <1>4, <1>17 DEF mem, taken

(* The batch fits, and so does the rest of the one prompt it may have cut. *)
LEMMA PrefillFits ==
  ASSUME Inv, NEW ratio \in Ratios, NEW n, n = Admitted(ratio), Tried
  PROVE  LET taken == Taken(n)
             B == DOMAIN taken
             mem == PrefillMemory(taken)
             cut == {r \in B : taken[r] < ExtendLen(r)}
         IN  /\ SumOver(mem, Reqs) \in Nat /\ SumOver(mem, Reqs) <= MaxTotal
             /\ \A r, q \in cut : r = q
             /\ \A r \in cut : /\ Reserve(r) - taken[r] <= MaxTotal - SumOver(mem, Reqs)
                               /\ IsFiniteSet(Merged \cup (B \ {r}))
                               /\ Cardinality(Merged \cup (B \ {r})) < MaxRunning
<1> DEFINE taken == Taken(n)
           W == FirstQueued(n)
           C == {chunked} \ {NoReq}
           B == DOMAIN taken
           mem == PrefillMemory(taken)
           cut == {r \in B : taken[r] < ExtendLen(r)}
           T == SumOver(TakenAt(n), 1..n)
<1>1. /\ n \in 0..Len(waiting) /\ n \in Nat /\ Len(waiting) \in Nat
      /\ \A i \in 1..n : i \in 1..Len(waiting)
      /\ \A i \in 1..n : HasRoom(i) /\ Fits(i, ratio)
  BY AdmittedProperties DEF Inv
<1>2. /\ B = C \cup W /\ B \in SUBSET Reqs
      /\ \A i \in 1..n : /\ TakenAt(n)[i] \in 1..Lengths[i]
                         /\ i # n => TakenAt(n)[i] = Lengths[i]
      /\ Enumerates(waiting, 1..n, W)
      /\ chunked # NoReq => taken[chunked] = ChunkTokens
  BY PrefillBatch
<1>3. SumOver(mem, Reqs) = Used + ChunkTokens + T
  BY PrefillSum
<1>4. /\ ChunkTokens \in Nat
      /\ chunked = NoReq => ChunkTokens = 0
      /\ chunked # NoReq => /\ chunked \in Reqs /\ ExtendLen(chunked) \in Nat
                            /\ ChunkTokens <= ExtendLen(chunked)
                            /\ ChunkTokens < ExtendLen(chunked) => n = 0
  BY ChunkTokensProperties, CutProperties
<1>5. /\ Used \in Nat /\ MaxTotal \in Nat /\ Available = MaxTotal - Used /\ Used <= MaxTotal
      /\ chunked # NoReq => /\ Reserve(chunked) = ExtendLen(chunked) + Clipped(MaxNewTokens[chunked])
                            /\ Clipped(MaxNewTokens[chunked]) \in Nat
                            /\ Reserve(chunked) <= Available
  BY <1>4, Numbers DEF Inv, ChunkFits
<1>6. n = 0 => T = 0
  <2>1. n = 0 => 1..n = {}
    BY <1>1
  <2> QED
    BY <2>1, SumEmpty
<1>7. n # 0 => /\ T \in Nat /\ n \in 1..n
               /\ Reserves[n] \in Nat /\ TakenAt(n)[n] \in Nat /\ TakenAt(n)[n] <= Reserves[n]
               /\ Reserves[n] - TakenAt(n)[n] <= MaxTotal - (Used + ChunkTokens + T)
               /\ Used + ChunkTokens + T <= MaxTotal
  <2> SUFFICES ASSUME n # 0
               PROVE  /\ T \in Nat /\ n \in 1..n
                      /\ Reserves[n] \in Nat /\ TakenAt(n)[n] \in Nat /\ TakenAt(n)[n] <= Reserves[n]
                      /\ Reserves[n] - TakenAt(n)[n] <= MaxTotal - (Used + ChunkTokens + T)
                      /\ Used + ChunkTokens + T <= MaxTotal
    OBVIOUS
  <2>1. n \in 1..n /\ n \in Nat \ {0}
    BY <1>1
  <2>2. \A i \in 1..n : TakenAt(n)[i] \in Nat /\ Lengths[i] \in Nat
    BY <1>1, <1>2, QueuedRequests
  <2>3. T = SumOver(TakenAt(n), 1..n-1) + TakenAt(n)[n]
    BY <2>1, <2>2, SumUpTo
  <2>4. SumOver(TakenAt(n), 1..n-1) = SumOver(Lengths, 1..n-1)
    <3>1. \A i \in 1..n-1 : TakenAt(n)[i] = Lengths[i]
      BY <1>2, <2>1
    <3> QED
      BY <3>1, SumCong
  <2>5. /\ SumOver(Lengths, 1..n-1) \in Nat /\ SumOver(Reserves, 1..n-1) \in Nat
        /\ SumOver(Lengths, 1..n-1) <= SumOver(Reserves, 1..n-1)
    BY <1>1, <2>1, QueueSums
  <2>6. ChunkTokens + SumOver(Reserves, 1..n-1) + Reserves[n] < Available
    BY <1>1, <2>1, FitsMeans
  <2>7. Reserves[n] \in Nat /\ Lengths[n] <= Reserves[n] /\ Lengths[n] \in Nat
    BY <1>1, <2>1, QueuedRequests
  <2>8. TakenAt(n)[n] \in Nat /\ TakenAt(n)[n] <= Lengths[n]
    BY <1>2, <2>1, <2>7
  <2> DEFINE before == SumOver(Lengths, 1..n-1)
             kept == SumOver(Reserves, 1..n-1)
             t == TakenAt(n)[n]
             reserve == Reserves[n]
  <2>9. T = before + t
    BY <2>3, <2>4, Zenon
  <2>10. /\ before \in Nat /\ kept \in Nat /\ t \in Nat /\ reserve \in Nat
         /\ before <= kept /\ t <= reserve /\ ChunkTokens + kept + reserve < Available
    BY <2>5, <2>6, <2>7, <2>8
  <2> HIDE DEF T, before, kept, t, reserve
  <2>11. /\ T \in Nat
         /\ reserve - t <= MaxTotal - (Used + ChunkTokens + T)
         /\ Used + ChunkTokens + T <= MaxTotal
    BY <1>4, <1>5, <2>9, <2>10
  <2> QED
    BY <2>1, <2>10, <2>11 DEF t, reserve
<1>8. SumOver(mem, Reqs) \in Nat /\ SumOver(mem, Reqs) <= MaxTotal
  <2>1. Used + ChunkTokens + T \in Nat /\ Used + ChunkTokens + T <= MaxTotal
    <3> HIDE DEF T
    <3> QED
      BY <1>4, <1>5, <1>6, <1>7
  <2> HIDE DEF T, mem
  <2> QED
    BY <1>3, <2>1
<1>9. ASSUME NEW r \in cut
      PROVE  \/ r = chunked /\ n = 0 /\ chunked # NoReq
             \/ n # 0 /\ r = waiting[n]
  <2>1. CASE r = chunked /\ chunked # NoReq
    BY <2>1, <1>2, <1>4
  <2>2. ASSUME NEW i \in 1..n, r = waiting[i] PROVE i = n
    <3>1. Lengths[i] = ExtendLen(r) /\ TakenAt(n)[i] = taken[r]
      BY <2>2, <1>1, QueuedRequests DEF TakenAt
    <3>2. taken[r] < ExtendLen(r)
      OBVIOUS
    <3>3. Lengths[i] \in Nat
      BY <1>1, QueuedRequests
    <3> HIDE DEF taken
    <3> QED
      BY <3>1, <3>2, <3>3, <1>2
  <2>3. r \in C \cup W
    BY <1>2
  <2>4. CASE r \in W
    <3>1. PICK i \in 1..n : r = waiting[i]
      BY <2>4 DEF FirstQueued
    <3> QED
      BY <3>1, <2>2, <1>1
  <2> QED
    BY <2>1, <2>3, <2>4
<1>10. \A r, q \in cut : r = q
  BY <1>9
<1>11. ASSUME NEW r \in cut PROVE Reserve(r) - taken[r] <= MaxTotal - SumOver(mem, Reqs)
  <2>1. CASE r = chunked /\ n = 0 /\ chunked # NoReq
    <3>1. SumOver(mem, Reqs) = Used + ChunkTokens
      <4> HIDE DEF mem, T
      <4> QED
        BY <2>1, <1>3, <1>4, <1>5, <1>6
    <3>2. taken[r] = ChunkTokens
      BY <2>1, <1>2
    <3> HIDE DEF mem, taken
    <3> QED
      BY <2>1, <3>1, <3>2, <1>4, <1>5
  <2>2. CASE n # 0 /\ r = waiting[n]
    <3>1. Reserve(r) = Reserves[n] /\ taken[r] = TakenAt(n)[n]
      BY <2>2, <1>1, <1>7, QueuedRequests DEF TakenAt
    <3> HIDE DEF mem, taken, T
    <3> QED
      BY <2>2, <3>1, <1>3, <1>7
  <2> QED
    BY <2>1, <2>2, <1>9
<1>12. ASSUME NEW r \in cut
       PROVE  /\ IsFiniteSet(Merged \cup (B \ {r}))
              /\ Cardinality(Merged \cup (B \ {r})) < MaxRunning
  <2>1. IsFiniteSet(Merged) /\ Cardinality(Merged) \in Nat
    BY MergedProperties DEF Inv
  <2>2. CASE r = chunked /\ n = 0 /\ chunked # NoReq
    <3>1. W = {}
      BY <2>2, <1>1 DEF FirstQueued
    <3>2. Merged \cup (B \ {r}) = Merged
      BY <2>2, <3>1, <1>2
    <3>3. Cardinality(Merged) < MaxRunning
      BY DEF Tried
    <3> QED
      BY <2>1, <3>2, <3>3, Zenon
  <2>3. CASE n # 0 /\ r = waiting[n]
    <3>1. IsFiniteSet(W) /\ Cardinality(W) = n
      <4>1. IsFiniteSet(1..n) /\ Cardinality(1..n) = n
        BY <1>1, FS_Interval
      <4>2. Enumerates(waiting, 1..n, W)
        BY <1>2
      <4> HIDE DEF W
      <4>3. IsFiniteSet(W) /\ Cardinality(W) = Cardinality(1..n)
        BY <4>1, <4>2, EnumeratedCount
      <4> QED
        BY <4>1, <4>3
    <3> DEFINE w == IF chunked = NoReq THEN 0 ELSE 1
    <3>2. IsFiniteSet(C) /\ Cardinality(C) = w
      <4>1. CASE chunked = NoReq
        <5>1. C = {} /\ w = 0
          BY <4>1
        <5> HIDE DEF C, w
        <5> QED
          BY <5>1, FS_EmptySet, Zenon
      <4>2. CASE chunked # NoReq
        <5>1. C = {chunked} /\ w = 1
          BY <4>2
        <5> HIDE DEF C, w
        <5> QED
          BY <5>1, FS_Singleton, Zenon
      <4> QED
        BY <4>1, <4>2
    <3>3. r \in W /\ r \in B
      BY <2>3, <1>1 DEF FirstQueued
    <3> HIDE DEF W, C, B
    <3>4. IsFiniteSet(C \cup W) /\ Cardinality(C \cup W) = w + n - Cardinality(C \cap W)
      BY <3>1, <3>2, FS_Union
    <3>5. Cardinality(C \cap W) \in Nat
      BY <3>2, FS_Intersection, FS_CardinalityType
    <3>6. IsFiniteSet(B) /\ Cardinality(B) <= w + n /\ Cardinality(B) \in Nat
      <4>1. IsFiniteSet(C \cup W) /\ Cardinality(C \cup W) <= w + n /\ Cardinality(C \cup W) \in Nat
        BY <1>1, <3>4, <3>5, FS_CardinalityType
      <4> QED
        BY <4>1, <1>2, Zenon
    <3> DEFINE D == B \ {r}
    <3>7. IsFiniteSet(D) /\ Cardinality(D) = Cardinality(B) - 1 /\ Cardinality(D) \in Nat
      BY <3>3, <3>6, FS_RemoveElement, FS_CardinalityType
    <3> HIDE DEF D
    <3>8. IsFiniteSet(Merged \cup D) /\ Cardinality(Merged \cup D) <= Cardinality(Merged) + Cardinality(D)
      <4>1. /\ IsFiniteSet(Merged \cup D)
            /\ Cardinality(Merged \cup D) = Cardinality(Merged) + Cardinality(D) - Cardinality(Merged \cap D)
        BY <2>1, <3>7, FS_Union
      <4>2. Cardinality(Merged \cap D) \in Nat
        BY <2>1, FS_Intersection, FS_CardinalityType
      <4> QED
        BY <4>1, <4>2, <2>1, <3>7
    <3>9. Cardinality(Merged) + (w + n - 1) < MaxRunning
      <4>1. HasRoom(n)
        BY <1>1, <2>3, <1>7
      <4> QED
        BY <4>1, <1>1, <2>1 DEF HasRoom, TakenBefore
    <3>10. Cardinality(Merged \cup D) < MaxRunning
      <4>1. Cardinality(Merged \cup D) \in Nat /\ MaxRunning \in Nat
        BY <3>8, FS_CardinalityType, Numbers DEF Inv
      <4> QED
        BY <4>1, <1>1, <2>1, <3>6, <3>7, <3>8, <3>9
    <3> QED
      BY <3>8, <3>10 DEF D
  <2> QED
    BY <2>2, <2>3, <1>9
<1> QED
  BY <1>8, <1>10, <1>11, <1>12

(* A prefill round: the batch, its allocation and its results.             *)
LEMMA PrefillInv ==
  ASSUME Inv, NEW ratio \in Ratios, PrefillRound(ratio)
  PROVE  Inv'
<1> USE DEF Inv
<1> DEFINE n == Admitted(ratio)
           taken == Taken(n)
           B == DOMAIN taken
           mem == PrefillMemory(taken)
           cut == {r \in B : taken[r] < ExtendLen(r)}
           K == B \ cut
           rest == SubSeq(waiting, n + 1, Len(waiting))
<1>1. /\ Tried /\ waiting' = rest /\ running' = Merged /\ last' = B
      /\ full' \in BOOLEAN /\ to_abort' = to_abort
      /\ chunked' = IF cut = {} THEN NoReq ELSE CHOOSE r \in cut : TRUE
  BY DEF PrefillRound
<1>2. PICK eos \in SUBSET K : Process(K, eos, mem)
  BY DEF PrefillRound, PrefillMemory
<1>3. /\ n \in 0..Len(waiting)
      /\ B = ({chunked} \ {NoReq}) \cup FirstQueued(n) /\ B \in SUBSET Reqs
      /\ \A r \in B : /\ status[r] = "live" /\ out[r] < MaxNewTokens[r]
                      /\ r \notin running /\ r \notin last \ {chunked}
                      /\ taken[r] \in 1..ExtendLen(r) /\ ExtendLen(r) \in Nat
  BY PrefillBatch
<1>4. /\ rest \in Seq(Reqs)
      /\ \A i, j \in DOMAIN rest : rest[i] = rest[j] => i = j
      /\ \A r : r \in ToSet(rest) <=> r \in ToSet(waiting) /\ r \notin FirstQueued(n)
  BY <1>3, RestOfQueue
<1>5. /\ \A r \in Reqs : mem[r] \in Nat
      /\ SumOver(mem, Reqs) \in Nat /\ SumOver(mem, Reqs) <= MaxTotal
      /\ \A r, q \in cut : r = q
      /\ \A r \in cut : /\ Reserve(r) - taken[r] <= MaxTotal - SumOver(mem, Reqs)
                        /\ IsFiniteSet(Merged \cup (B \ {r}))
                        /\ Cardinality(Merged \cup (B \ {r})) < MaxRunning
  BY <1>1, PrefillSum, PrefillFits
<1>6. /\ \A r \in B : mem[r] = held[r] + taken[r]
      /\ \A r \in Reqs \ B : mem[r] = held[r]
      /\ \A r \in K : taken[r] = ExtendLen(r)
      /\ \A r \in cut : taken[r] < ExtendLen(r)
  <2>1. \A r \in B : mem[r] = held[r] + taken[r]
    BY <1>3 DEF PrefillMemory
  <2>2. \A r \in Reqs \ B : mem[r] = held[r]
    BY DEF PrefillMemory
  <2> HIDE DEF taken, mem
  <2>3. \A r \in K : taken[r] = ExtendLen(r)
    BY <1>3
  <2> QED
    BY <2>1, <2>2, <2>3
<1>7. cut \subseteq B /\ K \subseteq B /\ \A r \in B : r \in K <=> r \notin cut
  OBVIOUS
<1>8. chunked' \in cut \/ (cut = {} /\ chunked' = NoReq)
  <2> HIDE DEF cut
  <2> QED
    BY <1>1
<1>9. \A r \in cut : r = chunked'
  BY <1>5, <1>8
<1> HIDE DEF n, taken, B, mem, cut, K, rest
<1>10. /\ peak' \in Nat /\ peak' <= MaxTotal
       /\ Used' <= SumOver(mem, Reqs) /\ Used' <= MaxTotal /\ Used' \in Nat
       /\ status' \in [Reqs -> {"new", "live", "finished", "aborted"}]
       /\ \A r \in Reqs : held'[r] \in Nat /\ out'[r] \in 0..MaxNewTokens[r]
       /\ \A r \in Reqs \ K : out'[r] = out[r] /\ status'[r] = status[r] /\ held'[r] = mem[r]
       /\ \A r \in K : /\ out'[r] = out[r] + 1
                       /\ \/ status'[r] = "finished" /\ held'[r] = 0
                          \/ status'[r] = "live" /\ held'[r] = mem[r] /\ out'[r] < MaxNewTokens[r]
  <2>1. K \in SUBSET Reqs
    BY <1>3, <1>7
  <2>2. \A r \in K : status[r] = "live" /\ out[r] < MaxNewTokens[r]
    BY <1>3, <1>7
  <2> QED
    BY <1>2, <1>5, <2>1, <2>2, ProcessFits
<1>11. \A r : r \in ToSet(waiting)' <=> r \in ToSet(waiting) /\ r \notin FirstQueued(n)
  BY <1>1, <1>4 DEF ToSet
<1>12. \A r \in Reqs : r \in FirstQueued(n) \/ r = chunked <=> r \in B
  <2>1. chunked # NoReq => chunked \in B
    BY <1>3
  <2> QED
    BY <1>3, <2>1, Numbers
<1>13. \A r \in Reqs : r \in Merged <=> \/ r \in running
                                        \/ r \in last \ {chunked} /\ status[r] # "finished"
  BY DEF Merged, Unfinished, Types
<1>14. Types'
  <2>1. Merged \in SUBSET Reqs
    BY MergedProperties
  <2>2. chunked' \in Reqs \cup {NoReq}
    BY <1>3, <1>7, <1>8
  <2> QED
    BY <1>1, <1>3, <1>4, <1>10, <2>1, <2>2 DEF Types
<1>15. chunked' # NoReq => chunked' \in Reqs /\ chunked' \in cut
  BY <1>3, <1>7, <1>8
<1>16. \A r \in Reqs : r \notin cut => r # chunked'
  BY <1>8, Numbers
<1>17. \A r \in Reqs : r \in Merged => r \notin B
  BY <1>3, <1>13
<1>18. Placed'
  <2> SUFFICES ASSUME NEW r \in Reqs
               PROVE  /\ status'[r] = "live" =>
                           /\ r \in ToSet(waiting)' \/ r = chunked' \/ r \in B \ {chunked'} \/ r \in Merged
                           /\ r \in ToSet(waiting)' => r # chunked' /\ r \notin B /\ r \notin Merged
                           /\ r \in Merged => r \notin B /\ r # chunked'
                      /\ status'[r] # "live" => held'[r] = 0 /\ r \notin ToSet(waiting)' /\ r # chunked'
    BY <1>1 DEF Placed
  <2>1. CASE r \in B
    <3>1. r \notin ToSet(waiting)' /\ r \notin Merged
      <4>1. status[r] = "live" /\ (r \in FirstQueued(n) \/ r = chunked)
        BY <2>1, <1>3, <1>12
      <4> QED
        BY <2>1, <4>1, <1>11, <1>17 DEF Placed
    <3>2. r \in cut => status'[r] = "live"
      BY <2>1, <1>3, <1>7, <1>10
    <3>3. status'[r] # "live" => held'[r] = 0 /\ r \notin cut
      BY <2>1, <1>7, <1>10, <3>2
    <3> QED
      BY <2>1, <3>1, <3>3, <1>16
  <2>2. CASE r \notin B
    <3>1. status'[r] = status[r] /\ held'[r] = held[r] /\ r \notin cut
      BY <2>2, <1>6, <1>7, <1>10
    <3>2. r \notin FirstQueued(n) /\ r # chunked
      BY <2>2, <1>12
    <3>3. r # chunked'
      BY <3>1, <1>16
    <3> QED
      BY <2>2, <3>1, <3>2, <3>3, <1>11, <1>13 DEF Placed
  <2> QED
    BY <2>1, <2>2
<1>19. HoldsItsTokens'
  <2> SUFFICES ASSUME NEW r \in Reqs, status'[r] = "live"
               PROVE  /\ r \in ToSet(waiting)' => held'[r] = 0
                      /\ r \in Merged \/ r \in B \ {chunked'} => held'[r] = InputLen[r] + out'[r] - 1
                      /\ r = chunked' => held'[r] \in 1..InputLen[r] + out'[r] - 1
    BY <1>1 DEF HoldsItsTokens
  <2>1. InputLen[r] \in Nat /\ out[r] \in Nat /\ held[r] \in Nat /\ ExtendLen(r) = InputLen[r] + out[r] - held[r]
    BY Numbers DEF ExtendLen
  <2>2. CASE r \in B
    <3>1. r \notin Merged /\ taken[r] \in 1..ExtendLen(r) /\ mem[r] = held[r] + taken[r]
      BY <2>2, <1>3, <1>6, <1>17
    <3>2. r \notin ToSet(waiting)'
      BY <2>2, <1>18 , <1>1 DEF Placed
    <3>3. CASE r \in cut
      <4>1. r = chunked' /\ held'[r] = mem[r] /\ out'[r] = out[r] /\ taken[r] < ExtendLen(r)
        BY <3>3, <2>2, <1>6, <1>7, <1>9, <1>10
      <4> QED
        BY <2>1, <3>1, <3>2, <4>1
    <3>4. CASE r \in K
      <4>1. held'[r] = mem[r] /\ out'[r] = out[r] + 1 /\ taken[r] = ExtendLen(r)
        BY <3>4, <1>6, <1>10
      <4>2. r # chunked'
        BY <3>4, <2>2, <1>7, <1>16
      <4> QED
        BY <2>1, <3>1, <3>2, <4>1, <4>2
    <3> QED
      BY <2>2, <3>3, <3>4, <1>7
  <2>3. CASE r \notin B
    <3>1. status[r] = "live" /\ held'[r] = held[r] /\ out'[r] = out[r] /\ r # chunked'
      BY <2>3, <1>6, <1>7, <1>10, <1>16
    <3>2. r \in ToSet(waiting)' => r \in ToSet(waiting)
      BY <1>11
    <3>3. r \in Merged => r \in running \/ r \in last \ {chunked}
      BY <1>13
    <3> QED
      BY <2>3, <3>1, <3>2, <3>3 DEF HoldsItsTokens
  <2> QED
    BY <2>2, <2>3
<1>20. QueuedOnce'
  BY <1>1, <1>4, Zenon DEF QueuedOnce
<1>21. InBatches'
  <2>1. ASSUME NEW r \in Merged \cup B PROVE status'[r] \in {"live", "finished"}
    <3>1. r \in Reqs
      BY <1>3, MergedProperties
    <3>2. CASE r \in K
      BY <3>2, <1>10
    <3>3. CASE r \notin K
      <4>1. status'[r] = status[r]
        BY <3>1, <3>3, <1>10
      <4> QED
        BY <3>1, <4>1, <1>3, <1>13 DEF InBatches
    <3> QED
      BY <3>2, <3>3
  <2>2. ASSUME NEW r \in Reqs, status'[r] \in {"new", "live"} PROVE out'[r] < MaxNewTokens[r]
    BY <2>2, <1>10 DEF InBatches
  <2> QED
    BY <2>1, <2>2, <1>1 DEF InBatches
<1>22. chunked' # NoReq => Cardinality(Merged') < MaxRunning
  <2> SUFFICES ASSUME chunked' # NoReq PROVE Cardinality(Merged') < MaxRunning
    OBVIOUS
  <2> DEFINE M == Merged \cup (B \ {chunked'})
             next == Merged'
  <2>1. IsFiniteSet(M) /\ Cardinality(M) < MaxRunning
    BY <1>5, <1>15
  <2>2. next \subseteq M
    BY <1>1 DEF Merged, Unfinished
  <2> HIDE DEF M, next
  <2>3. /\ Cardinality(next) \in Nat /\ Cardinality(M) \in Nat /\ MaxRunning \in Nat
        /\ Cardinality(next) <= Cardinality(M)
    BY <2>1, <2>2, FS_Subset, FS_CardinalityType, Numbers
  <2>4. Cardinality(next) < MaxRunning
    BY <2>1, <2>3
  <2> QED
    BY <2>4 DEF next
<1>23. chunked' # NoReq => Reserve(chunked)' <= Available'
  <2> SUFFICES ASSUME NEW c \in Reqs, c = chunked', c \in cut
               PROVE  InputLen[c] + out'[c] - held'[c] + Clipped(MaxNewTokens[c]) <= MaxTotal - Used'
    BY <1>15 DEF Reserve, ExtendLen, Available
  <2>1. held'[c] = held[c] + taken[c] /\ out'[c] = out[c] /\ taken[c] \in Nat
    BY <1>3, <1>6, <1>7, <1>10
  <2>2. Reserve(c) = InputLen[c] + out[c] - held[c] + Clipped(MaxNewTokens[c])
    BY DEF Reserve, ExtendLen
  <2>3. Reserve(c) - taken[c] <= MaxTotal - SumOver(mem, Reqs)
    BY <1>5
  <2>4. /\ InputLen[c] \in Nat /\ Clipped(MaxNewTokens[c]) \in Nat /\ out[c] \in Nat /\ held[c] \in Nat
        /\ MaxTotal \in Nat /\ SumOver(mem, Reqs) \in Nat
        /\ Used' \in Nat /\ Used' <= SumOver(mem, Reqs)
    BY <1>5, <1>10, Numbers
  <2> QED
    BY <2>1, <2>2, <2>3, <2>4
<1>24. ChunkFits' /\ MemoryFits'
  BY <1>10, <1>22, <1>23 DEF ChunkFits, MemoryFits
<1> QED
  BY <1>14, <1>18, <1>19, <1>20, <1>21, <1>24
-----------------------------------------------------------------------------
(* Every step of the scheduler keeps the invariant.                        *)
LEMMA NextInv == Inv /\ [Next]_vars => Inv'
<1> SUFFICES ASSUME Inv, [Next]_vars PROVE Inv'
  OBVIOUS
<1>1. ASSUME NEW r \in Reqs, Receive(r) PROVE Inv'
  BY <1>1, ReceiveInv
<1>2. ASSUME NEW r \in Aborts, Abort(r) PROVE Inv'
  BY <1>2, AbortInv, LimitsAssumption
<1>3. ASSUME NEW ratio \in Ratios, PrefillRound(ratio) PROVE Inv'
  BY <1>3, PrefillInv
<1>4. ASSUME NEW ratio \in Ratios, DecodeRound(ratio) PROVE Inv'
  BY <1>4, DecodeInv
<1>5. ASSUME NEW ratio \in Ratios, IdleRound(ratio) PROVE Inv'
  BY <1>5, IdleInv
<1>6. CASE UNCHANGED vars
  BY <1>6 DEF vars, Inv, Types, Placed, HoldsItsTokens, QueuedOnce, InBatches, ChunkFits, MemoryFits,
              ToSet, Used, HeldBy, Available, Merged, Unfinished, Reserve, ExtendLen
<1> QED
  BY <1>1, <1>2, <1>3, <1>4, <1>5, <1>6 DEF Next, Iterate

(* The inductive invariant of the scheduler holds for any requests, memory,*)
(* chunk size and limits.                                                  *)
THEOREM SchedulerInv == Spec => []Inv
<1>1. Init => Inv
  BY InitInv
<1>2. Inv /\ [Next]_vars => Inv'
  BY NextInv
<1> QED
  BY <1>1, <1>2, PTL DEF Spec

(* The variables keep their types: in particular no request holds more than*)
(* its prompt and its outputs, and none samples more than max_new_tokens.  *)
THEOREM TypeCorrect == Spec => []TypeOK
<1>1. Inv => TypeOK
  BY InvTypeOK
<1> QED
  BY <1>1, SchedulerInv, PTL

(* No allocation of a prefill or a decode step can fail, whatever the      *)
(* ratio, the chunk size and the requests (within max_req_len).            *)
THEOREM AllocationsFit == Spec => []MemoryFits
<1>1. Inv => MemoryFits
  BY DEF Inv
<1> QED
  BY <1>1, SchedulerInv, PTL

(* A live request is in exactly one of the places the loop keeps it in.    *)
THEOREM OnePlacePerRequest == Spec => []NoRequestLost
<1>1. Inv => NoRequestLost
  BY PlacedMeans DEF Inv
<1> QED
  BY <1>1, SchedulerInv, PTL

(* What a live request holds is what its place says: nothing in the queue, *)
(* all but its last token once prefilled, a proper prefix while chunked.   *)
THEOREM HoldingsExact == Spec => []HoldsItsTokens
<1>1. Inv => HoldsItsTokens
  BY DEF Inv
<1> QED
  BY <1>1, SchedulerInv, PTL
=============================================================================
