---------------------- MODULE CheckpointRetention_proofs ----------------------
(***************************************************************************)
(* Proofs, for any limits, any accuracies and any number of saves and      *)
(* crashes, of what a training keeps of its checkpoints.                   *)
(***************************************************************************)
EXTENDS CheckpointRetention, FiniteSetTheorems, WellFoundedInduction, TLAPS

(* The first directory of the list that rotation deletes is on the list.   *)
LEMMA MinMember ==
  ASSUME NEW S \in SUBSET Nat, S # {}
  PROVE  Min(S) \in S
<1>1. PICK x \in S : \A y \in S : ~ (<<y, x>> \in OpToRel(<, Nat))
  BY NatLessThanWellFounded, WFMin, Zenon
<1>2. ASSUME NEW y \in S PROVE x <= y
  <2>1. ~(<<y, x>> \in {ss \in Nat \X Nat : ss[1] < ss[2]})
    BY <1>1 DEF OpToRel
  <2> QED
    BY <2>1
<1> QED
  BY <1>2 DEF Min

(* The directory of the step being saved exists until the rotation after   *)
(* it ends, which TypeOK alone does not say.                               *)
TypeInv == TypeOK /\ (pc \in {"save", "validate", "rotate", "delete"} => global_step \in 1..MaxStep)
                  /\ (pc \in {"save", "validate"} => global_step \in DOMAIN dirs)

(* A crash changes at most the directory at the head of the list, which    *)
(* loses some of its files.                                                *)
LEMMA CrashStep ==
  ASSUME TypeOK, Crash
  PROVE  /\ DOMAIN dirs' = DOMAIN dirs
         /\ \A q \in DOMAIN dirs :
              \/ dirs'[q] = dirs[q]
              \/ /\ q \in doomed /\ ~dirs'[q].whole
                 /\ dirs'[q] \in [metric : Metrics, whole : BOOLEAN, measured : Metrics]
                 /\ dirs'[q].metric \in {dirs[q].metric, NoMetric}
<1>1. CASE dirs' = dirs
  BY <1>1
<1>2. CASE dirs' # dirs
  <2>1. doomed # {} /\ doomed \in SUBSET Nat
    BY <1>2, LimitsAssumption DEF Crash, TypeOK
  <2>2. Min(doomed) \in doomed /\ Min(doomed) \in DOMAIN dirs
    BY <2>1, MinMember DEF TypeOK
  <2>3. PICK metric \in {dirs[Min(doomed)].metric, NoMetric} :
          dirs' = With(Min(doomed),
                       [dirs[Min(doomed)] EXCEPT !.metric = metric, !.whole = FALSE])
    BY <1>2 DEF Crash
  <2>4. dirs[Min(doomed)] \in [metric : Metrics, whole : BOOLEAN, measured : Metrics]
    BY <2>2 DEF TypeOK
  <2>5. /\ [dirs[Min(doomed)] EXCEPT !.metric = metric, !.whole = FALSE]
             \in [metric : Metrics, whole : BOOLEAN, measured : Metrics]
        /\ ~[dirs[Min(doomed)] EXCEPT !.metric = metric, !.whole = FALSE].whole
        /\ [dirs[Min(doomed)] EXCEPT !.metric = metric, !.whole = FALSE].metric = metric
    BY <2>4 DEF Metrics
  <2> QED
    BY <2>2, <2>3, <2>5 DEF With
<1> QED
  BY <1>1, <1>2

(* Types and the list of doomed directories: one step.                     *)
LEMMA TypeStep == TypeInv /\ [Next]_vars => TypeInv'
<1> SUFFICES ASSUME TypeInv, [Next]_vars PROVE TypeInv'
  OBVIOUS
<1> USE LimitsAssumption, AccuraciesAssumption DEF TypeInv, TypeOK, Metrics
<1>1. CASE BeginSave
  BY <1>1 DEF BeginSave, With, Dir
<1>2. CASE EndSave
  BY <1>2 DEF EndSave, With, Dir
<1>3. ASSUME NEW accuracy \in Accuracies, Validate(accuracy) PROVE TypeInv'
  BY <1>3 DEF Validate, With, Dir
<1>4. CASE Select
  BY <1>4 DEF Select
<1>5. CASE DeleteNext
  BY <1>5 DEF DeleteNext, Without
<1>6. CASE EndRotation
  BY <1>6 DEF EndRotation
<1>7. CASE Crash
  BY <1>7, CrashStep DEF Crash
<1>8. ASSUME NEW s \in 1..MaxStep, Resume(s) PROVE TypeInv'
  BY <1>8 DEF Resume, Resumable
<1>9. CASE Scratch
  BY <1>9 DEF Scratch
<1>10. CASE UNCHANGED vars
  BY <1>10 DEF vars
<1> QED
  BY <1>1, <1>2, <1>3, <1>4, <1>5, <1>6, <1>7, <1>8, <1>9, <1>10 DEF Next

(* TypeOK holds of every reachable state.                                  *)
THEOREM Typing == Spec => []TypeOK
<1>1. Init => TypeInv
  BY LimitsAssumption DEF Init, TypeInv, TypeOK, Metrics
<1>2. TypeInv => TypeOK
  BY DEF TypeInv
<1> QED
  BY <1>1, <1>2, TypeStep, PTL DEF Spec

(* The training has completed the save of step n and no later one: above n *)
(* there is at most the directory of a save that a crash cut short.        *)
Reached(n) ==
  /\ n = 0 \/ Resumable(n)
  /\ \A q \in DOMAIN dirs : q <= n + 1 /\ (q = n + 1 => ~dirs[q].whole)

(* LastSaveResumable is not inductive: a crash may come anywhere, and what *)
(* it leaves must be what a resumed training counts on.                    *)
ResumeInv ==
  /\ TypeInv
  /\ pc # "delete" => doomed = {}
  /\ pc = "train" => Reached(global_step)
  /\ pc = "save" => Reached(global_step - 1)
  /\ pc \in {"validate", "rotate", "delete"} =>
       /\ Resumable(global_step) /\ global_step \notin doomed
       /\ \A q \in DOMAIN dirs : q <= global_step
  /\ pc = "down" => \E n \in 0..MaxStep : Reached(n)

(* The newest checkpoint is never rotated away, if any recent one is kept. *)
LEMMA NewestIsRecent ==
  ASSUME RecentLimit > 0, NEW n \in DOMAIN dirs, \A q \in DOMAIN dirs : q <= n,
         DOMAIN dirs \subseteq Nat
  PROVE  n \in Recent
<1>1. {q \in DOMAIN dirs : q > n} = {}
  OBVIOUS
<1>2. Cardinality({q \in DOMAIN dirs : q > n}) = 0
  BY <1>1, FS_EmptySet
<1> QED
  BY <1>2 DEF Recent

(* ResumeInv is preserved by each step, crashes included.                  *)
LEMMA ResumeStep ==
  ASSUME RecentLimit > 0, "scratch" \notin Restarts
  PROVE  ResumeInv /\ [Next]_vars => ResumeInv'
<1> SUFFICES ASSUME ResumeInv, [Next]_vars PROVE ResumeInv'
  OBVIOUS
<1>0. TypeInv /\ TypeInv'
  BY TypeStep DEF ResumeInv
<1> USE <1>0, LimitsAssumption DEF ResumeInv, Resumable
<1>1. CASE BeginSave
  <2>1. Reached(global_step) /\ global_step' = global_step + 1 /\ pc' = "save"
    BY <1>1 DEF BeginSave
  <2>2. global_step \in Nat /\ DOMAIN dirs \subseteq Nat
    BY DEF TypeInv, TypeOK
  <2>3. /\ DOMAIN dirs' = DOMAIN dirs \cup {global_step + 1}
        /\ ~dirs'[global_step + 1].whole
        /\ \A q \in DOMAIN dirs : q # global_step + 1 => dirs'[q] = dirs[q]
    BY <1>1, <2>1 DEF BeginSave, With, Dir
  <2>4. /\ global_step = 0 \/ (global_step \in DOMAIN dirs' /\ dirs'[global_step].whole)
        /\ \A q \in DOMAIN dirs' : q <= global_step + 1
                                   /\ (q = global_step + 1 => ~dirs'[q].whole)
    BY <2>1, <2>2, <2>3 DEF Reached
  <2>5. global_step' - 1 = global_step
    BY <2>1, <2>2
  <2>6. Reached(global_step - 1)'
    BY <2>4, <2>5 DEF Reached
  <2> QED
    BY <1>1, <2>1, <2>6 DEF BeginSave
<1>2. CASE EndSave
  <2>1. /\ Reached(global_step - 1) /\ global_step \in Nat /\ DOMAIN dirs \subseteq Nat
        /\ global_step \in DOMAIN dirs
    BY <1>2 DEF EndSave, TypeInv, TypeOK
  <2>2. /\ DOMAIN dirs' = DOMAIN dirs /\ dirs'[global_step].whole
        /\ doomed' = doomed /\ doomed = {} /\ global_step' = global_step
        /\ pc' = "validate"
    BY <1>2, <2>1 DEF EndSave, With, Dir
  <2>3. \A q \in DOMAIN dirs : q <= global_step
    BY <2>1 DEF Reached
  <2> QED
    BY <2>1, <2>2, <2>3
<1>3. ASSUME NEW accuracy \in Accuracies, Validate(accuracy) PROVE ResumeInv'
  BY <1>3 DEF Validate, With, Dir, TypeInv, TypeOK
<1>4. CASE Select
  <2>1. global_step \in Recent
    BY <1>4, NewestIsRecent DEF Select, TypeInv, TypeOK
  <2> QED
    BY <1>4, <2>1 DEF Select
<1>5. CASE DeleteNext
  <2>1. doomed \in SUBSET Nat /\ doomed # {}
    BY <1>5 DEF DeleteNext, TypeInv, TypeOK
  <2>2. Min(doomed) \in doomed
    BY <2>1, MinMember
  <2> QED
    BY <1>5, <2>2 DEF DeleteNext, Without
<1>6. CASE EndRotation
  BY <1>6 DEF EndRotation, Reached, TypeInv, TypeOK
<1>7. CASE Crash
  <2>1. PICK n \in 0..MaxStep : Reached(n) /\ n \notin doomed
    <3>1. CASE pc = "save"
      BY <3>1 DEF TypeInv, TypeOK
    <3>2. CASE pc # "save"
      BY <1>7, <3>2 DEF Crash, Reached, TypeInv, TypeOK
    <3> QED
      BY <3>1, <3>2
  <2>2. Reached(n)'
    BY <1>7, <2>1, CrashStep DEF Reached, TypeInv
  <2> QED
    BY <1>7, <2>2 DEF Crash
<1>8. ASSUME NEW s \in 1..MaxStep, Resume(s) PROVE ResumeInv'
  <2>1. PICK n \in 0..MaxStep : Reached(n)
    BY <1>8 DEF Resume
  <2>2. s = n
    BY <1>8, <2>1 DEF Resume, Reached
  <2> QED
    BY <1>8, <2>1, <2>2 DEF Resume, Reached
<1>9. CASE Scratch
  <2>1. PICK n \in 0..MaxStep : Reached(n)
    BY <1>9 DEF Scratch
  <2>2. n = 0
    BY <1>9, <2>1 DEF Scratch, Reached
  <2> QED
    BY <1>9, <2>1, <2>2 DEF Scratch, Reached
<1>10. CASE UNCHANGED vars
  BY <1>10 DEF vars, Reached, TypeInv, TypeOK
<1> QED
  BY <1>1, <1>2, <1>3, <1>4, <1>5, <1>6, <1>7, <1>8, <1>9, <1>10 DEF Next

(* While training goes on, it can be resumed from the step it has reached, *)
(* whatever crashes came before (rotate_best_and_recent_checkpoints with   *)
(* at least one recent checkpoint, restarts by --resume_from_checkpoint).  *)
THEOREM Resumability ==
  ASSUME RecentLimit > 0, "scratch" \notin Restarts
  PROVE  Spec => []LastSaveResumable
<1>1. Init => ResumeInv
  BY LimitsAssumption DEF Init, ResumeInv, TypeInv, TypeOK, Metrics, Reached
<1>2. ResumeInv => LastSaveResumable
  BY DEF ResumeInv, Reached, LastSaveResumable
<1> QED
  BY <1>1, <1>2, ResumeStep, PTL DEF Spec
-----------------------------------------------------------------------------
(* The first k elements of a set in a total order, as a set of pairs.      *)
IsRanking(R, S) ==
  /\ \A s \in S : <<s, s>> \notin R
  /\ \A s, t \in S : s = t \/ <<s, t>> \in R \/ <<t, s>> \in R
  /\ \A s, t, u \in S : <<s, t>> \in R /\ <<t, u>> \in R => <<s, u>> \in R

Ahead(R, S, s) == {q \in S : <<q, s>> \in R}

TopOf(R, S, k) == {s \in S : Cardinality(Ahead(R, S, s)) < k}

(* There are at most k of them, and at least k ahead of every other        *)
(* element.                                                                *)
LEMMA TopProperties ==
  ASSUME NEW S, IsFiniteSet(S), NEW R, IsRanking(R, S), NEW k \in Nat
  PROVE  /\ Cardinality(TopOf(R, S, k)) \in Nat /\ Cardinality(TopOf(R, S, k)) <= k
         /\ \A s \in S \ TopOf(R, S, k) : Cardinality(Ahead(R, TopOf(R, S, k), s)) >= k
<1> DEFINE n == Cardinality(S)
           rank == [s \in S |-> Cardinality(Ahead(R, S, s))]
           T == TopOf(R, S, k)
<1>1. n \in Nat
  BY FS_CardinalityType
<1>2. ASSUME NEW s \in S
      PROVE  /\ Ahead(R, S, s) \in SUBSET S /\ s \notin Ahead(R, S, s)
             /\ IsFiniteSet(Ahead(R, S, s))
             /\ rank[s] = Cardinality(Ahead(R, S, s)) /\ rank[s] \in Nat /\ rank[s] < n
  <2> DEFINE A == Ahead(R, S, s)
  <2>1. A \in SUBSET S /\ s \notin A
    BY DEF Ahead, IsRanking
  <2>2. rank[s] = Cardinality(A)
    OBVIOUS
  <2> HIDE DEF A, rank
  <2>3. IsFiniteSet(A) /\ Cardinality(A) <= n /\ (n = Cardinality(A) => S = A)
    BY <2>1, FS_Subset
  <2>4. Cardinality(A) \in Nat /\ Cardinality(A) # n
    BY <2>1, <2>3, FS_CardinalityType
  <2>5. Cardinality(A) < n
    BY <1>1, <2>3, <2>4
  <2> QED
    BY <2>1, <2>2, <2>3, <2>4, <2>5 DEF A
<1>3. ASSUME NEW s \in S, NEW t \in S, <<s, t>> \in R PROVE rank[s] < rank[t]
  <2> DEFINE A == Ahead(R, S, s)
             B == Ahead(R, S, t)
  <2>1. A \in SUBSET B /\ s \in B /\ s \notin A
    BY <1>3 DEF Ahead, IsRanking
  <2>2. /\ rank[s] = Cardinality(A) /\ rank[t] = Cardinality(B) /\ IsFiniteSet(B)
        /\ rank[s] \in Nat /\ rank[t] \in Nat
    BY <1>2
  <2> HIDE DEF A, B, rank
  <2>3. Cardinality(A) <= Cardinality(B) /\ (Cardinality(B) = Cardinality(A) => B = A)
    BY <2>1, <2>2, FS_Subset
  <2>4. Cardinality(A) # Cardinality(B)
    BY <2>1, <2>3
  <2> QED
    BY <2>2, <2>3, <2>4
<1>4. rank \in [S -> 0..n-1]
  <2>1. rank = [s \in S |-> rank[s]]
    OBVIOUS
  <2>2. \A s \in S : rank[s] \in 0..n-1
    BY <1>1, <1>2
  <2> HIDE DEF rank
  <2> QED
    BY <2>1, <2>2
<1> HIDE DEF n, rank
<1>5. \A s, t \in S : rank[s] = rank[t] => s = t
  <2> SUFFICES ASSUME NEW s \in S, NEW t \in S, s # t PROVE rank[s] # rank[t]
    OBVIOUS
  <2>1. <<s, t>> \in R \/ <<t, s>> \in R
    BY DEF IsRanking
  <2>2. rank[s] < rank[t] \/ rank[t] < rank[s]
    BY <1>3, <2>1
  <2>3. rank[s] \in Nat /\ rank[t] \in Nat
    BY <1>2
  <2> QED
    BY <2>2, <2>3
<1>6. IsFiniteSet(0..n-1) /\ Cardinality(0..n-1) = n
  BY <1>1, FS_Interval
<1>7. rank \in Surjection(S, 0..n-1)
  <2>1. rank \in Injection(S, 0..n-1)
    BY <1>4, <1>5 DEF Injection, IsInjective
  <2>2. Cardinality(S) = Cardinality(0..n-1)
    BY <1>6 DEF n
  <2> QED
    BY <1>6, <2>1, <2>2, FS_Injection
<1>8. \A s \in S : s \in T <=> rank[s] < k
  BY <1>2 DEF TopOf
<1>9. T \in SUBSET S /\ IsFiniteSet(T) /\ Cardinality(T) \in Nat
  <2>1. T \in SUBSET S
    BY DEF TopOf
  <2> QED
    BY <2>1, FS_Subset, FS_CardinalityType
<1> HIDE DEF T
<1> DEFINE top == [s \in T |-> rank[s]]
<1>10. top \in [T -> 0..k-1] /\ \A s \in T : top[s] = rank[s]
  BY <1>2, <1>8, <1>9
<1> HIDE DEF top
<1>11. IsFiniteSet(0..k-1) /\ Cardinality(0..k-1) = k
  BY FS_Interval
<1>12. Cardinality(T) <= k
  <2>1. top \in Injection(T, 0..k-1)
    BY <1>5, <1>9, <1>10 DEF Injection, IsInjective
  <2> QED
    BY <1>11, <2>1, FS_Injection
<1>13. ASSUME NEW s \in S \ T PROVE Cardinality(Ahead(R, T, s)) >= k
  <2>1. k <= rank[s] /\ rank[s] <= n - 1
    BY <1>1, <1>2, <1>8
  <2>2. ASSUME NEW j \in 0..k-1 PROVE \E t \in T : top[t] = j
    <3>1. j \in 0..n-1
      BY <1>1, <1>2, <2>1
    <3>2. PICK t \in S : rank[t] = j
      BY <1>7, <3>1 DEF Surjection
    <3>3. t \in T
      BY <1>8, <3>2
    <3> QED
      BY <1>10, <3>2, <3>3
  <2>3. top \in Surjection(T, 0..k-1)
    BY <1>10, <2>2 DEF Surjection
  <2>4. k <= Cardinality(T)
    BY <1>9, <1>11, <2>3, FS_Surjection
  <2>5. ASSUME NEW t \in T PROVE <<t, s>> \in R
    <3>1. t \in S /\ rank[t] < rank[s] /\ rank[t] \in Nat /\ rank[s] \in Nat
      BY <1>2, <1>8, <1>9, <2>1
    <3>2. t # s /\ <<s, t>> \notin R
      BY <1>3, <3>1
    <3> QED
      BY <3>1, <3>2 DEF IsRanking
  <2>6. Ahead(R, T, s) = T
    BY <2>5 DEF Ahead
  <2> QED
    BY <2>4, <2>6
<1> QED
  BY <1>9, <1>12, <1>13 DEF T
-----------------------------------------------------------------------------
(* Among the directories F, those that keep s out of Recent and of Best.   *)
Newer(F, s) == {q \in F : q > s}
Better(F, s) == {q \in F : dirs[q].metric # NoMetric /\ RanksBefore(q, s)}

Outranked(F, s) ==
  /\ Cardinality(Newer(F, s)) >= RecentLimit
  /\ dirs[s].metric # NoMetric => Cardinality(Better(F, s)) >= BestLimit

Kept == DOMAIN dirs \ doomed

(* The directories to be deleted are outranked by those that stay, of      *)
(* which there are no more than the limits allow.                          *)
RankInv ==
  /\ TypeInv
  /\ pc # "delete" => doomed = {}
  /\ \A s \in doomed : Outranked(Kept, s)
  /\ pc = "delete" => Cardinality(Kept) <= BestLimit + RecentLimit

(* More directories can only outrank more.                                 *)
LEMMA MoreAhead ==
  ASSUME NEW F \in SUBSET Nat, IsFiniteSet(F), NEW E \in SUBSET F, NEW s
  PROVE  /\ Cardinality(Newer(E, s)) \in Nat /\ Cardinality(Better(E, s)) \in Nat
         /\ Cardinality(Newer(F, s)) \in Nat /\ Cardinality(Better(F, s)) \in Nat
         /\ Cardinality(Newer(E, s)) <= Cardinality(Newer(F, s))
         /\ Cardinality(Better(E, s)) <= Cardinality(Better(F, s))
<1>1. Newer(F, s) \in SUBSET F /\ Better(F, s) \in SUBSET F
  BY DEF Newer, Better
<1>2. Newer(E, s) \in SUBSET Newer(F, s) /\ Better(E, s) \in SUBSET Better(F, s)
  BY DEF Newer, Better
<1>3. IsFiniteSet(Newer(F, s)) /\ IsFiniteSet(Better(F, s))
  BY <1>1, FS_Subset
<1> QED
  BY <1>2, <1>3, FS_Subset, FS_CardinalityType

(* The directories are finitely many, and their accuracies are numbers.    *)
LEMMA DirsFinite ==
  ASSUME TypeOK
  PROVE  /\ DOMAIN dirs \in SUBSET Nat /\ IsFiniteSet(DOMAIN dirs)
         /\ \A s \in DOMAIN dirs : dirs[s].metric # NoMetric => dirs[s].metric \in Nat
<1>1. DOMAIN dirs \in SUBSET (1..MaxStep) /\ MaxStep \in Nat
  BY LimitsAssumption DEF TypeOK
<1>2. IsFiniteSet(1..MaxStep)
  BY <1>1, FS_Interval
<1>3. IsFiniteSet(DOMAIN dirs)
  BY <1>1, <1>2, FS_Subset
<1>4. ASSUME NEW s \in DOMAIN dirs, dirs[s].metric # NoMetric PROVE dirs[s].metric \in Nat
  <2>1. dirs[s].metric \in Metrics
    BY DEF TypeOK
  <2> QED
    BY <1>4, <2>1, AccuraciesAssumption DEF Metrics
<1> QED
  BY <1>1, <1>3, <1>4

(* What Recent and Best leave out is outranked by what they hold.          *)
LEMMA SelectedOutrank ==
  ASSUME TypeOK, NEW K, K = Recent \cup Best
  PROVE  /\ K \in SUBSET DOMAIN dirs
         /\ Cardinality(K) <= BestLimit + RecentLimit
         /\ \A s \in DOMAIN dirs \ K : Outranked(K, s)
<1> DEFINE D == DOMAIN dirs
           M == {s \in D : dirs[s].metric # NoMetric}
           newer == {p \in D \X D : p[1] > p[2]}
           better == {p \in M \X M : RanksBefore(p[1], p[2])}
<1>1. /\ D \in SUBSET Nat /\ IsFiniteSet(D) /\ M \in SUBSET D /\ IsFiniteSet(M)
      /\ \A s \in M : dirs[s].metric \in Nat
      /\ RecentLimit \in Nat /\ BestLimit \in Nat
  <2>1. D \in SUBSET Nat /\ IsFiniteSet(D) /\ \A s \in M : dirs[s].metric \in Nat
    BY DirsFinite
  <2>2. M \in SUBSET D
    OBVIOUS
  <2> HIDE DEF D, M
  <2> QED
    BY <2>1, <2>2, FS_Subset, LimitsAssumption
<1>2. \A q, s \in D : <<q, s>> \in newer <=> q > s
  OBVIOUS
<1>3. \A q, s \in M : <<q, s>> \in better <=> RanksBefore(q, s)
  OBVIOUS
<1>4. \A s \in M : s \in D /\ dirs[s].metric # NoMetric
  OBVIOUS
<1>5. Recent = {s \in D : Cardinality({q \in D : q > s}) < RecentLimit}
  BY DEF Recent
<1>6. Best = {s \in M : Cardinality({q \in M : RanksBefore(q, s)}) < BestLimit}
  BY DEF Best
<1> HIDE DEF newer, better
<1>7. \A s \in D : s \in M <=> dirs[s].metric # NoMetric
  OBVIOUS
<1> HIDE DEF D, M
<1>8. IsRanking(newer, D)
  BY <1>1, <1>2 DEF IsRanking
<1>9. IsRanking(better, M)
  BY <1>1, <1>3, <1>4 DEF IsRanking, RanksBefore
<1>10. Recent = TopOf(newer, D, RecentLimit)
  <2>1. \A s \in D : {q \in D : q > s} = Ahead(newer, D, s)
    BY <1>2 DEF Ahead
  <2> QED
    BY <1>5, <2>1 DEF TopOf
<1>11. Best = TopOf(better, M, BestLimit)
  <2>1. \A s \in M : {q \in M : RanksBefore(q, s)} = Ahead(better, M, s)
    BY <1>3 DEF Ahead
  <2> QED
    BY <1>6, <2>1 DEF TopOf
<1>12. /\ Cardinality(Recent) \in Nat /\ Cardinality(Recent) <= RecentLimit
       /\ \A s \in D \ Recent : Cardinality(Ahead(newer, Recent, s)) >= RecentLimit
  BY <1>1, <1>8, <1>10, TopProperties
<1>13. /\ Cardinality(Best) \in Nat /\ Cardinality(Best) <= BestLimit
       /\ \A s \in M \ Best : Cardinality(Ahead(better, Best, s)) >= BestLimit
  BY <1>1, <1>9, <1>11, TopProperties
<1>14. Recent \in SUBSET D /\ Best \in SUBSET M /\ Best \in SUBSET D
  BY <1>1, <1>5, <1>6
<1>15. Recent \in SUBSET K /\ Best \in SUBSET K /\ K \in SUBSET D
  BY <1>14
<1>16. K \in SUBSET Nat /\ IsFiniteSet(K) /\ IsFiniteSet(Recent) /\ IsFiniteSet(Best)
  BY <1>1, <1>14, <1>15, FS_Subset
<1>17. Cardinality(K) <= BestLimit + RecentLimit
  <2>1. Cardinality(K) = Cardinality(Recent) + Cardinality(Best) - Cardinality(Recent \cap Best)
    BY <1>16, FS_Union
  <2>2. Cardinality(Recent \cap Best) \in Nat
    <3>1. Recent \cap Best \in SUBSET Recent
      OBVIOUS
    <3> QED
      BY <1>16, <3>1, FS_Subset, FS_CardinalityType
  <2> DEFINE a == Cardinality(Recent)
             b == Cardinality(Best)
             c == Cardinality(Recent \cap Best)
  <2>3. Cardinality(K) = a + b - c /\ a \in Nat /\ b \in Nat /\ c \in Nat /\ a <= RecentLimit /\ b <= BestLimit
    BY <1>12, <1>13, <2>1, <2>2
  <2> HIDE DEF a, b, c
  <2> QED
    BY <1>1, <2>3
<1>18. ASSUME NEW s \in D \ K PROVE Outranked(K, s)
  <2>1. s \notin Recent /\ s \notin Best
    BY <1>15
  <2>2. Cardinality(Newer(K, s)) >= RecentLimit
    <3>1. Ahead(newer, Recent, s) = Newer(Recent, s)
      BY <1>2, <1>14 DEF Ahead, Newer
    <3>2. Cardinality(Newer(Recent, s)) >= RecentLimit
      BY <1>12, <2>1, <3>1
    <3>3. /\ Cardinality(Newer(Recent, s)) \in Nat /\ Cardinality(Newer(K, s)) \in Nat
          /\ Cardinality(Newer(Recent, s)) <= Cardinality(Newer(K, s))
      BY <1>15, <1>16, MoreAhead
    <3> QED
      BY <1>1, <3>2, <3>3
  <2>3. ASSUME dirs[s].metric # NoMetric PROVE Cardinality(Better(K, s)) >= BestLimit
    <3>1. s \in M
      BY <1>7, <2>3
    <3>2. Ahead(better, Best, s) = Better(Best, s)
      BY <1>3, <1>4, <1>14, <3>1 DEF Ahead, Better
    <3>3. Cardinality(Better(Best, s)) >= BestLimit
      BY <1>13, <2>1, <3>1, <3>2
    <3>4. /\ Cardinality(Better(Best, s)) \in Nat /\ Cardinality(Better(K, s)) \in Nat
          /\ Cardinality(Better(Best, s)) <= Cardinality(Better(K, s))
      BY <1>15, <1>16, MoreAhead
    <3> QED
      BY <1>1, <3>3, <3>4
  <2> QED
    BY <2>2, <2>3 DEF Outranked
<1> QED
  BY <1>15, <1>17, <1>18 DEF D

(* RankInv is preserved by each step, whatever the restarts.               *)
LEMMA RankStep == RankInv /\ [Next]_vars => RankInv'
<1> SUFFICES ASSUME RankInv, [Next]_vars PROVE RankInv'
  OBVIOUS
<1>0. TypeInv /\ TypeInv'
  BY TypeStep DEF RankInv
<1>1. ASSUME pc' # "delete", doomed' = {} PROVE RankInv'
  BY <1>0, <1>1 DEF RankInv
<1>2. CASE BeginSave \/ EndSave \/ Scratch \/ \E s \in 1..MaxStep : Resume(s)
  BY <1>1, <1>2 DEF BeginSave, EndSave, Scratch, Resume, RankInv
<1>3. CASE \E accuracy \in Accuracies : Validate(accuracy)
  BY <1>1, <1>3 DEF Validate, RankInv
<1>4. CASE EndRotation \/ Crash
  BY <1>1, <1>4 DEF EndRotation, Crash
<1>5. CASE Select
  <2>1. pc' = "delete" /\ dirs' = dirs /\ doomed' = DOMAIN dirs \ (Recent \cup Best)
    BY <1>5 DEF Select
  <2>2. PICK K : K = Recent \cup Best
    OBVIOUS
  <2>3. /\ K \in SUBSET DOMAIN dirs /\ Cardinality(K) <= BestLimit + RecentLimit
        /\ \A s \in DOMAIN dirs \ K : Outranked(K, s)
    BY <1>0, <2>2, SelectedOutrank DEF TypeInv
  <2>4. Kept' = K /\ \A s \in doomed' : s \in DOMAIN dirs \ K
    BY <2>1, <2>2, <2>3 DEF Kept
  <2>5. \A s : Outranked(K, s) => Outranked(K, s)'
    BY <2>1 DEF Outranked, Newer, Better, RanksBefore
  <2>6. \A s \in doomed' : Outranked(Kept, s)'
    <3>1. \A s \in doomed' : Outranked(K, s)'
      BY <2>3, <2>4, <2>5
    <3> QED
      BY <2>4, <3>1 DEF Outranked, Newer, Better
  <2> QED
    BY <1>0, <2>1, <2>3, <2>4, <2>6 DEF RankInv
<1>6. CASE DeleteNext
  <2>1. /\ pc = "delete" /\ pc' = "delete" /\ doomed # {} /\ doomed' = doomed \ {Min(doomed)}
        /\ dirs' = Without(Min(doomed))
    BY <1>6 DEF DeleteNext
  <2>2. Min(doomed) \in doomed /\ doomed \in SUBSET DOMAIN dirs
    <3>1. doomed \in SUBSET DOMAIN dirs /\ doomed \in SUBSET Nat
      BY <1>0, DirsFinite DEF TypeInv, TypeOK
    <3> QED
      BY <2>1, <3>1, MinMember
  <2>3. /\ DOMAIN dirs' = DOMAIN dirs \ {Min(doomed)}
        /\ \A s \in DOMAIN dirs' : dirs'[s] = dirs[s]
    BY <2>1 DEF Without
  <2>4. Kept' = Kept /\ (\A s \in Kept : dirs'[s] = dirs[s]) /\ (\A s \in doomed' : dirs'[s] = dirs[s])
    BY <2>1, <2>2, <2>3 DEF Kept
  <2>5. ASSUME NEW s \in doomed' PROVE Outranked(Kept, s)'
    <3>1. Newer(Kept, s)' = Newer(Kept, s)
      BY <2>4 DEF Newer
    <3>2. Better(Kept, s)' = Better(Kept, s)
      BY <2>4 DEF Better, RanksBefore
    <3>3. Outranked(Kept, s) /\ dirs'[s] = dirs[s]
      BY <2>1, <2>4 DEF RankInv
    <3> QED
      BY <3>1, <3>2, <3>3 DEF Outranked
  <2> QED
    BY <1>0, <2>1, <2>4, <2>5 DEF RankInv
<1>7. CASE UNCHANGED vars
  BY <1>0, <1>7 DEF vars, RankInv, Kept, Outranked, Newer, Better, RanksBefore
<1> QED
  BY <1>2, <1>3, <1>4, <1>5, <1>6, <1>7 DEF Next

(* Rotation deletes a checkpoint only for better ones that stay, whatever  *)
(* crashes and restarts came before.                                       *)
THEOREM BestShownKept == Spec => KeepsBestShown
<1>1. Init => RankInv
  BY LimitsAssumption DEF Init, RankInv, TypeInv, TypeOK, Metrics
<1>2. RankInv /\ [Next]_vars =>
        [\A s \in DOMAIN dirs \ DOMAIN dirs' :
           dirs[s].metric # NoMetric =>
             Cardinality({q \in DOMAIN dirs' : dirs'[q].metric # NoMetric
                                               /\ dirs'[q].metric >= dirs[s].metric}) >= BestLimit]_vars
  <2> SUFFICES ASSUME RankInv, [Next]_vars, NEW s \in DOMAIN dirs \ DOMAIN dirs',
                      dirs[s].metric # NoMetric
               PROVE  Cardinality({q \in DOMAIN dirs' : dirs'[q].metric # NoMetric
                                     /\ dirs'[q].metric >= dirs[s].metric}) >= BestLimit
    OBVIOUS
  <2>1. TypeInv /\ TypeInv' /\ TypeOK /\ TypeOK'
    BY TypeStep DEF RankInv, TypeInv
  <2>2. DeleteNext
    <3>1. CASE BeginSave
      BY <3>1 DEF BeginSave, With
    <3>2. CASE EndSave
      BY <3>2 DEF EndSave, With
    <3>3. CASE \E accuracy \in Accuracies : Validate(accuracy)
      BY <3>3 DEF Validate, With
    <3>4. CASE Select \/ EndRotation \/ Scratch \/ \E q \in 1..MaxStep : Resume(q)
      BY <3>4 DEF Select, EndRotation, Scratch, Resume
    <3>5. CASE Crash
      BY <2>1, <3>5, CrashStep
    <3> QED
      BY <3>1, <3>2, <3>3, <3>4, <3>5 DEF Next, vars
  <2>3. /\ pc = "delete" /\ doomed # {} /\ dirs' = Without(Min(doomed))
        /\ Min(doomed) \in doomed /\ doomed \in SUBSET DOMAIN dirs
    <3>1. doomed \in SUBSET DOMAIN dirs /\ doomed \in SUBSET Nat
      BY <2>1, DirsFinite DEF TypeOK
    <3> QED
      BY <2>2, <3>1, MinMember DEF DeleteNext
  <2>4. s = Min(doomed) /\ (\A q \in Kept : q \in DOMAIN dirs' /\ dirs'[q] = dirs[q])
    BY <2>3 DEF Without, Kept
  <2>5. Cardinality(Better(Kept, s)) >= BestLimit
    BY <2>3, <2>4 DEF RankInv, Outranked
  <2> DEFINE G == {q \in DOMAIN dirs' : dirs'[q].metric # NoMetric
                                        /\ dirs'[q].metric >= dirs[s].metric}
  <2>6. Better(Kept, s) \in SUBSET G
    <3> SUFFICES ASSUME NEW q \in Kept, dirs[q].metric # NoMetric, RanksBefore(q, s)
                 PROVE  dirs[q].metric >= dirs[s].metric
      BY <2>4 DEF Better
    <3>1. dirs[q].metric \in Nat /\ dirs[s].metric \in Nat
      BY <2>1, DirsFinite DEF Kept
    <3> QED
      BY <3>1 DEF RanksBefore
  <2>7. IsFiniteSet(G)
    <3>1. IsFiniteSet(DOMAIN dirs)
      BY <2>1, DirsFinite
    <3>2. G \in SUBSET DOMAIN dirs
      BY <2>3 DEF Without
    <3> QED
      BY <3>1, <3>2, FS_Subset
  <2> HIDE DEF G
  <2>8. /\ Cardinality(Better(Kept, s)) <= Cardinality(G) /\ Cardinality(G) \in Nat
        /\ Cardinality(Better(Kept, s)) \in Nat
    BY <2>6, <2>7, FS_Subset, FS_CardinalityType
  <2>9. Cardinality(G) >= BestLimit
    BY <2>5, <2>8, LimitsAssumption
  <2> QED
    BY <2>9 DEF G
<1> QED
  BY <1>1, <1>2, RankStep, PTL DEF Spec, KeepsBestShown

(* The directories that are whole and not about to be deleted or changed.  *)
Firm == {q \in Kept : dirs[q].whole /\ ~(pc = "validate" /\ q = global_step)}

Spare(s) == \A q \in DOMAIN dirs : dirs[q].whole => q < s

(* What a crash left half saved will be saved again, and what it left half *)
(* deleted is outranked by whole directories, so that no rotation keeps it. *)
WholeInv ==
  /\ ResumeInv
  /\ RankInv
  /\ \A s \in Kept : ~dirs[s].whole =>
       pc # "delete" /\ (Spare(s) \/ Outranked(Firm, s))

(* A directory stays outranked while the others only grow in number.       *)
LEMMA StillOutranked ==
  ASSUME TypeOK, TypeOK', NEW s \in Nat, NEW F, Outranked(F, s),
         NEW G \in SUBSET DOMAIN dirs', F \in SUBSET G,
         \A q \in F : q \in DOMAIN dirs /\ dirs'[q] = dirs[q],
         dirs'[s].metric = dirs[s].metric \/ dirs'[s].metric = NoMetric
  PROVE  Outranked(G, s)'
<1>1. G \in SUBSET Nat /\ IsFiniteSet(G)
  <2>1. G \in SUBSET (1..MaxStep) /\ MaxStep \in Nat
    BY LimitsAssumption DEF TypeOK
  <2>2. IsFiniteSet(1..MaxStep)
    BY <2>1, FS_Interval
  <2> QED
    BY <2>1, <2>2, FS_Subset
<1>2. Newer(F, s) \in SUBSET Newer(G, s) /\ Newer(G, s) \in SUBSET G
  BY DEF Newer
<1>3. Cardinality(Newer(G, s)) >= RecentLimit
  <2>1. /\ Cardinality(Newer(F, s)) <= Cardinality(Newer(G, s))
        /\ Cardinality(Newer(F, s)) \in Nat /\ Cardinality(Newer(G, s)) \in Nat
    BY <1>1, <1>2, FS_Subset, FS_CardinalityType
  <2> QED
    BY <2>1, LimitsAssumption DEF Outranked
<1>4. ASSUME dirs'[s].metric # NoMetric PROVE Cardinality(Better(G, s)') >= BestLimit
  <2>1. dirs'[s].metric = dirs[s].metric
    BY <1>4
  <2>2. Better(F, s) \in SUBSET Better(G, s)' /\ Better(G, s)' \in SUBSET G
    BY <2>1 DEF Better, RanksBefore
  <2>3. /\ Cardinality(Better(F, s)) <= Cardinality(Better(G, s)')
        /\ Cardinality(Better(F, s)) \in Nat /\ Cardinality(Better(G, s)') \in Nat
    BY <1>1, <2>2, FS_Subset, FS_CardinalityType
  <2> QED
    BY <1>4, <2>1, <2>3, LimitsAssumption DEF Outranked
<1> QED
  BY <1>3, <1>4 DEF Outranked, Newer

(* A rotation selects no directory that whole ones outrank.                *)
LEMMA OutrankedNotSelected ==
  ASSUME TypeOK, NEW s \in DOMAIN dirs, NEW F \in SUBSET DOMAIN dirs, Outranked(F, s)
  PROVE  s \notin Recent /\ s \notin Best
<1> DEFINE D == DOMAIN dirs
<1>1. D \in SUBSET Nat /\ IsFiniteSet(D) /\ F \in SUBSET D
  BY DirsFinite
<1>2. /\ Cardinality(Newer(F, s)) \in Nat /\ Cardinality(Better(F, s)) \in Nat
      /\ Cardinality(Newer(D, s)) \in Nat /\ Cardinality(Better(D, s)) \in Nat
      /\ Cardinality(Newer(F, s)) <= Cardinality(Newer(D, s))
      /\ Cardinality(Better(F, s)) <= Cardinality(Better(D, s))
  <2> HIDE DEF D
  <2> QED
    BY <1>1, MoreAhead
<1>3. s \notin Recent
  <2>1. {q \in D : q > s} = Newer(D, s)
    BY DEF Newer
  <2>2. ~(Cardinality(Newer(D, s)) < RecentLimit)
    BY <1>2, LimitsAssumption DEF Outranked
  <2> QED
    BY <2>1, <2>2 DEF Recent
<1>4. ASSUME s \in Best PROVE FALSE
  <2> DEFINE M == {q \in D : dirs[q].metric # NoMetric}
  <2>1. dirs[s].metric # NoMetric /\ Cardinality({q \in M : RanksBefore(q, s)}) < BestLimit
    BY <1>4 DEF Best
  <2>2. {q \in M : RanksBefore(q, s)} = Better(D, s)
    BY DEF Better
  <2>3. Cardinality(Better(D, s)) < BestLimit
    BY <2>1, <2>2
  <2>4. Cardinality(Better(F, s)) >= BestLimit
    BY <2>1 DEF Outranked
  <2> QED
    BY <1>2, <2>3, <2>4, LimitsAssumption
<1> QED
  BY <1>3, <1>4

(* WholeInv is preserved by each step.                                     *)
LEMMA WholeStep ==
  ASSUME RecentLimit > 0, "scratch" \notin Restarts
  PROVE  WholeInv /\ [Next]_vars => WholeInv'
<1> SUFFICES ASSUME WholeInv, [Next]_vars
             PROVE  \A s \in Kept' : ~dirs'[s].whole =>
                      pc' # "delete" /\ (Spare(s)' \/ Outranked(Firm, s)')
  BY ResumeStep, RankStep DEF WholeInv
<1>1. /\ ResumeInv /\ RankInv /\ TypeInv /\ TypeOK /\ TypeOK'
      /\ ResumeInv' /\ RankInv' /\ TypeInv'
  BY ResumeStep, RankStep DEF WholeInv, ResumeInv, TypeInv
<1>2. /\ DOMAIN dirs \in SUBSET Nat /\ DOMAIN dirs' \in SUBSET Nat
      /\ global_step \in Nat /\ Firm \in SUBSET DOMAIN dirs /\ Firm' \in SUBSET DOMAIN dirs'
  BY <1>1, DirsFinite, LimitsAssumption DEF TypeOK, Firm, Kept
<1>3. ASSUME NEW s \in Kept', ~dirs'[s].whole PROVE s \in Nat /\ s \in DOMAIN dirs'
  BY <1>2, <1>3 DEF Kept
(* It is enough that the whole directories that outranked s still do.      *)
<1>4. ASSUME NEW s \in Kept', s \in DOMAIN dirs, Outranked(Firm, s), Firm \in SUBSET Firm',
             \A q \in Firm : dirs'[q] = dirs[q], dirs'[s] = dirs[s]
      PROVE  Outranked(Firm, s)'
  <2>1. PICK F : F = Firm
    OBVIOUS
  <2>2. PICK G : G = Firm'
    OBVIOUS
  <2>3. Outranked(G, s)'
    <3>1. s \in Nat /\ Outranked(F, s) /\ G \in SUBSET DOMAIN dirs' /\ F \in SUBSET G
      BY <1>2, <1>4, <2>1, <2>2
    <3>2. \A q \in F : q \in DOMAIN dirs /\ dirs'[q] = dirs[q]
      BY <1>2, <1>4, <2>1
    <3>3. dirs'[s].metric = dirs[s].metric
      BY <1>4
    <3> QED
      BY <1>1, <3>1, <3>2, <3>3, StillOutranked
  <2> QED
    BY <2>2, <2>3 DEF Outranked, Newer, Better
(* Before validation ends, the step just saved is the newest and whole.    *)
<1>5. ASSUME pc \in {"validate", "rotate"}, NEW s \in Kept, ~dirs[s].whole
      PROVE  Outranked(Firm, s) /\ s # global_step
  <2>1. Resumable(global_step) /\ \A q \in DOMAIN dirs : q <= global_step
    BY <1>1, <1>5 DEF ResumeInv
  <2>2. s \in DOMAIN dirs /\ s \in Nat
    BY <1>2 DEF Kept
  <2>3. ~Spare(s)
    BY <1>2, <2>1, <2>2 DEF Spare, Resumable
  <2> QED
    BY <1>5, <2>1, <2>3 DEF WholeInv, Resumable
<1>6. CASE BeginSave
  <2>1. /\ pc = "train" /\ pc' = "save" /\ doomed = {} /\ doomed' = {}
        /\ global_step' = global_step + 1 /\ Reached(global_step)
    BY <1>1, <1>6 DEF BeginSave, ResumeInv
  <2>2. /\ DOMAIN dirs' = DOMAIN dirs \cup {global_step + 1} /\ ~dirs'[global_step + 1].whole
        /\ \A q \in DOMAIN dirs : q # global_step + 1 => dirs'[q] = dirs[q]
    BY <1>6, <2>1 DEF BeginSave, With, Dir
  <2>3. \A q \in DOMAIN dirs : q <= global_step + 1 /\ (q = global_step + 1 => ~dirs[q].whole)
    BY <2>1 DEF Reached
  <2>4. \A q \in DOMAIN dirs' : dirs'[q].whole => q \in DOMAIN dirs /\ dirs[q].whole /\ q < global_step + 1
    BY <1>2, <2>2, <2>3
  <2>5. \A q \in Firm : dirs'[q] = dirs[q] /\ q \in Firm'
    BY <2>1, <2>2, <2>3 DEF Firm, Kept
  <2> SUFFICES ASSUME NEW s \in Kept', ~dirs'[s].whole PROVE Spare(s)' \/ Outranked(Firm, s)'
    BY <2>1
  <2>6. CASE s = global_step + 1
    BY <2>4, <2>6 DEF Spare
  <2>7. CASE s # global_step + 1
    <3>1. s \in Kept /\ s \in DOMAIN dirs /\ dirs'[s] = dirs[s] /\ ~dirs[s].whole
      BY <1>3, <2>1, <2>2, <2>7 DEF Kept
    <3>2. Spare(s) \/ Outranked(Firm, s)
      BY <3>1 DEF WholeInv
    <3>3. Spare(s) => Spare(s)'
      BY <2>4 DEF Spare
    <3> QED
      BY <1>4, <2>5, <3>1, <3>2, <3>3
  <2> QED
    BY <2>6, <2>7
<1>7. CASE EndSave
  <2>1. /\ pc = "save" /\ pc' = "validate" /\ doomed = {} /\ doomed' = {}
        /\ global_step' = global_step /\ Reached(global_step - 1)
        /\ global_step \in DOMAIN dirs /\ global_step \in 1..MaxStep
    BY <1>1, <1>7 DEF EndSave, ResumeInv, TypeInv
  <2>2. /\ DOMAIN dirs' = DOMAIN dirs /\ dirs'[global_step].whole
        /\ \A q \in DOMAIN dirs : q # global_step => dirs'[q] = dirs[q]
    BY <1>7, <2>1 DEF EndSave, With, Dir
  <2>3. /\ global_step - 1 = 0 \/ Resumable(global_step - 1)
        /\ \A q \in DOMAIN dirs : q <= global_step /\ (q = global_step => ~dirs[q].whole)
    BY <1>2, <2>1 DEF Reached
  <2>4. \A q \in Firm : dirs'[q] = dirs[q] /\ q \in Firm'
    BY <2>1, <2>2, <2>3 DEF Firm, Kept
  <2> SUFFICES ASSUME NEW s \in Kept', ~dirs'[s].whole PROVE Outranked(Firm, s)'
    BY <2>1
  <2>5. s \in Kept /\ s \in DOMAIN dirs /\ s # global_step /\ dirs'[s] = dirs[s] /\ ~dirs[s].whole
    BY <2>1, <2>2 DEF Kept
  <2>6. s \in 1..MaxStep /\ s <= global_step - 1
    BY <1>1, <1>2, <2>1, <2>3, <2>5, LimitsAssumption DEF TypeOK
  <2>7. ~Spare(s)
    <3>1. global_step - 1 # 0
      BY <2>6
    <3>2. Resumable(global_step - 1)
      BY <2>3, <3>1
    <3> QED
      BY <1>2, <2>1, <2>6, <3>2 DEF Spare, Resumable
  <2>8. Outranked(Firm, s)
    BY <2>5, <2>7 DEF WholeInv
  <2> QED
    BY <1>4, <2>4, <2>5, <2>8
<1>8. ASSUME NEW accuracy \in Accuracies, Validate(accuracy)
      PROVE  \A s \in Kept' : ~dirs'[s].whole =>
               pc' # "delete" /\ (Spare(s)' \/ Outranked(Firm, s)')
  <2>1. /\ pc = "validate" /\ pc' = "rotate" /\ doomed = {} /\ doomed' = {}
        /\ global_step' = global_step /\ Resumable(global_step)
    BY <1>1, <1>8 DEF Validate, ResumeInv
  <2>2. /\ DOMAIN dirs' = DOMAIN dirs /\ dirs'[global_step].whole
        /\ \A q \in DOMAIN dirs : q # global_step => dirs'[q] = dirs[q]
    BY <1>8, <2>1 DEF Validate, With, Dir, Resumable
  <2>3. \A q \in Firm : dirs'[q] = dirs[q] /\ q \in Firm'
    BY <2>1, <2>2 DEF Firm, Kept
  <2> SUFFICES ASSUME NEW s \in Kept', ~dirs'[s].whole PROVE Outranked(Firm, s)'
    BY <2>1
  <2>4. s \in Kept /\ s \in DOMAIN dirs /\ dirs'[s] = dirs[s] /\ ~dirs[s].whole
    BY <2>1, <2>2 DEF Kept
  <2> QED
    BY <1>4, <1>5, <2>1, <2>3, <2>4
<1>9. CASE Select
  <2>1. /\ pc = "rotate" /\ dirs' = dirs /\ doomed = {}
        /\ doomed' = DOMAIN dirs \ (Recent \cup Best)
    BY <1>1, <1>9 DEF Select, ResumeInv
  <2> SUFFICES ASSUME NEW s \in Kept', ~dirs'[s].whole PROVE FALSE
    OBVIOUS
  <2>2. s \in Kept /\ s \in DOMAIN dirs /\ ~dirs[s].whole /\ (s \in Recent \/ s \in Best)
    BY <2>1 DEF Kept
  <2>3. PICK F : F = Firm
    OBVIOUS
  <2>4. Outranked(F, s) /\ F \in SUBSET DOMAIN dirs
    BY <1>2, <1>5, <2>1, <2>2, <2>3
  <2> QED
    BY <1>1, <2>2, <2>4, OutrankedNotSelected
<1>10. CASE DeleteNext
  <2>1. /\ pc = "delete" /\ doomed # {} /\ doomed' = doomed \ {Min(doomed)}
        /\ dirs' = Without(Min(doomed))
    BY <1>10 DEF DeleteNext
  <2>2. \A s \in Kept' : s \in Kept /\ dirs'[s] = dirs[s]
    BY <2>1 DEF Kept, Without
  <2> QED
    BY <2>1, <2>2 DEF WholeInv
<1>11. CASE EndRotation
  <2>1. pc = "delete" /\ dirs' = dirs /\ doomed' = doomed
    BY <1>11 DEF EndRotation
  <2> QED
    BY <2>1 DEF WholeInv, Kept
<1>12. CASE Crash
  <2>1. pc' = "down" /\ doomed' = {} /\ DOMAIN dirs' = DOMAIN dirs
    BY <1>1, <1>12, CrashStep DEF Crash
  <2>2. \A q \in DOMAIN dirs : \/ dirs'[q] = dirs[q]
                               \/ /\ q \in doomed /\ ~dirs'[q].whole
                                  /\ dirs'[q].metric \in {dirs[q].metric, NoMetric}
    BY <1>1, <1>12, CrashStep
  <2> SUFFICES ASSUME NEW s \in Kept', ~dirs'[s].whole PROVE Spare(s)' \/ Outranked(Firm, s)'
    BY <2>1
  <2>3. s \in DOMAIN dirs /\ s \in Nat
    BY <1>3, <2>1
  <2>4. \A q \in Firm : dirs'[q] = dirs[q] /\ q \in Firm'
    BY <2>1, <2>2 DEF Firm, Kept
  <2>5. CASE s \in doomed
    <3>1. pc = "delete" /\ Outranked(Kept, s)
      BY <1>1, <2>5 DEF RankInv
    <3>2. \A q \in Kept : dirs[q].whole
      BY <3>1 DEF WholeInv
    <3>3. Kept = Firm
      BY <3>1, <3>2 DEF Firm
    <3>4. PICK F : F = Kept
      OBVIOUS
    <3>5. PICK G : G = Firm'
      OBVIOUS
    <3>6. Outranked(F, s) /\ G \in SUBSET DOMAIN dirs' /\ F \in SUBSET G
      BY <1>2, <2>4, <3>1, <3>3, <3>4, <3>5
    <3>7. \A q \in F : q \in DOMAIN dirs /\ dirs'[q] = dirs[q]
      BY <1>2, <2>4, <3>3, <3>4
    <3>8. dirs'[s].metric = dirs[s].metric \/ dirs'[s].metric = NoMetric
      BY <2>2, <2>3
    <3>9. Outranked(G, s)'
      BY <1>1, <2>3, <3>6, <3>7, <3>8, StillOutranked
    <3> QED
      BY <3>5, <3>9 DEF Outranked, Newer, Better
  <2>6. CASE s \notin doomed
    <3>1. s \in Kept /\ dirs'[s] = dirs[s] /\ ~dirs[s].whole
      BY <2>2, <2>3, <2>6 DEF Kept
    <3>2. Spare(s) \/ Outranked(Firm, s)
      BY <3>1 DEF WholeInv
    <3>3. Spare(s) => Spare(s)'
      BY <2>1, <2>2 DEF Spare
    <3> QED
      BY <1>4, <2>3, <2>4, <3>1, <3>2, <3>3
  <2> QED
    BY <2>5, <2>6
<1>13. CASE UNCHANGED vars \/ Scratch \/ \E s \in 1..MaxStep : Resume(s)
  <2>1. /\ dirs' = dirs /\ doomed' = doomed
        /\ \/ pc' = pc /\ global_step' = global_step
           \/ pc = "down" /\ pc' = "train"
    BY <1>13 DEF vars, Scratch, Resume
  <2>2. Kept' = Kept /\ Firm' = Firm
    BY <2>1 DEF Kept, Firm
  <2>3. ASSUME NEW s PROVE (Spare(s) => Spare(s)') /\ (Outranked(Firm, s) => Outranked(Firm, s)')
    BY <2>1, <2>2 DEF Spare, Outranked, Newer, Better, RanksBefore
  <2>4. pc' = "delete" => pc = "delete"
    BY <2>1
  <2> QED
    BY <2>1, <2>2, <2>3, <2>4 DEF WholeInv
<1> QED
  BY <1>6, <1>7, <1>8, <1>9, <1>10, <1>11, <1>12, <1>13 DEF Next

(* A completed rotation leaves whole directories only, and no more than    *)
(* the limits allow, whatever crashes came before it.                      *)
THEOREM WholeAreKept ==
  ASSUME RecentLimit > 0, "scratch" \notin Restarts
  PROVE  Spec => []KeptAreWhole
<1>1. Init => WholeInv
  BY LimitsAssumption DEF Init, WholeInv, Kept, RankInv, ResumeInv, TypeInv, TypeOK, Metrics, Reached
<1>2. WholeInv => KeptAreWhole
  BY DEF WholeInv, RankInv, Kept, KeptAreWhole
<1> QED
  BY <1>1, <1>2, WholeStep, PTL DEF Spec
=============================================================================
