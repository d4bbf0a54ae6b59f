-------------------------- MODULE SoftLabelGen_proofs --------------------------
(***************************************************************************)
(* Proofs, for any number of workers, examples, batches and rounds and any *)
(* limit on what is in flight: the main process knows how many batches are *)
(* with the workers, whichever die and however often the job is run again, *)
(* and stage 2 trains with the label of each example at its index, or not  *)
(* at all.                                                                 *)
(***************************************************************************)
EXTENDS SoftLabelGen, SharedLemmas

(* What the queues hold: never the mark of an idle worker.                 *)
Tasks == [id : Nat \ {0}, examples : UNION {[1..len -> Int] : len \in Int}]

Busy == {w \in Workers : busy[w] # NoTask}

(* A round has no more batches than its tasks (0 when it starts), so that  *)
(* nothing is left in the queues when it ends.                             *)
PendingInv ==
  /\ base \in 0..NumExamples
  /\ task_idx \in Nat /\ pending_count \in Nat
  /\ input_queue \in Seq(Tasks) /\ output_queue \in Seq(Tasks) /\ results \in Seq(Tasks)
  /\ busy \in [Workers -> Tasks \cup {NoTask}]
  /\ (pc = "gen" /\ task_idx # 0 => task_idx <= NumTasks)
  /\ PendingExact

(* A round ends within the examples.                                       *)
LEMMA RoundLenInRange ==
  ASSUME base \in 0..NumExamples
  PROVE  RoundLen \in Nat /\ base + RoundLen \in 0..NumExamples
<1>1. RoundSize \in Nat /\ NumExamples \in Nat
  BY SizesAssumption
<1>2. NumExamples - base \in Nat /\ base \in Nat /\ base <= NumExamples
  BY <1>1
<1>3. RoundLen = IF RoundSize <= NumExamples - base THEN RoundSize ELSE NumExamples - base
  BY <1>1, <1>2, MinOfTwo DEF RoundLen
<1> QED
  BY <1>1, <1>2, <1>3

(* What is dispatched is a task, and no idle mark.                         *)
LEMMA TaskType ==
  ASSUME PendingInv, NEW i \in Nat \ {0}
  PROVE  Task(i) \in Tasks
<1> DEFINE start == (i - 1) * BatchSize
           len == Min({BatchSize, RoundLen - start})
<1>1. start \in Nat
  BY SizesAssumption
<1>2. BatchSize \in Int /\ RoundLen - start \in Int
  BY <1>1, RoundLenInRange, SizesAssumption DEF PendingInv
<1>3. len \in Int
  BY <1>2, MinOfTwo
<1> HIDE DEF len, start
<1>4. [j \in 1..len |-> base + start + j] \in [1..len -> Int]
  BY <1>1, <1>3 DEF PendingInv
<1>5. Task(i) = [id |-> start + 1, examples |-> [j \in 1..len |-> base + start + j]]
  BY DEF Task, start, len
<1> QED
  BY <1>1, <1>3, <1>4, <1>5 DEF Tasks

(* An idle worker's mark is no task.                                       *)
LEMMA NoTaskIsNone == NoTask \notin Tasks
BY DEF NoTask, Tasks

(* Where the batches of the round are, in numbers.                         *)
LEMMA PendingNumbers ==
  ASSUME PendingInv
  PROVE  /\ pending_count = Len(input_queue) + Len(output_queue) + Cardinality(Busy)
         /\ task_idx = pending_count + Len(results)
         /\ task_idx \in Nat /\ pending_count \in Nat
         /\ Len(input_queue) \in Nat /\ Len(output_queue) \in Nat /\ Len(results) \in Nat
         /\ IsFiniteSet(Busy) /\ Cardinality(Busy) \in Nat
<1>1. IsFiniteSet(Busy) /\ Cardinality(Busy) \in Nat
  BY WorkersAssumption, FS_Subset, FS_CardinalityType DEF Busy
<1>2. Len(input_queue) \in Nat /\ Len(output_queue) \in Nat /\ Len(results) \in Nat
  BY LenProperties DEF PendingInv
<1>3. /\ pending_count = Len(input_queue) + Len(output_queue) + Cardinality(Busy)
      /\ task_idx = pending_count + Len(results)
  BY DEF PendingInv, PendingExact, Busy
<1> QED
  BY <1>1, <1>2, <1>3 DEF PendingInv

(* Each step moves a batch by one place.                                   *)
LEMMA PendingStep == PendingInv /\ [Next]_vars => PendingInv'
<1> SUFFICES ASSUME PendingInv, [Next]_vars PROVE PendingInv'
  OBVIOUS
<1> DEFINE Counted ==
      /\ pending_count' = Len(input_queue') + Len(output_queue') + Cardinality(Busy')
      /\ task_idx' = pending_count' + Len(results')
<1>0. Counted => PendingExact'
  BY DEF PendingExact, Busy
<1>1. ASSUME NEW w \in Workers, Take(w) PROVE PendingInv'
  <2>1. /\ Head(input_queue) \in Tasks /\ Tail(input_queue) \in Seq(Tasks)
        /\ Len(Tail(input_queue)) = Len(input_queue) - 1
    BY <1>1, HeadTailProperties DEF PendingInv, Take
  <2>2. busy' \in [Workers -> Tasks \cup {NoTask}]
    BY <1>1, <2>1 DEF PendingInv, Take
  <2>3. Busy' = Busy \cup {w} /\ w \notin Busy
    BY <1>1, <2>1, NoTaskIsNone DEF PendingInv, Take, Busy
  <2>4. Cardinality(Busy') = Cardinality(Busy) + 1
    BY <2>3, PendingNumbers, FS_AddElement
  <2>5. /\ Len(input_queue') = Len(input_queue) - 1 /\ Len(output_queue') = Len(output_queue)
        /\ Len(results') = Len(results)
        /\ pending_count' = pending_count /\ task_idx' = task_idx
    BY <1>1, <2>1 DEF Take
  <2>6. Counted
    BY <2>4, <2>5, PendingNumbers
  <2> QED
    BY <1>0, <1>1, <2>1, <2>2, <2>6 DEF PendingInv, Take, NumTasks, RoundLen
<1>2. ASSUME NEW w \in Workers, Put(w) PROVE PendingInv'
  <2>1. busy[w] \in Tasks
    BY <1>2 DEF PendingInv, Put
  <2>2. /\ Append(output_queue, busy[w]) \in Seq(Tasks)
        /\ Len(Append(output_queue, busy[w])) = Len(output_queue) + 1
    BY <2>1, AppendProperties DEF PendingInv
  <2>3. busy' \in [Workers -> Tasks \cup {NoTask}]
    BY <1>2 DEF PendingInv, Put
  <2>4. Busy' = Busy \ {w} /\ w \in Busy
    BY <1>2 DEF PendingInv, Put, Busy
  <2>5. Cardinality(Busy') = Cardinality(Busy) - 1
    BY <2>4, PendingNumbers, FS_RemoveElement
  <2>6. /\ Len(input_queue') = Len(input_queue) /\ Len(output_queue') = Len(output_queue) + 1
        /\ Len(results') = Len(results)
        /\ pending_count' = pending_count /\ task_idx' = task_idx
    BY <1>2, <2>2 DEF Put
  <2>7. Counted
    BY <2>5, <2>6, PendingNumbers
  <2> QED
    BY <1>0, <1>2, <2>2, <2>3, <2>7 DEF PendingInv, Put, NumTasks, RoundLen
<1>3. CASE Dispatch
  <2>1. Task(task_idx + 1) \in Tasks
    BY TaskType DEF PendingInv
  <2>2. /\ Append(input_queue, Task(task_idx + 1)) \in Seq(Tasks)
        /\ Len(Append(input_queue, Task(task_idx + 1))) = Len(input_queue) + 1
    BY <2>1, AppendProperties DEF PendingInv
  <2>3. Busy' = Busy
    BY <1>3 DEF Dispatch, Busy
  <2>4. /\ Len(input_queue') = Len(input_queue) + 1 /\ Len(output_queue') = Len(output_queue)
        /\ Len(results') = Len(results)
        /\ pending_count' = pending_count + 1 /\ task_idx' = task_idx + 1
    BY <1>3, <2>2 DEF Dispatch
  <2>5. Counted
    <3>1. /\ pending_count = Len(input_queue) + Len(output_queue) + Cardinality(Busy)
          /\ task_idx = pending_count + Len(results)
          /\ Len(input_queue) \in Nat /\ Len(output_queue) \in Nat /\ Len(results) \in Nat
          /\ Cardinality(Busy) \in Nat
      BY PendingNumbers
    <3>2. Cardinality(Busy') = Cardinality(Busy)
      BY <2>3
    <3>3. PICK a, b, c, d : a = Len(input_queue) /\ b = Len(output_queue) /\ c = Cardinality(Busy) /\ d = Len(results)
      BY Zenon
    <3>4. a \in Nat /\ b \in Nat /\ c \in Nat /\ d \in Nat
      BY <3>1, <3>3, Zenon
    <3>5. /\ Len(input_queue') = a + 1 /\ Len(output_queue') = b /\ Len(results') = d
          /\ Cardinality(Busy') = c /\ pending_count' = (a + b + c) + 1 /\ task_idx' = ((a + b + c) + d) + 1
      BY <2>4, <3>1, <3>2, <3>3, Zenon
    <3>6. (a + b + c) + 1 = (a + 1) + b + c /\ ((a + b + c) + d) + 1 = ((a + b + c) + 1) + d
      BY <3>4
    <3> QED
      BY <3>5, <3>6, Zenon
  <2>6. NumTasks \in Int
    <3>1. PICK n, k : n = RoundLen /\ k = BatchSize /\ n \in Nat /\ k \in Nat \ {0}
      BY RoundLenInRange, SizesAssumption DEF PendingInv
    <3>2. (n + k - 1) \div k \in Int
      BY <3>1
    <3> QED
      BY <3>1, <3>2, Zenon DEF NumTasks
  <2>7. task_idx' <= NumTasks
    BY <1>3, <2>4, <2>6 DEF Dispatch, MayDispatch, PendingInv
  <2>8. NumTasks' = NumTasks
    BY <1>3 DEF Dispatch, NumTasks, RoundLen
  <2> QED
    BY <1>0, <1>3, <2>2, <2>4, <2>5, <2>7, <2>8 DEF PendingInv, Dispatch
<1>4. CASE Collect
  <2>1. /\ Head(output_queue) \in Tasks /\ Tail(output_queue) \in Seq(Tasks)
        /\ Len(Tail(output_queue)) = Len(output_queue) - 1
    BY <1>4, HeadTailProperties DEF PendingInv, Collect
  <2>2. /\ Append(results, Head(output_queue)) \in Seq(Tasks)
        /\ Len(Append(results, Head(output_queue))) = Len(results) + 1
    BY <2>1, AppendProperties DEF PendingInv
  <2>3. Busy' = Busy
    BY <1>4 DEF Collect, Busy
  <2>4. /\ Len(input_queue') = Len(input_queue) /\ Len(output_queue') = Len(output_queue) - 1
        /\ Len(results') = Len(results) + 1
        /\ pending_count' = pending_count - 1 /\ task_idx' = task_idx
    BY <1>4, <2>1, <2>2 DEF Collect
  <2>5. Counted
    <3>1. /\ pending_count = Len(input_queue) + Len(output_queue) + Cardinality(Busy)
          /\ task_idx = pending_count + Len(results)
          /\ task_idx \in Nat /\ pending_count \in Nat
          /\ Len(input_queue) \in Nat /\ Len(output_queue) \in Nat /\ Len(results) \in Nat
          /\ Cardinality(Busy) \in Nat
      BY PendingNumbers
    <3>2. Cardinality(Busy') = Cardinality(Busy)
      BY <2>3
    <3>3. PICK a, b, c, d : a = Len(input_queue) /\ b = Len(output_queue) /\ c = Cardinality(Busy) /\ d = Len(results)
      BY Zenon
    <3>4. a \in Nat /\ b \in Nat /\ c \in Nat /\ d \in Nat
      BY <3>1, <3>3, Zenon
    <3>5. /\ Len(input_queue') = a /\ Len(output_queue') = b - 1 /\ Len(results') = d + 1
          /\ Cardinality(Busy') = c /\ pending_count' = (a + b + c) - 1 /\ task_idx' = (a + b + c) + d
      BY <2>4, <3>1, <3>2, <3>3, Zenon
    <3> HIDE DEF Busy
    <3> QED
      BY <3>4, <3>5
  <2>6. pending_count' \in Nat
    BY <1>4, <2>4, PendingNumbers DEF Collect
  <2> QED
    BY <1>0, <1>4, <2>1, <2>2, <2>5, <2>6 DEF PendingInv, Collect, NumTasks, RoundLen
<1>5. CASE EndRound
  <2>1. Len(results) = task_idx
    <3>1. Len(results) = NumTasks
      BY <1>5 DEF EndRound
    <3>2. CASE task_idx = 0
      BY <3>2, PendingNumbers
    <3>3. CASE task_idx # 0
      <4>1. task_idx <= NumTasks
        BY <1>5, <3>3 DEF EndRound, PendingInv
      <4> QED
        BY <3>1, <4>1, PendingNumbers
    <3> QED
      BY <3>2, <3>3
  <2>2. pending_count = 0
    BY <2>1, PendingNumbers
  <2>3. base' \in 0..NumExamples
    BY <1>5, RoundLenInRange DEF PendingInv, EndRound
  <2>4. results' \in Seq(Tasks) /\ Len(results') = 0
    BY <1>5, EmptySeq DEF EndRound
  <2>5. Busy' = Busy
    BY <1>5 DEF EndRound, Busy
  <2>6. /\ input_queue' = input_queue /\ output_queue' = output_queue
        /\ pending_count' = pending_count /\ task_idx' = 0
    BY <1>5 DEF EndRound
  <2>7. Counted
    BY <2>2, <2>4, <2>5, <2>6, PendingNumbers
  <2> QED
    BY <1>0, <1>5, <2>3, <2>4, <2>6, <2>7 DEF PendingInv, EndRound
<1>6. ASSUME NEW s \in Starts, SaveChunk(s) PROVE PendingInv'
  BY <1>6 DEF SaveChunk, genVars, PendingInv, PendingExact, NumTasks, RoundLen
<1>7. CASE EndSave
  BY <1>7 DEF EndSave, genVars, PendingInv, PendingExact
<1>8. CASE Stop
  BY <1>8 DEF Stop, genVars, PendingInv, PendingExact
<1>9. CASE Stage2
  BY <1>9 DEF Stage2, genVars, PendingInv, PendingExact
<1>10. ASSUME NEW w \in Workers, Die(w) PROVE PendingInv'
  BY <1>10 DEF Die, genVars, PendingInv, PendingExact, NumTasks, RoundLen
<1>11. CASE Restart
  <2>1. Busy' = {} /\ Len(input_queue') = 0 /\ Len(output_queue') = 0 /\ Len(results') = 0
    BY <1>11, EmptySeq DEF Restart, Busy
  <2>2. Counted
    BY <1>11, <2>1, FS_EmptySet DEF Restart
  <2>3. /\ input_queue' \in Seq(Tasks) /\ output_queue' \in Seq(Tasks) /\ results' \in Seq(Tasks)
        /\ busy' \in [Workers -> Tasks \cup {NoTask}]
    BY <1>11, EmptySeq DEF Restart
  <2> QED
    BY <1>0, <1>11, <2>2, <2>3, SizesAssumption DEF Restart, PendingInv
<1>12. CASE UNCHANGED vars
  BY <1>12 DEF vars, genVars, PendingInv, PendingExact, NumTasks, RoundLen
<1> QED
  BY <1>1, <1>2, <1>3, <1>4, <1>5, <1>6, <1>7, <1>8, <1>9, <1>10, <1>11, <1>12 DEF Next, Main

(* _gen has not started: nothing is pending.                               *)
LEMMA PendingInit == Init => PendingInv
<1> SUFFICES ASSUME Init PROVE PendingInv
  OBVIOUS
<1>1. Busy = {}
  BY DEF Init, Busy
<1>2. Cardinality(Busy) = 0
  BY <1>1, FS_EmptySet
<1>3. PendingExact
  BY <1>2 DEF Init, PendingExact, Busy
<1> QED
  BY <1>3, SizesAssumption DEF Init, PendingInv

(* The counter by which the main process decides to block in get is exact: *)
(* it blocks only while a worker has, or will take, a batch of the round,  *)
(* and a round ends with both queues empty.                                *)
THEOREM PendingIsExact == Spec => []PendingExact
<1>1. PendingInv => PendingExact
  BY DEF PendingInv
<1> QED
  BY PendingInit, PendingStep, <1>1, PTL DEF Spec
-----------------------------------------------------------------------------
(* Where each batch and each label is.                                     *)

\* The labels of the first n examples, and those a chunk file has.
Numbers(n) == [i \in 1..n |-> i]
ChunkLen(s) == IF ChunkSize <= NumExamples - s THEN ChunkSize ELSE NumExamples - s
Chunk(s) == [j \in 1..ChunkLen(s) |-> s + j]

InRound(t) == \E i \in 1..NumTasks : t = Task(i)
Holds(q, t) == \E i \in 1..Len(q) : q[i] = t

\* The two queues, the workers and the results have all batches of the round
\* that were handed out, and no others.
Somewhere(t) ==
  \/ Holds(input_queue, t) \/ Holds(output_queue, t) \/ Holds(results, t)
  \/ \E w \in Workers : busy[w] = t
Places ==
  /\ \A i \in 1..task_idx : Somewhere(Task(i))
  /\ \A t : t # NoTask /\ Somewhere(t) => InRound(t)

Phases ==
  /\ pc \in {"gen", "save", "saved", "stopped", "training", "rejected"}
  /\ (pc = "gen" => base < NumExamples)
  /\ (pc \in {"save", "saved"} => base = NumExamples)
  /\ labels = Numbers(IF pc = "training" THEN NumExamples ELSE base)

Limits == task_idx <= NumTasks /\ pending_count <= MaxInFlight /\ dead \subseteq Workers

\* A file that is there is whole, whichever run of the job wrote it.
Saved ==
  /\ written \subseteq DOMAIN files
  /\ \A s \in DOMAIN files :
       s \in 0..NumExamples - 1 /\ s % ChunkSize = 0 /\ files[s] = Chunk(s)

LabelInv == Places /\ Phases /\ Limits /\ Saved
-----------------------------------------------------------------------------
(* The sizes, as naturals.                                                 *)
LEMMA Sizes ==
  /\ NumExamples \in Nat \ {0} /\ RoundSize \in Nat \ {0} /\ BatchSize \in Nat \ {0}
  /\ MaxInFlight \in Nat \ {0} /\ ChunkSize \in Nat \ {0}
BY SizesAssumption

(* The round, in numbers.                                                  *)
LEMMA RoundNumbers ==
  ASSUME PendingInv
  PROVE  /\ RoundLen \in Nat /\ RoundLen <= RoundSize /\ base + RoundLen <= NumExamples
         /\ (base < NumExamples => RoundLen # 0) /\ base \in Nat
         /\ NumTasks \in Nat /\ (RoundLen # 0 => NumTasks # 0)
         /\ \A i \in 1..NumTasks : BatchSize * (i - 1) < RoundLen
<1>1. base \in Nat /\ base <= NumExamples /\ NumExamples - base \in Nat
  BY Sizes DEF PendingInv
<1>2. RoundLen = IF RoundSize <= NumExamples - base THEN RoundSize ELSE NumExamples - base
  BY <1>1, Sizes, MinOfTwo DEF RoundLen
<1>3. /\ RoundLen \in Nat /\ RoundLen <= RoundSize /\ base + RoundLen <= NumExamples
      /\ (base < NumExamples => RoundLen # 0)
  BY <1>1, <1>2, Sizes
<1>4. NumTasks = (RoundLen + BatchSize - 1) \div BatchSize
  BY DEF NumTasks
<1>5. /\ NumTasks \in Nat /\ (RoundLen # 0 => NumTasks # 0)
      /\ \A i \in 1..NumTasks : BatchSize * (i - 1) < RoundLen
  <2>1. PICK n, k, c : n = RoundLen /\ k = BatchSize /\ c = NumTasks
    BY Zenon
  <2>2. n \in Nat /\ k \in Nat \ {0} /\ c = (n + k - 1) \div k
    BY <1>3, <1>4, <2>1, Sizes, Zenon
  <2>3. c \in Nat /\ (n # 0 => c # 0) /\ \A i \in 1..c : k * (i - 1) < n
    BY <2>2, CeilDiv
  <2> QED
    BY <2>1, <2>3, Zenon
<1> QED
  BY <1>1, <1>3, <1>5

\* What the i-th batch of the round is.
IsTask(t, i) ==
  /\ t.id = BatchSize * (i - 1) + 1 /\ t.id \in 1..RoundSize
  /\ t.examples \in Seq(1..NumExamples)
  /\ Len(t.examples) = IF BatchSize <= RoundLen - BatchSize * (i - 1) THEN BatchSize
                       ELSE RoundLen - BatchSize * (i - 1)
  /\ \A j \in 1..Len(t.examples) : t.examples[j] = base + (BatchSize * (i - 1) + j)

(* A batch is a slice of the round.                                        *)
LEMMA TaskMeans ==
  ASSUME PendingInv, NEW i \in 1..NumTasks
  PROVE  IsTask(Task(i), i)
<1>1. PICK p : p = BatchSize * (i - 1) /\ p \in Nat
  <2>1. PICK h : h = i - 1 /\ h \in Nat
    BY RoundNumbers
  <2>2. BatchSize * h \in Nat
    BY <2>1, Sizes
  <2> QED
    BY <2>1, <2>2, Zenon
<1>2. (i - 1) * BatchSize = p
  BY <1>1, RoundNumbers, Sizes
<1>3. p < RoundLen /\ RoundLen \in Nat /\ RoundLen <= RoundSize /\ base + RoundLen <= NumExamples /\ base \in Nat
  BY <1>1, RoundNumbers
<1>4. PICK len : len = (IF BatchSize <= RoundLen - p THEN BatchSize ELSE RoundLen - p)
                 /\ len \in Nat /\ p + len <= RoundLen
  BY <1>1, <1>3, Sizes
<1>5. Min({BatchSize, RoundLen - p}) = len
  BY <1>1, <1>3, <1>4, Sizes, MinOfTwo
<1> DEFINE e(j) == base + p + j
<1>6. Task(i) = [id |-> p + 1, examples |-> [j \in 1..len |-> e(j)]]
  BY <1>2, <1>5 DEF Task
<1>7. ASSUME NEW j \in 1..len PROVE e(j) = base + (p + j) /\ e(j) \in 1..NumExamples
  BY <1>1, <1>3, <1>4, Sizes
<1>13. \A j \in 1..len : e(j) \in 1..NumExamples
  BY <1>7
<1> HIDE DEF e
<1>8. [j \in 1..len |-> e(j)] \in Seq(1..NumExamples) /\ Len([j \in 1..len |-> e(j)]) = len
  <2> DEFINE f == [j \in 1..len |-> e(j)]
  <2>1. DOMAIN f = 1..len /\ f = [j \in DOMAIN f |-> f[j]] /\ \A j \in 1..len : f[j] \in 1..NumExamples
    BY <1>13
  <2>2. len \in Nat
    BY <1>4
  <2> HIDE DEF f
  <2>3. f \in Seq(1..NumExamples) /\ Len(f) = len
    BY <2>1, <2>2, IsSequence
  <2> QED
    BY <2>3 DEF f
<1>9. Task(i).id = p + 1 /\ Task(i).examples = [j \in 1..len |-> e(j)]
  BY <1>6
<1>10. Task(i).examples \in Seq(1..NumExamples) /\ Len(Task(i).examples) = len
  BY <1>8, <1>9
<1>11. \A j \in 1..len : Task(i).examples[j] = base + (p + j)
  BY <1>7, <1>9
<1>12. p + 1 \in 1..RoundSize
  BY <1>1, <1>3, Sizes
<1> QED
  BY <1>1, <1>4, <1>9, <1>10, <1>11, <1>12 DEF IsTask

(* Batches have ascending ids, so that no two are the same.                *)
LEMMA TasksDiffer ==
  ASSUME PendingInv, NEW i \in 1..NumTasks, NEW j \in 1..NumTasks
  PROVE  /\ Task(i).id \in Int
         /\ (i < j => Task(i).id < Task(j).id)
         /\ (Task(i) = Task(j) => i = j)
<1>1. /\ Task(i).id = BatchSize * (i - 1) + 1 /\ Task(j).id = BatchSize * (j - 1) + 1
      /\ Task(i).id \in Int /\ Task(j).id \in Int
  BY TaskMeans DEF IsTask
<1>2. i \in Int /\ j \in Int /\ i - 1 \in Int /\ j - 1 \in Int
  BY RoundNumbers
<1>3. i < j => Task(i).id < Task(j).id
  <2> SUFFICES ASSUME i < j PROVE Task(i).id < Task(j).id
    OBVIOUS
  <2>1. BatchSize * (i - 1) + BatchSize <= BatchSize * (j - 1)
    BY <1>2, Sizes, TimesGrows
  <2>2. PICK a, b : a = BatchSize * (i - 1) /\ b = BatchSize * (j - 1) /\ a \in Int /\ b \in Int
    BY <1>2, Sizes
  <2> QED
    BY <1>1, <2>1, <2>2, Sizes
<1>4. j < i => Task(j).id < Task(i).id
  <2> SUFFICES ASSUME j < i PROVE Task(j).id < Task(i).id
    OBVIOUS
  <2>1. BatchSize * (j - 1) + BatchSize <= BatchSize * (i - 1)
    BY <1>2, Sizes, TimesGrows
  <2>2. PICK a, b : a = BatchSize * (i - 1) /\ b = BatchSize * (j - 1) /\ a \in Int /\ b \in Int
    BY <1>2, Sizes
  <2> QED
    BY <1>1, <2>1, <2>2, Sizes
<1>5. Task(i) = Task(j) => ~(i < j) /\ ~(j < i)
  <2> SUFFICES ASSUME Task(i).id = Task(j).id PROVE ~(i < j) /\ ~(j < i)
    OBVIOUS
  <2> QED
    BY <1>1, <1>3, <1>4
<1> QED
  BY <1>1, <1>2, <1>3, <1>5

(* When a round ends, the results are its batches, in some order.          *)
LEMMA ResultsAreTheRound ==
  ASSUME PendingInv, LabelInv, pc = "gen", Len(results) = NumTasks
  PROVE  \A i \in 1..NumTasks : \E j \in 1..NumTasks : results[j] = Task(i)
<1>1. /\ pending_count = Len(input_queue) + Len(output_queue) + Cardinality(Busy)
      /\ task_idx = pending_count + Len(results)
      /\ task_idx \in Nat /\ pending_count \in Nat
      /\ Len(input_queue) \in Nat /\ Len(output_queue) \in Nat /\ Len(results) \in Nat
      /\ IsFiniteSet(Busy) /\ Cardinality(Busy) \in Nat
  BY PendingNumbers
<1>2. NumTasks \in Nat /\ task_idx <= NumTasks
  BY RoundNumbers DEF LabelInv, Limits
<1>3. task_idx = NumTasks /\ pending_count = 0
  BY <1>1, <1>2
<1>4. Len(input_queue) = 0 /\ Len(output_queue) = 0 /\ Cardinality(Busy) = 0
  BY <1>1, <1>3
<1>5. Busy = {}
  BY <1>1, <1>4, FS_EmptySet
<1>6. ASSUME NEW i \in 1..NumTasks PROVE \E j \in 1..NumTasks : results[j] = Task(i)
  <2>1. Somewhere(Task(i))
    BY <1>3, <1>6 DEF LabelInv, Places
  <2>2. Task(i) # NoTask
    <3>1. Task(i).id \in 1..RoundSize
      BY TaskMeans DEF IsTask
    <3>2. NoTask.id = 0
      BY DEF NoTask
    <3> QED
      BY <3>1, <3>2, Sizes
  <2>3. \A w \in Workers : busy[w] # Task(i)
    BY <1>5, <2>2 DEF Busy
  <2>4. ~Holds(input_queue, Task(i)) /\ ~Holds(output_queue, Task(i))
    BY <1>4 DEF Holds
  <2> QED
    BY <2>1, <2>3, <2>4 DEF Somewhere, Holds
<1> QED
  BY <1>6
-----------------------------------------------------------------------------
(* The end of a round.                                                     *)

(* Sorted by id and flattened, the results are the labels of the round.    *)
LEMMA SortedLabelsAre ==
  ASSUME PendingInv, LabelInv, pc = "gen", Len(results) = NumTasks
  PROVE  SortedLabels = [q \in 1..RoundLen |-> base + q]
<1> DEFINE n == NumTasks
           key == [i \in 1..Len(results) |-> results[i].id]
           sorted == SortedBy(results, key)
           seqs == [i \in 1..Len(sorted) |-> sorted[i].examples]
           e(q) == base + q
           T == [q \in 1..RoundLen |-> e(q)]
<1>1. /\ n \in Nat \ {0} /\ RoundLen \in Nat \ {0} /\ base \in Nat /\ base + RoundLen <= NumExamples
  BY RoundNumbers DEF LabelInv, Phases
<1>2. SortedLabels = FlattenSeq(seqs)
  BY DEF SortedLabels
<1>3. \A i \in 1..n : \E j \in 1..n : results[j] = Task(i)
  BY ResultsAreTheRound
<1>4. DOMAIN results = 1..n /\ Len(results) = n
  BY <1>1 DEF PendingInv
<1> HIDE DEF n
<1> DEFINE p == [i \in 1..n |-> CHOOSE j \in 1..n : results[j] = Task(i)]
<1>5. \A i \in 1..n : p[i] \in 1..n /\ results[p[i]] = Task(i)
  BY <1>3
<1> HIDE DEF p
<1>6. \A i, j \in 1..n : /\ Task(i).id \in Int
                         /\ (i < j => Task(i).id < Task(j).id)
                         /\ (Task(i) = Task(j) => i = j)
  BY TasksDiffer DEF n
<1>7. \A i, j \in 1..n : p[i] = p[j] => i = j
  BY <1>5, <1>6
<1>8. \A k \in 1..n : \E i \in 1..n : p[i] = k
  <2>1. n \in Nat
    BY <1>1
  <2>2. Permutes(p, n)
    BY <1>5, <1>7 DEF Permutes
  <2>3. Covers(p, n)
    BY <2>1, <2>2, Pigeonhole, Zenon
  <2> QED
    BY <2>3 DEF Covers
<1>9. \A i \in 1..n : key[p[i]] = Task(i).id
  BY <1>4, <1>5
<1> HIDE DEF key
<1>10. Sorts(p, n, key)
  BY <1>5, <1>6, <1>8, <1>9 DEF Sorts
<1>11. DOMAIN sorted = 1..n /\ \A r \in 1..n : sorted[r] = results[p[r]]
  BY <1>1, <1>4, <1>10, SortedByIs
<1> HIDE DEF sorted
<1>12. Len(sorted) = n
  BY <1>1, <1>11
<1>13. ASSUME NEW i \in 1..n PROVE seqs[i] = Task(i).examples /\ IsTask(Task(i), i)
  <2>1. sorted[i] = Task(i)
    BY <1>5, <1>11
  <2>2. seqs[i] = sorted[i].examples
    BY <1>12
  <2> QED
    BY <2>1, <2>2, TaskMeans DEF n
<1>14. DOMAIN seqs = 1..n /\ seqs = [i \in 1..n |-> seqs[i]]
  BY <1>12
<1> HIDE DEF seqs
<1>15. \A i \in 1..n : seqs[i] \in Seq(1..NumExamples)
  BY <1>13 DEF IsTask
<1>16. seqs \in Seq(Seq(1..NumExamples)) /\ Len(seqs) = n
  BY <1>1, <1>14, <1>15
<1>17. T \in Seq(1..NumExamples) /\ Len(T) = RoundLen
  <2>1. \A q \in 1..RoundLen : e(q) \in 1..NumExamples
    BY <1>1, Sizes
  <2> HIDE DEF e
  <2>2. T \in Seq(1..NumExamples)
    BY <1>1, <2>1, IsASeq
  <2> QED
    BY <1>1, <2>2
<1>18. Slices(seqs, T, RoundLen, BatchSize)
  <2>1. n = (RoundLen + BatchSize - 1) \div BatchSize
    BY DEF n, NumTasks
  <2>2. ASSUME NEW i \in 1..n
        PROVE  /\ Len(seqs[i]) = IF BatchSize <= RoundLen - BatchSize * (i - 1) THEN BatchSize
                                 ELSE RoundLen - BatchSize * (i - 1)
               /\ \A j \in 1..Len(seqs[i]) : seqs[i][j] = T[BatchSize * (i - 1) + j]
    <3>1. PICK o : o = BatchSize * (i - 1) /\ o \in Nat
      <4>1. PICK h : h = i - 1 /\ h \in Nat
        BY <1>1
      <4>2. BatchSize * h \in Nat
        BY <4>1, Sizes
      <4> QED
        BY <4>1, <4>2, Zenon
    <3>2. PICK l : l = Len(seqs[i])
      BY Zenon
    <3>3. /\ l = IF BatchSize <= RoundLen - o THEN BatchSize ELSE RoundLen - o
          /\ \A j \in 1..l : seqs[i][j] = base + (o + j)
      BY <1>13, <3>1, <3>2, Zenon DEF IsTask
    <3>4. ASSUME NEW j \in 1..l PROVE o + j \in 1..RoundLen
      BY <1>1, <3>1, <3>3, Sizes
    <3>5. \A j \in 1..l : T[o + j] = base + (o + j)
      BY <3>4
    <3> HIDE DEF T
    <3>6. \A j \in 1..l : seqs[i][j] = T[o + j]
      BY <3>3, <3>5
    <3> QED
      BY <3>1, <3>2, <3>3, <3>6, Zenon
  <2> HIDE DEF T
  <2> QED
    BY <1>16, <2>1, <2>2 DEF Slices
<1> HIDE DEF T
<1>19. FlattenSeq(seqs) = T
  BY <1>1, <1>16, <1>17, <1>18, Sizes, SlicesFlatten
<1> QED
  BY <1>2, <1>19 DEF T

(* Labels so far, and those of the next round.                             *)
LEMMA NumbersGrow ==
  ASSUME NEW n \in Nat, NEW m \in Nat
  PROVE  Numbers(n) \o [q \in 1..m |-> n + q] = Numbers(n + m)
<1> DEFINE a == Numbers(n)
           b == [q \in 1..m |-> n + q]
<1>1. a \in Seq(Int) /\ Len(a) = n /\ b \in Seq(Int) /\ Len(b) = m
  BY DEF Numbers
<1>3. \A i \in 1..n : a[i] = i
  BY DEF Numbers
<1>4. \A q \in 1..m : b[q] = n + q
  OBVIOUS
<1> DEFINE u == a \o b
<1> HIDE DEF a, b, u
<1>2. Joins(u, a, b)
  BY Zenon DEF Joins, u
<1>5. /\ u \in Seq(Int) /\ Len(u) = n + m
      /\ \A k \in 1..n+m : u[k] = IF k <= n THEN a[k] ELSE b[k - n]
  <2>1. /\ a \in Seq(Int) /\ b \in Seq(Int) /\ Joins(u, a, b)
        /\ n \in Nat /\ Len(a) = n /\ m \in Nat /\ Len(b) = m
    BY <1>1, <1>2
  <2>2. JoinOf(u, a, b, n, m, Int)
    BY <2>1, Concatenation, Zenon
  <2> QED
    BY <2>2 DEF JoinOf
<1>6. ASSUME NEW k \in 1..n+m PROVE u[k] = k
  <2>1. CASE k <= n
    <3>1. k \in 1..n
      BY <2>1
    <3> QED
      BY <1>3, <1>5, <2>1, <3>1
  <2>2. CASE ~(k <= n)
    <3>1. k - n \in 1..m /\ n + (k - n) = k
      BY <2>2
    <3> QED
      BY <1>4, <1>5, <2>2, <3>1
  <2> QED
    BY <2>1, <2>2
<1>7. u = [k \in 1..n+m |-> u[k]]
  BY <1>5
<1>8. u = Numbers(n + m)
  BY <1>6, <1>7 DEF Numbers
<1> QED
  BY <1>8 DEF u, a, b

(* What save_chunk writes.                                                 *)
LEMMA ChunkIs ==
  ASSUME NEW s \in 0..NumExamples - 1
  PROVE  /\ SubSeq(Numbers(NumExamples), s + 1, Min({s + ChunkSize, Len(Numbers(NumExamples))})) = Chunk(s)
         /\ ChunkLen(s) \in Nat \ {0} /\ s + ChunkLen(s) <= NumExamples
         /\ Chunk(s) \in Seq(1..NumExamples) /\ Len(Chunk(s)) = ChunkLen(s)
<1>1. ChunkLen(s) \in Nat \ {0} /\ s + ChunkLen(s) <= NumExamples
  BY Sizes DEF ChunkLen
<1>2. Len(Numbers(NumExamples)) = NumExamples /\ Numbers(NumExamples) \in Seq(1..NumExamples)
  BY Sizes DEF Numbers
<1>3. Min({s + ChunkSize, NumExamples}) = s + ChunkLen(s)
  BY Sizes, MinOfTwo DEF ChunkLen
<1>4. SubSeq(Numbers(NumExamples), s + 1, s + ChunkLen(s)) = Chunk(s)
  <2>1. PICK l : l = ChunkLen(s) /\ l \in Nat \ {0} /\ s + l <= NumExamples
    BY <1>1
  <2> DEFINE a == Numbers(NumExamples)
             u == SubSeq(a, s + 1, s + l)
  <2>2. a \in Seq(1..NumExamples) /\ Len(a) = NumExamples /\ \A i \in 1..NumExamples : a[i] = i
    BY <1>2 DEF Numbers
  <2> HIDE DEF a
  <2>3. Sliced(u, a, s, l)
    BY DEF Sliced
  <2> HIDE DEF u
  <2>4. s \in Nat /\ l \in Nat /\ l # 0 /\ s + l <= Len(a)
    BY <2>1, <2>2
  <2>5. u \in Seq(1..NumExamples) /\ Len(u) = l /\ \A i \in 1..l : u[i] = a[s + i]
    <3>1. a \in Seq(1..NumExamples)
      BY <2>2
    <3>2. Follows(u, a, s, l, 1..NumExamples)
      BY <2>3, <2>4, <3>1, SliceMeans, Zenon
    <3> QED
      BY <3>2 DEF Follows
  <2>6. \A i \in 1..l : u[i] = s + i
    <3>1. \A i \in 1..l : s + i \in 1..NumExamples
      BY <2>1, Sizes
    <3> QED
      BY <2>2, <2>5, <3>1
  <2>7. DOMAIN u = 1..l /\ u = [i \in 1..l |-> u[i]]
    BY <2>5
  <2>8. Chunk(s) = [i \in 1..l |-> s + i]
    BY <2>1 DEF Chunk
  <2>9. u = Chunk(s)
    BY <2>6, <2>7, <2>8
  <2> QED
    BY <2>1, <2>9 DEF u, a
<1>5. Chunk(s) \in Seq(1..NumExamples) /\ Len(Chunk(s)) = ChunkLen(s)
  <2> DEFINE e(j) == s + j
           f == Chunk(s)
  <2>1. \A j \in 1..ChunkLen(s) : e(j) \in 1..NumExamples
    BY <1>1, Sizes
  <2>2. f = [j \in 1..ChunkLen(s) |-> e(j)]
    BY DEF Chunk
  <2> HIDE DEF e, f
  <2>3. DOMAIN f = 1..ChunkLen(s) /\ f = [j \in DOMAIN f |-> f[j]]
        /\ \A j \in 1..ChunkLen(s) : f[j] \in 1..NumExamples
    BY <2>1, <2>2
  <2>4. ChunkLen(s) \in Nat
    BY <1>1
  <2>5. f \in Seq(1..NumExamples) /\ Len(f) = ChunkLen(s)
    BY <2>3, <2>4, IsSequence
  <2> QED
    BY <2>5 DEF f
<1> QED
  BY <1>1, <1>2, <1>3, <1>4, <1>5
-----------------------------------------------------------------------------
(* What stage 2 loads.                                                     *)

(* Between two starts of chunks there is a chunk.                          *)
LEMMA StartsApart ==
  ASSUME NEW x \in Nat, NEW y \in Nat, x % ChunkSize = 0, y % ChunkSize = 0, x < y
  PROVE  x + ChunkSize <= y
<1>1. PICK k : k = ChunkSize /\ k \in Nat \ {0}
  BY Sizes
<1>2. PICK a, b : /\ a \in Nat /\ b \in Nat /\ x = k * a /\ y = k * b
  <2>1. x = k * (x \div k) + (x % k) /\ x \div k \in Nat /\ y = k * (y \div k) + (y % k) /\ y \div k \in Nat
    BY <1>1, DivMod
  <2>2. PICK a, b : a = x \div k /\ b = y \div k
    BY Zenon
  <2>3. x % k = 0 /\ y % k = 0
    BY <1>1
  <2>4. x = k * a /\ y = k * b /\ a \in Nat /\ b \in Nat
    <3>1. x = k * a + 0 /\ y = k * b + 0 /\ a \in Nat /\ b \in Nat
      BY <2>1, <2>2, <2>3, Zenon
    <3>2. k * a \in Int /\ k * b \in Int
      BY <1>1, <3>1
    <3> QED
      BY <3>1, <3>2
  <2> QED
    BY <2>4
<1>3. a < b
  <2> SUFFICES ASSUME ~(a < b) PROVE FALSE
    OBVIOUS
  <2>1. a = b \/ b < a
    BY <1>2
  <2>2. CASE a = b
    BY <1>2, <2>2
  <2>3. CASE b < a
    <3>1. k * b + k <= k * a
      BY <1>1, <1>2, <2>3, TimesGrows
    <3> QED
      BY <1>1, <1>2, <3>1
  <2> QED
    BY <2>1, <2>2, <2>3
<1>4. k * a + k <= k * b
  BY <1>1, <1>2, <1>3, TimesGrows
<1> QED
  BY <1>1, <1>2, <1>4

\* The files that are there, in the order of their starts: a lists the starts,
\* and o[i] labels come before the file after the i-th.
InLine(a, m, o) ==
  /\ m \in Nat \ {0} /\ o[0] = 0
  /\ \A i \in 1..m : /\ a[i] \in 0..NumExamples - 1 /\ a[i] % ChunkSize = 0
                     /\ o[i] \in Nat /\ o[i] = o[i-1] + ChunkLen(a[i])
  /\ \A i, j \in 1..m : i < j => a[i] < a[j]

(* As many labels as examples are in the files only when each file begins  *)
(* where those before it end: no file is missing.                          *)
LEMMA NoneMissing ==
  ASSUME NEW a, NEW m, NEW o, InLine(a, m, o), o[m] = NumExamples
  PROVE  \A i \in 1..m : o[i-1] = a[i]
<1> DEFINE E == [i \in 0..m |-> IF i = 0 THEN 0 ELSE a[i] + ChunkLen(a[i])]
<1>1. m \in Nat \ {0} /\ o[0] = 0
  BY DEF InLine
<1>2. ASSUME NEW i \in 1..m
      PROVE  /\ a[i] \in 0..NumExamples - 1 /\ a[i] % ChunkSize = 0
             /\ o[i] \in Nat /\ o[i] = o[i-1] + ChunkLen(a[i])
  BY DEF InLine
<1>3. ASSUME NEW i \in 1..m
      PROVE  /\ E[i] = a[i] + ChunkLen(a[i]) /\ E[i] \in Nat /\ E[i] <= NumExamples
             /\ ChunkLen(a[i]) \in Nat
  <2>1. PICK s : s = a[i] /\ s \in 0..NumExamples - 1
    BY <1>2
  <2>2. ChunkLen(s) \in Nat \ {0} /\ s + ChunkLen(s) <= NumExamples
    BY <2>1, ChunkIs
  <2>3. E[i] = a[i] + ChunkLen(a[i])
    BY <1>1
  <2>4. E[i] = s + ChunkLen(s)
    BY <2>1, <2>3, Zenon
  <2>5. s + ChunkLen(s) \in Nat
    BY <2>1, <2>2, Sizes
  <2> QED
    BY <2>1, <2>2, <2>3, <2>4, <2>5, Zenon
<1>4. E[0] = 0
  BY <1>1
<1>5. ASSUME NEW i \in 1..m PROVE E[i-1] <= a[i] /\ E[i-1] \in Nat
  <2>1. CASE i = 1
    BY <1>2, <1>4, <2>1
  <2>2. CASE i # 1
    <3>1. i - 1 \in 1..m /\ i - 1 < i
      BY <1>1, <2>2
    <3>2. /\ a[i-1] \in 0..NumExamples - 1 /\ a[i] \in 0..NumExamples - 1
          /\ a[i-1] % ChunkSize = 0 /\ a[i] % ChunkSize = 0
      BY <1>2, <3>1
    <3>3. a[i-1] < a[i]
      BY <3>1 DEF InLine
    <3>4. PICK x, y : x = a[i-1] /\ y = a[i] /\ x \in Nat /\ y \in Nat
      BY <3>2, Sizes
    <3>5. x % ChunkSize = 0 /\ y % ChunkSize = 0 /\ x < y
      BY <3>2, <3>3, <3>4, Zenon
    <3>6. x + ChunkSize <= y
      BY <3>4, <3>5, StartsApart
    <3>7. ChunkLen(x) <= ChunkSize
      BY <3>2, <3>4, Sizes DEF ChunkLen
    <3>8. x + ChunkLen(x) <= y
      <4>1. ChunkLen(x) \in Nat
        BY <1>3, <3>1, <3>4
      <4> QED
        BY <3>4, <3>6, <3>7, <4>1, Sizes
    <3> QED
      BY <1>3, <3>1, <3>4, <3>8
  <2> QED
    BY <2>1, <2>2
<1> HIDE DEF E
<1>6. \A i \in 0..m : o[i] \in Nat /\ E[i] \in Nat
  BY <1>1, <1>2, <1>3, <1>4
<1>7. \A i \in 0..m : o[i] <= E[i]
  <2> DEFINE Bad == {i \in 0..m : ~(o[i] <= E[i])}
  <2> SUFFICES ASSUME Bad # {} PROVE FALSE
    OBVIOUS
  <2>1. PICK k \in Bad : \A l \in Bad : k <= l
    <3>1. Bad \in SUBSET Nat
      BY <1>1
    <3> HIDE DEF Bad
    <3> QED
      BY <3>1, LeastNatural
  <2>2. k # 0
    BY <1>1, <1>4, <2>1
  <2>3. k \in 1..m /\ k - 1 \in 0..m /\ ~(o[k] <= E[k])
    BY <1>1, <2>1, <2>2
  <2>4. o[k-1] <= E[k-1]
    BY <2>1, <2>3
  <2>5. /\ o[k] = o[k-1] + ChunkLen(a[k]) /\ E[k] = a[k] + ChunkLen(a[k])
        /\ ChunkLen(a[k]) \in Nat /\ a[k] \in 0..NumExamples - 1
        /\ E[k-1] <= a[k] /\ E[k-1] \in Nat /\ o[k-1] \in Nat
    BY <1>2, <1>3, <1>5, <1>6, <2>3
  <2>6. PICK u, v, c, x, y, z : /\ u = o[k-1] /\ v = E[k-1] /\ c = ChunkLen(a[k]) /\ x = a[k]
                               /\ y = o[k] /\ z = E[k]
    BY Zenon
  <2>7. /\ ~(y <= z) /\ y = u + c /\ z = x + c /\ c \in Nat /\ x \in 0..NumExamples - 1
        /\ v <= x /\ v \in Nat /\ u \in Nat /\ u <= v
    BY <2>3, <2>4, <2>5, <2>6, Zenon
  <2>8. x \in Nat
    BY <2>7, Sizes
  <2> QED
    BY <2>7, <2>8
<1>8. \A i \in 0..m : o[i] = E[i]
  <2> DEFINE Bad == {i \in 0..m : o[i] # E[i]}
  <2> SUFFICES ASSUME Bad # {} PROVE FALSE
    OBVIOUS
  <2>1. PICK k \in Bad : \A l \in Bad : l <= k
    <3>1. Bad \in SUBSET Nat /\ \A l \in Bad : l <= m
      BY <1>1
    <3> HIDE DEF Bad
    <3> QED
      BY <1>1, <3>1, GreatestNatural
  <2>2. k # m
    <3>1. m \in 1..m /\ m \in 0..m
      BY <1>1
    <3>2. E[m] <= NumExamples /\ o[m] <= E[m] /\ E[m] \in Nat
      BY <1>3, <1>7, <3>1
    <3> QED
      BY <2>1, <3>2, Sizes
  <2>3. k + 1 \in 1..m /\ k + 1 \in 0..m /\ (k + 1) - 1 = k /\ k \in 0..m /\ o[k] # E[k]
    BY <1>1, <2>1, <2>2
  <2>4. o[k+1] = E[k+1]
    <3>1. k + 1 \notin Bad
      BY <2>1, <2>3
    <3> QED
      BY <2>3, <3>1
  <2>5. /\ o[k+1] = o[k] + ChunkLen(a[k+1]) /\ E[k+1] = a[k+1] + ChunkLen(a[k+1])
        /\ ChunkLen(a[k+1]) \in Nat /\ a[k+1] \in 0..NumExamples - 1
        /\ E[k] <= a[k+1] /\ E[k] \in Nat /\ o[k] \in Nat /\ o[k] <= E[k]
    <3>1. PICK l : l = k + 1 /\ l \in 1..m /\ l - 1 = k
      BY <2>3
    <3>2. /\ o[l] = o[l-1] + ChunkLen(a[l]) /\ E[l] = a[l] + ChunkLen(a[l])
          /\ ChunkLen(a[l]) \in Nat /\ a[l] \in 0..NumExamples - 1
          /\ E[l-1] <= a[l] /\ E[l-1] \in Nat
      BY <1>2, <1>3, <1>5, <3>1
    <3>3. o[k] \in Nat /\ o[k] <= E[k]
      BY <1>6, <1>7, <2>3
    <3> QED
      BY <3>1, <3>2, <3>3, Zenon
  <2>6. PICK u, v, c, x, y, z : /\ u = o[k] /\ v = E[k] /\ c = ChunkLen(a[k+1]) /\ x = a[k+1]
                               /\ y = o[k+1] /\ z = E[k+1]
    BY Zenon
  <2>7. y = z /\ y = u + c /\ z = x + c /\ c \in Nat /\ x \in 0..NumExamples - 1
        /\ v <= x /\ v \in Nat /\ u \in Nat /\ u <= v /\ u # v
    BY <2>3, <2>4, <2>5, <2>6, Zenon
  <2> HIDE DEF Bad
  <2>8. x \in Nat
    BY <2>7, Sizes
  <2>9. u + c = x + c
    BY <2>7, Zenon
  <2>10. u = x
    BY <2>7, <2>8, <2>9
  <2>11. u <= v /\ v <= u
    BY <2>7, <2>10, Zenon
  <2>12. u = v
    BY <2>7, <2>11
  <2> QED
    BY <2>7, <2>12
<1>9. ASSUME NEW i \in 1..m PROVE o[i-1] = a[i]
  <2>1. i \in 0..m
    BY <1>1
  <2>2. /\ o[i] = E[i] /\ E[i] = a[i] + ChunkLen(a[i]) /\ o[i] = o[i-1] + ChunkLen(a[i])
        /\ ChunkLen(a[i]) \in Nat /\ a[i] \in 0..NumExamples - 1
    BY <1>2, <1>3, <1>8, <2>1
  <2>3. i - 1 \in 0..m
    BY <1>1
  <2>4. o[i-1] \in Nat
    BY <1>6, <2>3
  <2> QED
    BY <2>2, <2>4
<1> QED
  BY <1>9

(* Stage 2 accepts what it loads only when it is the label of each example *)
(* in turn.                                                                *)
LEMMA LoadedAre ==
  ASSUME Saved, Accept(LoadAllChunks)
  PROVE  LoadAllChunks = Numbers(NumExamples)
<1> DEFINE D == DOMAIN files
           a == Ascending(D)
           m == Cardinality(D)
           seqs == [i \in 1..Len(a) |-> files[a[i]]]
           F == FlattenSeq(seqs)
<1>1. LoadAllChunks = F /\ Len(F) = NumExamples
  BY DEF LoadAllChunks, Accept
<1>2. m \in Nat /\ DOMAIN a = 1..m /\ Ranked(a, m, D)
  <2>1. D \in SUBSET (0..NumExamples - 1) /\ NumExamples - 1 \in Nat
    BY Sizes DEF Saved
  <2> HIDE DEF D
  <2> QED
    BY <2>1, AscendingRanked
<1>3. \A s \in D : s \in 0..NumExamples - 1 /\ s % ChunkSize = 0 /\ files[s] = Chunk(s)
  BY DEF Saved
<1> HIDE DEF D, m
<1>4. Len(a) = m
  BY <1>2 DEF Ascending, m
<1> HIDE DEF a
<1>5. \A i \in 1..m : a[i] \in D
  BY <1>2 DEF Ranked
<1>6. ASSUME NEW i \in 1..m
      PROVE  /\ seqs[i] = Chunk(a[i]) /\ seqs[i] \in Seq(1..NumExamples)
             /\ Len(seqs[i]) = ChunkLen(a[i]) /\ ChunkLen(a[i]) \in Nat \ {0}
             /\ a[i] + ChunkLen(a[i]) <= NumExamples
             /\ a[i] \in 0..NumExamples - 1 /\ a[i] % ChunkSize = 0
  <2>1. a[i] \in 0..NumExamples - 1 /\ a[i] % ChunkSize = 0 /\ files[a[i]] = Chunk(a[i])
    BY <1>3, <1>5
  <2>2. seqs[i] = files[a[i]]
    BY <1>4
  <2>3. /\ ChunkLen(a[i]) \in Nat \ {0} /\ a[i] + ChunkLen(a[i]) <= NumExamples
        /\ Chunk(a[i]) \in Seq(1..NumExamples) /\ Len(Chunk(a[i])) = ChunkLen(a[i])
    BY <2>1, ChunkIs
  <2> QED
    BY <2>1, <2>2, <2>3
<1>7. DOMAIN seqs = 1..m /\ seqs = [i \in DOMAIN seqs |-> seqs[i]]
  BY <1>4
<1>8. Len(seqs) = 0 => F = seqs
  BY DEF FlattenSeq
<1> HIDE DEF seqs, F
<1>9. seqs \in Seq(Seq(1..NumExamples)) /\ Len(seqs) = m
  <2>1. \A i \in 1..m : seqs[i] \in Seq(1..NumExamples)
    BY <1>6
  <2> QED
    BY <1>2, <1>7, <2>1, IsSequence
<1>10. m # 0
  <2> SUFFICES ASSUME m = 0 PROVE FALSE
    OBVIOUS
  <2>1. Len(F) = 0
    BY <1>8, <1>9
  <2> QED
    BY <1>1, <2>1, Sizes
<1>11. PICK o : Offsets(o, seqs) /\ Concatenates(F, o, seqs)
  BY <1>9, <1>10, FlattenMeans DEF F
<1>12. o[m] = NumExamples
  BY <1>1, <1>9, <1>11 DEF Concatenates
<1>13. InLine(a, m, o)
  <2>1. \A i \in 1..m : o[i] \in Nat /\ o[i] = o[i-1] + ChunkLen(a[i])
    BY <1>6, <1>9, <1>11 DEF Offsets
  <2>2. \A i, j \in 1..m : i < j => a[i] < a[j]
    BY <1>2 DEF Ranked
  <2>3. o[0] = 0
    BY <1>11 DEF Offsets
  <2> QED
    BY <1>2, <1>6, <1>10, <2>1, <2>2, <2>3 DEF InLine
<1>14. \A i \in 1..m : o[i-1] = a[i]
  BY <1>12, <1>13, NoneMissing
<1> DEFINE T == Numbers(NumExamples)
<1>15. T \in Seq(1..NumExamples) /\ Len(T) = NumExamples /\ \A q \in 1..NumExamples : T[q] = q
  BY Sizes DEF Numbers
<1> HIDE DEF T
<1>16. Concatenates(T, o, seqs)
  <2>1. ASSUME NEW i \in 1..m, NEW j \in 1..Len(seqs[i])
        PROVE  T[o[i-1] + j] = seqs[i][j]
    <3>1. PICK s : s = a[i] /\ s \in 0..NumExamples - 1 /\ ChunkLen(s) \in Nat /\ s + ChunkLen(s) <= NumExamples
      BY <1>6
    <3>2. j \in 1..ChunkLen(s) /\ seqs[i] = Chunk(s)
      BY <1>6, <3>1
    <3>3. seqs[i][j] = s + j
      BY <3>2 DEF Chunk
    <3>4. s + j \in 1..NumExamples
      BY <3>1, <3>2, Sizes
    <3>5. T[s + j] = s + j
      BY <1>15, <3>4
    <3> QED
      BY <1>14, <3>1, <3>3, <3>5
  <2> QED
    BY <1>9, <1>12, <1>15, <2>1 DEF Concatenates
<1>17. F = T
  BY <1>9, <1>10, <1>11, <1>15, <1>16, FlattenIs DEF F
<1> QED
  BY <1>1, <1>17 DEF T
-----------------------------------------------------------------------------
(* The steps.                                                              *)

(* What is in a queue, after its head is taken.                            *)
LEMMA HoldsTail ==
  ASSUME NEW S, NEW q \in Seq(S), q # <<>>, NEW t
  PROVE  Holds(q, t) <=> (t = Head(q) \/ Holds(Tail(q), t))
<1>1. /\ Len(q) \in Nat \ {0} /\ Head(q) = q[1] /\ Len(Tail(q)) = Len(q) - 1
      /\ \A i \in 1..Len(Tail(q)) : Tail(q)[i] = q[i+1]
  BY EmptySeq, HeadTailProperties, LenProperties
<1>2. ASSUME Holds(q, t) PROVE t = Head(q) \/ Holds(Tail(q), t)
  <2>1. PICK i \in 1..Len(q) : q[i] = t
    BY <1>2 DEF Holds
  <2>2. CASE i = 1
    BY <1>1, <2>1, <2>2
  <2>3. CASE i # 1
    <3>1. PICK k : k = i - 1 /\ k \in 1..Len(Tail(q)) /\ k + 1 = i
      BY <1>1, <2>1, <2>3
    <3>2. Tail(q)[k] = t
      BY <1>1, <2>1, <3>1
    <3> QED
      BY <3>1, <3>2, Zenon DEF Holds
  <2> QED
    BY <2>2, <2>3
<1>3. ASSUME t = Head(q) PROVE Holds(q, t)
  <2>1. 1 \in 1..Len(q) /\ q[1] = t
    BY <1>1, <1>3
  <2> QED
    BY <2>1, Zenon DEF Holds
<1>4. ASSUME Holds(Tail(q), t) PROVE Holds(q, t)
  <2>1. PICK i \in 1..Len(Tail(q)) : Tail(q)[i] = t
    BY <1>4 DEF Holds
  <2>2. PICK k : k = i + 1 /\ k \in 1..Len(q) /\ q[k] = t
    BY <1>1, <2>1
  <2> QED
    BY <2>2, Zenon DEF Holds
<1> QED
  BY <1>2, <1>3, <1>4

(* What is in a queue, after one more is put in.                           *)
LEMMA HoldsAppend ==
  ASSUME NEW S, NEW q \in Seq(S), NEW e \in S, NEW t
  PROVE  Holds(Append(q, e), t) <=> (Holds(q, t) \/ t = e)
<1> DEFINE u == Append(q, e)
<1>1. /\ Len(q) \in Nat /\ Len(u) = Len(q) + 1 /\ u[Len(q) + 1] = e
      /\ \A i \in 1..Len(q) : u[i] = q[i]
  BY AppendProperties, LenProperties
<1> HIDE DEF u
<1>2. ASSUME Holds(u, t) PROVE Holds(q, t) \/ t = e
  <2>1. PICK i \in 1..Len(u) : u[i] = t
    BY <1>2 DEF Holds
  <2>2. i \in 1..Len(q) \/ i = Len(q) + 1
    BY <1>1, <2>1
  <2> QED
    BY <1>1, <2>1, <2>2 DEF Holds
<1>3. ASSUME Holds(q, t) PROVE Holds(u, t)
  <2>1. PICK i \in 1..Len(q) : q[i] = t
    BY <1>3 DEF Holds
  <2>2. i \in 1..Len(u) /\ u[i] = t
    BY <1>1, <2>1
  <2> QED
    BY <2>2 DEF Holds
<1>4. ASSUME t = e PROVE Holds(u, t)
  <2>1. Len(q) + 1 \in 1..Len(u) /\ u[Len(q) + 1] = t
    BY <1>1, <1>4
  <2> QED
    BY <2>1, Zenon DEF Holds
<1> QED
  BY <1>2, <1>3, <1>4 DEF u

(* The round is a matter of where it begins.                               *)
LEMMA SameRound ==
  ASSUME base' = base
  PROVE  /\ RoundLen' = RoundLen /\ NumTasks' = NumTasks /\ \A i : Task(i)' = Task(i)
         /\ \A t : InRound(t)' <=> InRound(t)
<1>1. RoundLen' = RoundLen /\ NumTasks' = NumTasks
  BY DEF RoundLen, NumTasks
<1>2. \A i : Task(i)' = Task(i)
  BY <1>1 DEF Task
<1>3. \A t : InRound(t)' <=> InRound(t)
  BY <1>1, <1>2, Zenon DEF InRound
<1> QED
  BY <1>1, <1>2, <1>3

(* A batch that moves is still somewhere.                                  *)
LEMMA MovedIsSomewhere ==
  ASSUME PendingInv, Places, base' = base, task_idx' = task_idx,
         \A t : t # NoTask => (Somewhere(t)' <=> Somewhere(t))
  PROVE  Places'
<1>1. ASSUME NEW i \in 1..task_idx PROVE Somewhere(Task(i))'
  <2>1. i \in Nat \ {0}
    BY DEF PendingInv
  <2>2. PICK t : t = Task(i) /\ t \in Tasks
    BY <2>1, TaskType
  <2>3. t # NoTask
    BY <2>2, NoTaskIsNone
  <2>4. Somewhere(t)
    BY <2>2, Zenon DEF Places
  <2>5. Somewhere(t)'
    BY <2>3, <2>4
  <2>6. t = Task(i)'
    BY <2>2, SameRound
  <2> QED
    BY <2>5, <2>6, Zenon DEF Somewhere
<1>2. ASSUME NEW t, t # NoTask, Somewhere(t)' PROVE InRound(t)'
  BY <1>2, SameRound, Zenon DEF Places
<1> QED
  BY <1>1, <1>2, Zenon DEF Places

(* How many batches a round has that begins at b.                          *)
LEMMA TasksFrom ==
  ASSUME NEW b \in 0..NumExamples
  PROVE  (Min({RoundSize, NumExamples - b}) + BatchSize - 1) \div BatchSize \in Nat
<1>1. PICK n : n = Min({RoundSize, NumExamples - b}) /\ n \in Nat
  <2>1. NumExamples - b \in Nat
    BY Sizes
  <2> QED
    BY <2>1, Sizes, MinOfTwo
<1>2. PICK k : k = BatchSize /\ k \in Nat \ {0}
  BY Sizes
<1>3. (n + k - 1) \div k \in Nat
  <2>1. PICK c : c = (n + k - 1) \div k
    BY Zenon
  <2>2. c \in Nat
    BY <1>1, <1>2, <2>1, CeilDiv
  <2> QED
    BY <2>1, <2>2, Zenon
<1> QED
  BY <1>1, <1>2, <1>3, Zenon

(* What Places says after a move, from what happened to the queues.        *)
LEMMA PlacesStep ==
  ASSUME PendingInv, LabelInv, [Next]_vars
  PROVE  Places'
<1>1. Places /\ Limits
  BY DEF LabelInv
<1>2. ASSUME NEW w \in Workers, Take(w) PROVE Places'
  <2>1. PICK h, q : h = Head(input_queue) /\ q = Tail(input_queue)
    BY Zenon
  <2>2. /\ input_queue' = q /\ busy' = [busy EXCEPT ![w] = h] /\ busy[w] = NoTask
        /\ output_queue' = output_queue /\ results' = results
        /\ base' = base /\ task_idx' = task_idx
    BY <1>2, <2>1 DEF Take
  <2>3. \A t : Holds(input_queue, t) <=> (t = h \/ Holds(q, t))
    BY <1>2, <2>1, HoldsTail DEF Take, PendingInv
  <2>4. \A v \in Workers : busy'[v] = IF v = w THEN h ELSE busy[v]
    BY <2>2 DEF PendingInv
  <2>5. \A t : Holds(input_queue, t)' <=> Holds(q, t)
    BY <2>2 DEF Holds
  <2>6. \A t : (Holds(output_queue, t)' <=> Holds(output_queue, t))
               /\ (Holds(results, t)' <=> Holds(results, t))
    BY <2>2 DEF Holds
  <2>7. ASSUME NEW t, t # NoTask PROVE Somewhere(t)' <=> Somewhere(t)
    <3>1. (\E v \in Workers : busy'[v] = t) <=> (t = h \/ \E v \in Workers : busy[v] = t)
      BY <2>2, <2>4, <2>7
    <3> QED
      BY <2>3, <2>5, <2>6, <3>1, Zenon DEF Somewhere
  <2> QED
    BY <1>1, <2>2, <2>7, MovedIsSomewhere
<1>3. ASSUME NEW w \in Workers, Put(w) PROVE Places'
  <2>1. PICK e : e = busy[w] /\ e \in Tasks
    BY <1>3 DEF Put, PendingInv
  <2>2. /\ output_queue' = Append(output_queue, e) /\ busy' = [busy EXCEPT ![w] = NoTask]
        /\ input_queue' = input_queue /\ results' = results
        /\ base' = base /\ task_idx' = task_idx
    BY <1>3, <2>1 DEF Put
  <2>3. \A t : Holds(Append(output_queue, e), t) <=> (Holds(output_queue, t) \/ t = e)
    BY <2>1, HoldsAppend DEF PendingInv
  <2>4. \A v \in Workers : busy'[v] = IF v = w THEN NoTask ELSE busy[v]
    BY <2>2 DEF PendingInv
  <2>5. \A t : Holds(output_queue, t)' <=> Holds(Append(output_queue, e), t)
    BY <2>2 DEF Holds
  <2>6. \A t : (Holds(input_queue, t)' <=> Holds(input_queue, t))
               /\ (Holds(results, t)' <=> Holds(results, t))
    BY <2>2 DEF Holds
  <2>7. ASSUME NEW t, t # NoTask PROVE Somewhere(t)' <=> Somewhere(t)
    <3>1. (\E v \in Workers : busy[v] = t) <=> (t = e \/ \E v \in Workers : busy'[v] = t)
      BY <2>1, <2>4, <2>7
    <3> QED
      BY <2>3, <2>5, <2>6, <3>1, Zenon DEF Somewhere
  <2> QED
    BY <1>1, <2>2, <2>7, MovedIsSomewhere
<1>4. CASE Dispatch
  <2>1. PICK n : n = task_idx + 1 /\ n \in 1..NumTasks
    BY <1>4, RoundNumbers DEF Dispatch, MayDispatch, PendingInv
  <2>2. PICK e : e = Task(n) /\ e \in Tasks
    BY <2>1, RoundNumbers, TaskType
  <2>3. /\ input_queue' = Append(input_queue, e) /\ task_idx' = n
        /\ output_queue' = output_queue /\ results' = results /\ busy' = busy /\ base' = base
    BY <1>4, <2>1, <2>2 DEF Dispatch
  <2>4. \A t : Holds(Append(input_queue, e), t) <=> (Holds(input_queue, t) \/ t = e)
    BY <2>2, HoldsAppend DEF PendingInv
  <2>5. \A t : Holds(input_queue, t)' <=> Holds(Append(input_queue, e), t)
    BY <2>3 DEF Holds
  <2>6. \A t : (Holds(output_queue, t)' <=> Holds(output_queue, t))
               /\ (Holds(results, t)' <=> Holds(results, t))
    BY <2>3 DEF Holds
  <2>7. \A t : Somewhere(t)' <=> (Somewhere(t) \/ t = e)
    BY <2>3, <2>4, <2>5, <2>6, Zenon DEF Somewhere
  <2>8. ASSUME NEW i \in 1..task_idx' PROVE Somewhere(Task(i))'
    <3>1. PICK t : t = Task(i)
      BY Zenon
    <3>2. Somewhere(t) \/ t = e
      <4>1. i \in 1..task_idx \/ i = n
        BY <2>1, <2>3 DEF PendingInv
      <4> QED
        BY <1>1, <2>2, <3>1, <4>1, Zenon DEF Places
    <3>3. Somewhere(t)'
      BY <2>7, <3>2
    <3>4. t = Task(i)'
      BY <2>3, <3>1, SameRound
    <3> QED
      BY <3>3, <3>4, Zenon DEF Somewhere
  <2>9. ASSUME NEW t, t # NoTask, Somewhere(t)' PROVE InRound(t)'
    <3>1. InRound(t)
      <4>1. Somewhere(t) \/ t = e
        BY <2>7, <2>9
      <4> QED
        BY <1>1, <2>1, <2>2, <2>9, <4>1, Zenon DEF Places, InRound
    <3> QED
      BY <2>3, <3>1, SameRound
  <2> QED
    BY <2>8, <2>9, Zenon DEF Places
<1>5. CASE Collect
  <2>1. PICK h, q : h = Head(output_queue) /\ q = Tail(output_queue)
    BY Zenon
  <2>2. /\ output_queue' = q /\ results' = Append(results, h)
        /\ input_queue' = input_queue /\ busy' = busy
        /\ base' = base /\ task_idx' = task_idx
    BY <1>5, <2>1 DEF Collect
  <2>3. h \in Tasks
    BY <1>5, <2>1, HeadTailProperties DEF Collect, PendingInv
  <2>4. \A t : Holds(output_queue, t) <=> (t = h \/ Holds(q, t))
    BY <1>5, <2>1, HoldsTail DEF Collect, PendingInv
  <2>5. \A t : Holds(Append(results, h), t) <=> (Holds(results, t) \/ t = h)
    BY <2>3, HoldsAppend DEF PendingInv
  <2>6. \A t : /\ Holds(output_queue, t)' <=> Holds(q, t)
               /\ Holds(results, t)' <=> Holds(Append(results, h), t)
               /\ Holds(input_queue, t)' <=> Holds(input_queue, t)
    BY <2>2 DEF Holds
  <2>7. \A t : Somewhere(t)' <=> Somewhere(t)
    BY <2>2, <2>4, <2>5, <2>6, Zenon DEF Somewhere
  <2> QED
    BY <1>1, <2>2, <2>7, MovedIsSomewhere
<1>6. ASSUME /\ task_idx' = 0 /\ input_queue' = <<>> /\ output_queue' = <<>> /\ results' = <<>>
             /\ \A w \in Workers : busy'[w] = NoTask
      PROVE  Places'
  <2>1. \A t : ~(Holds(input_queue, t)') /\ ~(Holds(output_queue, t)') /\ ~(Holds(results, t)')
    <3>1. Len(input_queue') = 0 /\ Len(output_queue') = 0 /\ Len(results') = 0
      BY <1>6, EmptySeq
    <3> QED
      BY <3>1 DEF Holds
  <2>2. \A t : t # NoTask => ~(Somewhere(t)')
    BY <1>6, <2>1, Zenon DEF Somewhere
  <2>3. 1..task_idx' = {}
    BY <1>6
  <2> QED
    BY <2>2, <2>3, Zenon DEF Places
<1>7. CASE EndRound
  <2>1. /\ pending_count = Len(input_queue) + Len(output_queue) + Cardinality(Busy)
        /\ task_idx = pending_count + Len(results)
        /\ task_idx \in Nat /\ pending_count \in Nat
        /\ Len(input_queue) \in Nat /\ Len(output_queue) \in Nat /\ Len(results) \in Nat
        /\ IsFiniteSet(Busy) /\ Cardinality(Busy) \in Nat
    BY PendingNumbers
  <2>2. task_idx <= NumTasks /\ NumTasks \in Nat /\ Len(results) = NumTasks
    BY <1>1, <1>7, RoundNumbers DEF Limits, EndRound
  <2>3. pending_count = 0
    BY <2>1, <2>2
  <2>4. Len(input_queue) = 0 /\ Len(output_queue) = 0 /\ Cardinality(Busy) = 0
    BY <2>1, <2>3
  <2>5. input_queue = <<>> /\ output_queue = <<>>
    BY <2>4, EmptySeq DEF PendingInv
  <2>6. \A w \in Workers : busy[w] = NoTask
    BY <2>1, <2>4, FS_EmptySet DEF Busy
  <2> QED
    BY <1>6, <1>7, <2>5, <2>6 DEF EndRound
<1>8. CASE Restart
  BY <1>6, <1>8 DEF Restart
<1>9. ASSUME UNCHANGED genVars, base' = base PROVE Places'
  <2>1. \A t : Somewhere(t)' <=> Somewhere(t)
    BY <1>9 DEF genVars, Somewhere, Holds
  <2>2. task_idx' = task_idx
    BY <1>9 DEF genVars
  <2> QED
    BY <1>1, <1>9, <2>1, <2>2, MovedIsSomewhere
<1>10. ASSUME NEW s \in Starts, SaveChunk(s) PROVE Places'
  BY <1>9, <1>10 DEF SaveChunk
<1>11. CASE EndSave
  BY <1>9, <1>11 DEF EndSave
<1>12. CASE Stop
  BY <1>9, <1>12 DEF Stop
<1>13. CASE Stage2
  BY <1>9, <1>13 DEF Stage2
<1>14. ASSUME NEW w \in Workers, Die(w) PROVE Places'
  BY <1>9, <1>14 DEF Die
<1>15. CASE UNCHANGED vars
  BY <1>9, <1>15 DEF vars
<1> QED
  BY <1>2, <1>3, <1>4, <1>5, <1>7, <1>8, <1>10, <1>11, <1>12, <1>13, <1>14, <1>15 DEF Next, Main

(* The labels so far, and what ends with the last round.                   *)
LEMMA PhasesStep ==
  ASSUME PendingInv, LabelInv, [Next]_vars
  PROVE  Phases'
<1>1. Phases /\ Saved
  BY DEF LabelInv
<1>2. CASE EndRound
  <2>1. base \in Nat /\ RoundLen \in Nat /\ base + RoundLen <= NumExamples
    BY RoundNumbers
  <2>2. labels = Numbers(base)
    BY <1>1, <1>2 DEF Phases, EndRound
  <2>3. SortedLabels = [q \in 1..RoundLen |-> base + q]
    BY <1>2, SortedLabelsAre DEF EndRound
  <2>4. Numbers(base) \o [q \in 1..RoundLen |-> base + q] = Numbers(base + RoundLen)
    BY <2>1, NumbersGrow
  <2>5. labels' = Numbers(base') /\ base' = base + RoundLen
    BY <1>2, <2>2, <2>3, <2>4, Zenon DEF EndRound
  <2>6. /\ pc' \in {"gen", "save"} /\ (pc' = "save" => base' = NumExamples)
        /\ (pc' = "gen" => base' # NumExamples)
    BY <1>2 DEF EndRound
  <2>7. pc' = "gen" => base' < NumExamples
    <3>1. base' \in Nat /\ base' <= NumExamples
      BY <2>1, <2>5
    <3> QED
      BY <2>6, <3>1, Sizes
  <2>8. pc' # "training" /\ pc' # "saved"
    BY <2>6
  <2>9. labels' = Numbers(IF pc' = "training" THEN NumExamples ELSE base')
    BY <2>5, <2>8, Zenon
  <2> QED
    BY <2>6, <2>7, <2>8, <2>9 DEF Phases
<1>3. CASE Stage2
  <2>1. pc \in {"saved", "stopped"} /\ base' = base
    BY <1>3 DEF Stage2
  <2>2. labels = Numbers(base)
    BY <1>1, <2>1 DEF Phases
  <2>3. CASE Accept(LoadAllChunks)
    <3>1. LoadAllChunks = Numbers(NumExamples)
      BY <1>1, <2>3, LoadedAre
    <3>2. pc' = "training" /\ labels' = LoadAllChunks
      BY <1>3, <2>3, Zenon DEF Stage2
    <3> QED
      BY <3>1, <3>2 DEF Phases
  <2>4. CASE ~Accept(LoadAllChunks)
    <3>1. pc' = "rejected" /\ labels' = labels
      BY <1>3, <2>4, Zenon DEF Stage2
    <3> QED
      BY <2>1, <2>2, <3>1 DEF Phases
  <2> QED
    BY <2>3, <2>4
<1>4. CASE Restart
  <2>1. pc' = "gen" /\ base' = 0 /\ labels' = <<>>
    BY <1>4 DEF Restart
  <2>2. Numbers(0) = <<>>
    BY DEF Numbers
  <2>3. labels' = Numbers(0)
    BY <2>1, <2>2, Zenon
  <2> QED
    BY <2>1, <2>3, Sizes DEF Phases
<1>5. CASE Stop
  BY <1>1, <1>5 DEF Phases, Stop
<1>6. CASE EndSave
  BY <1>1, <1>6 DEF Phases, EndSave
<1>7. ASSUME UNCHANGED <<pc, base, labels>> PROVE Phases'
  BY <1>1, <1>7 DEF Phases
<1>8. ASSUME NEW w \in Workers, Take(w) \/ Put(w) \/ Die(w) PROVE Phases'
  BY <1>7, <1>8 DEF Take, Put, Die
<1>9. ASSUME NEW s \in Starts, SaveChunk(s) PROVE Phases'
  BY <1>7, <1>9 DEF SaveChunk
<1>10. ASSUME Dispatch \/ Collect \/ UNCHANGED vars PROVE Phases'
  BY <1>7, <1>10 DEF Dispatch, Collect, vars
<1> QED
  BY <1>2, <1>3, <1>4, <1>5, <1>6, <1>8, <1>9, <1>10 DEF Next, Main

(* The counters stay within their limits.                                  *)
LEMMA LimitsStep ==
  ASSUME PendingInv, LabelInv, [Next]_vars
  PROVE  Limits'
<1>1. Limits
  BY DEF LabelInv
<1>2. task_idx \in Nat /\ pending_count \in Nat /\ NumTasks \in Nat /\ MaxInFlight \in Nat
  BY RoundNumbers, Sizes DEF PendingInv
<1>3. CASE Dispatch
  <2>1. NumTasks' = NumTasks
    BY <1>3, SameRound DEF Dispatch
  <2>2. task_idx + 1 <= NumTasks /\ pending_count + 1 <= MaxInFlight
    BY <1>2, <1>3 DEF Dispatch, MayDispatch
  <2> QED
    BY <1>1, <1>3, <2>1, <2>2 DEF Limits, Dispatch
<1>4. CASE Collect
  <2>1. NumTasks' = NumTasks
    BY <1>4, SameRound DEF Collect
  <2>2. pending_count - 1 <= MaxInFlight
    BY <1>1, <1>2 DEF Limits
  <2> QED
    BY <1>1, <1>4, <2>1, <2>2 DEF Limits, Collect
<1>5. CASE EndRound
  <2>1. PICK b : b = base' /\ b \in 0..NumExamples
    <3>1. base' = base + RoundLen
      BY <1>5 DEF EndRound
    <3>2. base + RoundLen \in 0..NumExamples
      BY RoundLenInRange DEF PendingInv
    <3> QED
      BY <3>1, <3>2, Zenon
  <2>2. NumTasks' \in Nat
    BY <2>1, TasksFrom DEF NumTasks, RoundLen
  <2> QED
    BY <1>1, <1>5, <2>2 DEF Limits, EndRound
<1>6. CASE Restart
  <2>1. PICK b : b = base' /\ b \in 0..NumExamples
    BY <1>6, Sizes DEF Restart
  <2>2. NumTasks' \in Nat
    BY <2>1, TasksFrom DEF NumTasks, RoundLen
  <2> QED
    BY <1>2, <1>6, <2>2 DEF Limits, Restart
<1>7. ASSUME UNCHANGED <<base, task_idx, pending_count>>, dead' \subseteq Workers PROVE Limits'
  BY <1>1, <1>7, SameRound DEF Limits
<1>8. ASSUME NEW w \in Workers, Take(w) \/ Put(w) \/ Die(w) PROVE Limits'
  BY <1>1, <1>7, <1>8 DEF Take, Put, Die, genVars, Limits
<1>9. ASSUME NEW s \in Starts, SaveChunk(s) PROVE Limits'
  BY <1>1, <1>7, <1>9 DEF SaveChunk, genVars, Limits
<1>10. ASSUME EndSave \/ Stop \/ Stage2 \/ UNCHANGED vars PROVE Limits'
  BY <1>1, <1>7, <1>10 DEF EndSave, Stop, Stage2, vars, genVars, Limits
<1> QED
  BY <1>3, <1>4, <1>5, <1>6, <1>8, <1>9, <1>10 DEF Next, Main

(* Each file that is there stays a whole chunk.                            *)
LEMMA SavedStep ==
  ASSUME LabelInv, [Next]_vars
  PROVE  Saved'
<1>1. Saved /\ Phases
  BY DEF LabelInv
<1>2. ASSUME NEW s \in Starts, SaveChunk(s) PROVE Saved'
  <2>1. labels = Numbers(NumExamples)
    BY <1>1, <1>2 DEF Phases, SaveChunk
  <2>2. s \in 0..NumExamples - 1 /\ s % ChunkSize = 0
    BY <2>1, Sizes DEF Starts, Numbers
  <2>3. SubSeq(labels, s + 1, Min({s + ChunkSize, Len(labels)})) = Chunk(s)
    BY <2>1, <2>2, ChunkIs, Zenon
  <2>4. /\ DOMAIN files' = DOMAIN files \cup {s} /\ written' = written \cup {s}
        /\ \A t \in DOMAIN files \cup {s} : files'[t] = IF t = s THEN Chunk(s) ELSE files[t]
    BY <1>2, <2>3 DEF SaveChunk
  <2> QED
    BY <1>1, <2>2, <2>4 DEF Saved
<1>3. CASE Stop
  <2>1. PICK cut : /\ cut \in SUBSET (IF pc = "save" THEN Starts \ written ELSE {})
                   /\ files' = [s \in DOMAIN files \ cut |-> files[s]]
    BY <1>3 DEF Stop
  <2>2. written' = written /\ cut \cap written = {}
    BY <1>3, <2>1 DEF Stop
  <2> QED
    BY <1>1, <2>1, <2>2 DEF Saved
<1>4. CASE Restart
  BY <1>1, <1>4 DEF Restart, Saved
<1>5. ASSUME UNCHANGED <<written, files>> PROVE Saved'
  BY <1>1, <1>5 DEF Saved
<1>6. ASSUME NEW w \in Workers, Take(w) \/ Put(w) \/ Die(w) PROVE Saved'
  BY <1>5, <1>6 DEF Take, Put, Die
<1>7. ASSUME Dispatch \/ Collect \/ EndRound \/ EndSave \/ Stage2 \/ UNCHANGED vars PROVE Saved'
  BY <1>5, <1>7 DEF Dispatch, Collect, EndRound, EndSave, Stage2, vars
<1> QED
  BY <1>2, <1>3, <1>4, <1>6, <1>7 DEF Next, Main

(* Every step keeps all of it.                                             *)
LEMMA LabelStep == PendingInv /\ LabelInv /\ [Next]_vars => LabelInv'
BY PlacesStep, PhasesStep, LimitsStep, SavedStep, Zenon DEF LabelInv

(* At first there is no label, and no file.                                *)
LEMMA LabelInit == Init => LabelInv
<1> SUFFICES ASSUME Init PROVE LabelInv
  OBVIOUS
<1>1. Len(input_queue) = 0 /\ Len(output_queue) = 0 /\ Len(results) = 0
  BY EmptySeq DEF Init
<1>2. Places
  BY <1>1 DEF Init, Places, Somewhere, Holds
<1>3. Phases
  <2>1. Numbers(0) = <<>>
    BY DEF Numbers
  <2>2. pc = "gen" /\ base = 0 /\ labels = <<>>
    BY DEF Init
  <2>3. labels = Numbers(0)
    BY <2>1, <2>2, Zenon
  <2> QED
    BY <2>2, <2>3, Sizes DEF Phases
<1>4. Limits
  <2>1. NumTasks \in Nat
    BY PendingInit, RoundNumbers
  <2> QED
    BY <2>1, Sizes DEF Init, Limits
<1>5. Saved
  BY DEF Init, Saved
<1> QED
  BY <1>2, <1>3, <1>4, <1>5 DEF LabelInv

(* Types follow from where the batches are and from what the labels are.   *)
LEMMA LabelTypes ==
  ASSUME PendingInv, LabelInv
  PROVE  TypeOK
<1>1. Places /\ Phases /\ Limits /\ Saved
  BY DEF LabelInv
<1>2. ASSUME NEW t \in Tasks, Somewhere(t)
      PROVE  t.id \in 1..RoundSize /\ t.examples \in Seq(1..NumExamples)
  <2>1. t # NoTask
    BY NoTaskIsNone
  <2>2. PICK i \in 1..NumTasks : t = Task(i)
    BY <1>1, <1>2, <2>1, Zenon DEF Places, InRound
  <2>3. IsTask(t, i)
    BY <2>2, TaskMeans, Zenon
  <2> QED
    BY <2>3 DEF IsTask
<1>3. ASSUME NEW q \in {results, input_queue, output_queue}, NEW i \in 1..Len(q)
      PROVE  q[i].id \in 1..RoundSize /\ q[i].examples \in Seq(1..NumExamples)
  <2>1. PICK t : t = q[i]
    BY Zenon
  <2>2. t \in Tasks
    BY <2>1, ElementOfSeq DEF PendingInv
  <2>3. Somewhere(t)
    BY <2>1, Zenon DEF Somewhere, Holds
  <2>4. t.id \in 1..RoundSize /\ t.examples \in Seq(1..NumExamples)
    BY <1>2, <2>2, <2>3
  <2> QED
    BY <2>1, <2>4, Zenon
<1>4. ASSUME NEW n \in 0..NumExamples PROVE Numbers(n) \in Seq(1..NumExamples)
  BY Sizes DEF Numbers
<1>5. labels \in Seq(1..NumExamples)
  <2>1. PICK n : n = (IF pc = "training" THEN NumExamples ELSE base) /\ n \in 0..NumExamples
    BY Sizes DEF PendingInv
  <2> QED
    BY <1>1, <1>4, <2>1, Zenon DEF Phases
<1>6. ASSUME NEW s \in DOMAIN files PROVE s \in 0..NumExamples - 1 /\ files[s] \in Seq(1..NumExamples)
  <2>1. s \in 0..NumExamples - 1 /\ files[s] = Chunk(s)
    BY <1>1 DEF Saved
  <2>2. Chunk(s) \in Seq(1..NumExamples)
    BY <2>1, ChunkIs
  <2> QED
    BY <2>1, <2>2
<1>7. task_idx \in 0..NumTasks /\ pending_count \in 0..MaxInFlight
  BY <1>1, RoundNumbers, Sizes DEF Limits, PendingInv
<1> QED
  BY <1>1, <1>3, <1>5, <1>6, <1>7 DEF TypeOK, Phases, Limits, Saved, PendingInv

(* The queues and the results hold batches of the round with their         *)
(* examples, the counters stay within MaxInFlight and the round, and the   *)
(* files hold labels of examples, whatever is killed and run again.        *)
THEOREM TypeCorrect == Spec => []TypeOK
BY PendingInit, PendingStep, LabelInit, LabelStep, LabelTypes, PTL DEF Spec

(* Stage 2 trains only with every label at the index of its example,       *)
(* though results come in any order, chunk files are written in any order, *)
(* and files of several runs of the job lie in the directory: the job      *)
(* implements SoftLabelJob.                                                *)
THEOREM SoftLabelJobImplemented == Spec => ImplementsSoftLabelJob
<1>1. Init => Job!Init
  BY DEF Init, Job!Init
<1>2. ASSUME LabelInv', [Next]_vars PROVE [Job!Next]_Job!vars
  <2>1. CASE Stage2
    <3>1. pc \in {"saved", "stopped"} /\ pc' \in {"training", "rejected"}
      BY <2>1 DEF Stage2
    <3>2. pc' = "training" => labels' = [i \in 1..NumExamples |-> i]
      BY <1>2 DEF LabelInv, Phases, Numbers
    <3>3. CASE pc' = "training"
      <4>1. Job!Train
        BY <3>1, <3>2, <3>3 DEF Job!Train, Job!InOrder
      <4> QED
        BY <4>1 DEF Job!Next
    <3>4. CASE pc' = "rejected"
      <4>1. Job!Fail
        BY <3>1, <3>4 DEF Job!Fail
      <4> QED
        BY <4>1 DEF Job!Next
    <3> QED
      BY <3>1, <3>3, <3>4
  <2>2. ASSUME UNCHANGED <<pc, labels>> PROVE UNCHANGED Job!vars
    BY <2>2 DEF Job!vars
  <2>3. ASSUME pc \notin {"training", "rejected"}, pc' \notin {"training", "rejected"}
        PROVE  UNCHANGED Job!vars
    BY <2>3 DEF Job!vars
  <2>4. ASSUME NEW w \in Workers, Take(w) \/ Put(w) \/ Die(w) PROVE UNCHANGED Job!vars
    BY <2>2, <2>4 DEF Take, Put, Die
  <2>5. ASSUME NEW s \in Starts, SaveChunk(s) PROVE UNCHANGED Job!vars
    BY <2>2, <2>5 DEF SaveChunk
  <2>6. ASSUME Dispatch \/ Collect \/ EndRound \/ EndSave \/ Stop \/ Restart PROVE UNCHANGED Job!vars
    BY <2>3, <2>6 DEF Dispatch, Collect, EndRound, EndSave, Stop, Restart
  <2>7. CASE UNCHANGED vars
    BY <2>2, <2>7 DEF vars
  <2> QED
    BY <1>2, <2>1, <2>4, <2>5, <2>6, <2>7 DEF Next, Main
<1> QED
  BY <1>1, <1>2, PendingInit, PendingStep, LabelInit, LabelStep, PTL
     DEF Spec, ImplementsSoftLabelJob, Job!Spec
=============================================================================
