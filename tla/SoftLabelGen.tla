----------------------------- MODULE SoftLabelGen -----------------------------
(***************************************************************************)
(* generate_latent_soft_label_lora_batch.py and the loading of its output  *)
(* by Stage2Dataset: the main process cuts the data into rounds (chunked), *)
(* a round into batches (_gen), hands at most MaxInFlight of them to the   *)
(* worker processes over input_queue, collects results in the order they   *)
(* come, sorts them, saves all labels in chunk files from a thread pool,   *)
(* and stage 2 reads the files back.  A worker may die, which nobody       *)
(* notices; the job may be killed at any point and run again into the same *)
(* directory, on the same data.  The label of example i is written i.      *)
(***************************************************************************)
EXTENDS Naturals, Sequences, FiniteSets, FiniteSetsExt, SequencesExt, PythonLists

CONSTANTS Workers,      \* the mp_size processes
          NumExamples,  \* len(data)
          RoundSize,    \* 2000 in the main program
          BatchSize,    \* batch_size of gen
          MaxInFlight,  \* MAX_IN_FLIGHT, mp_size * 4
          ChunkSize     \* chunk_size, 1000

ASSUME SizesAssumption ==
  {NumExamples, RoundSize, BatchSize, MaxInFlight, ChunkSize} \subseteq Nat \ {0}
ASSUME WorkersAssumption == IsFiniteSet(Workers)

VARIABLES pc,            \* main: gen, save, saved, stopped; then training, rejected
          base,          \* examples in the rounds that are done
          task_idx, pending_count, results,   \* locals of _gen
          input_queue, output_queue,          \* the two queues
          busy,          \* busy[w]: the task worker w is computing
          dead,          \* workers that have ended with an exception
          labels,        \* all_latent_states; in the end latent_states of stage 2
          written,       \* start_idx of the chunks this run of the job has saved
          files          \* start_idx -> content of batch_<start>_<end>.pt
genVars == <<task_idx, pending_count, results, input_queue, output_queue, busy>>
vars == <<pc, base, genVars, dead, labels, written, files>>

NoTask == [id |-> 0, examples |-> <<>>]

\* The i-th entry of all_tasks for the round at base: (start, text_input[start:end]),
\* with start counted from 1 as indices are here.
RoundLen == Min({RoundSize, NumExamples - base})

NumTasks == (RoundLen + BatchSize - 1) \div BatchSize

Task(i) ==
  LET start == (i - 1) * BatchSize
      len == Min({BatchSize, RoundLen - start})
  IN  [id |-> start + 1, examples |-> [j \in 1..len |-> base + start + j]]

TypeOK ==
  /\ pc \in {"gen", "save", "saved", "stopped", "training", "rejected"}
  /\ base \in 0..NumExamples
  /\ task_idx \in 0..NumTasks /\ pending_count \in 0..MaxInFlight
  /\ \A q \in {results, input_queue, output_queue} :
       \A i \in 1..Len(q) : q[i].id \in 1..RoundSize /\ q[i].examples \in Seq(1..NumExamples)
  /\ dead \subseteq Workers
  /\ labels \in Seq(1..NumExamples)
  /\ written \subseteq DOMAIN files
  /\ \A s \in DOMAIN files : s \in 0..NumExamples - 1 /\ files[s] \in Seq(1..NumExamples)

Init ==
  /\ pc = "gen" /\ base = 0 /\ task_idx = 0 /\ pending_count = 0
  /\ results = <<>> /\ input_queue = <<>> /\ output_queue = <<>>
  /\ busy = [w \in Workers |-> NoTask] /\ dead = {}
  /\ labels = <<>> /\ written = {} /\ files = [s \in {} |-> <<>>]
-----------------------------------------------------------------------------
(* The workers.                                                            *)

Take(w) ==
  /\ w \notin dead /\ busy[w] = NoTask /\ input_queue # <<>>
  /\ busy' = [busy EXCEPT ![w] = Head(input_queue)]
  /\ input_queue' = Tail(input_queue)
  /\ UNCHANGED <<pc, base, task_idx, pending_count, results, output_queue, dead, labels,
                 written, files>>

Put(w) ==
  /\ w \notin dead /\ busy[w] # NoTask
  /\ output_queue' = Append(output_queue, busy[w])
  /\ busy' = [busy EXCEPT ![w] = NoTask]
  /\ UNCHANGED <<pc, base, task_idx, pending_count, results, input_queue, dead, labels,
                 written, files>>

\* An exception in the loop, or while the model loads: there is no handler, so
\* the process ends and the task it was computing is nowhere any more.
Die(w) ==
  /\ w \notin dead
  /\ dead' = dead \cup {w}
  /\ UNCHANGED <<pc, base, genVars, labels, written, files>>
-----------------------------------------------------------------------------
(* The main process.                                                       *)

\* Mutant: no limit on what is in flight.
MayDispatchAll == task_idx < NumTasks

MayDispatch == task_idx < NumTasks /\ pending_count < MaxInFlight

Dispatch ==
  /\ pc = "gen" /\ MayDispatch
  /\ input_queue' = Append(input_queue, Task(task_idx + 1))
  /\ task_idx' = task_idx + 1
  /\ pending_count' = pending_count + 1
  /\ UNCHANGED <<pc, base, results, output_queue, busy, dead, labels, written, files>>

\* Mutant: the result is not counted off.
CollectOnly ==
  /\ pc = "gen" /\ ~MayDispatch
  /\ pending_count > 0 /\ output_queue # <<>>
  /\ results' = Append(results, Head(output_queue))
  /\ output_queue' = Tail(output_queue)
  /\ UNCHANGED <<pc, base, task_idx, pending_count, input_queue, busy, dead, labels,
                 written, files>>

\* The loop goes back to dispatching after every result.
Collect ==
  /\ pc = "gen" /\ ~MayDispatch
  /\ pending_count > 0 /\ output_queue # <<>>
  /\ results' = Append(results, Head(output_queue))
  /\ output_queue' = Tail(output_queue)
  /\ pending_count' = pending_count - 1
  /\ UNCHANGED <<pc, base, task_idx, input_queue, busy, dead, labels, written, files>>

\* Mutant: the results are flattened as they came.
UnsortedLabels == FlattenSeq([i \in 1..Len(results) |-> results[i].examples])

\* results.sort by batch_id, and flatten.
SortedLabels ==
  LET sorted == SortedBy(results, [i \in 1..Len(results) |-> results[i].id])
  IN  FlattenSeq([i \in 1..Len(sorted) |-> sorted[i].examples])

\* Mutant: the task cursor is not reset.
EndRoundOnly ==
  /\ pc = "gen" /\ Len(results) = NumTasks
  /\ labels' = labels \o SortedLabels
  /\ base' = base + RoundLen
  /\ results' = <<>>
  /\ pc' = IF base' = NumExamples THEN "save" ELSE "gen"
  /\ UNCHANGED <<task_idx, pending_count, input_queue, output_queue, busy, dead, written, files>>

\* _gen returns; the next round starts, or saving.
EndRound ==
  /\ pc = "gen" /\ Len(results) = NumTasks
  /\ labels' = labels \o SortedLabels
  /\ base' = base + RoundLen
  /\ task_idx' = 0 /\ results' = <<>>
  /\ pc' = IF base' = NumExamples THEN "save" ELSE "gen"
  /\ UNCHANGED <<pending_count, input_queue, output_queue, busy, dead, written, files>>

Starts == {s \in 0..Len(labels) - 1 : s % ChunkSize = 0}

\* save_chunk on a thread of the pool; the threads finish in any order.  A file
\* of an earlier run of the job is written again.
SaveChunk(s) ==
  /\ pc = "save" /\ s \in Starts \ written
  /\ files' = [t \in DOMAIN files \cup {s} |->
                 IF t = s THEN SubSeq(labels, s + 1, Min({s + ChunkSize, Len(labels)}))
                 ELSE files[t]]
  /\ written' = written \cup {s}
  /\ UNCHANGED <<pc, base, genVars, dead, labels>>

EndSave ==
  /\ pc = "save" /\ written = Starts
  /\ pc' = "saved"
  /\ UNCHANGED <<base, genVars, dead, labels, written, files>>

\* The job is killed, or a write raises.  What is on disk stays, but for chunks
\* that were being written: such a file does not load, which refuses the
\* directory as a missing one does.
Stop ==
  /\ pc \in {"gen", "save"}
  /\ \E cut \in SUBSET (IF pc = "save" THEN Starts \ written ELSE {}) :
       files' = [s \in DOMAIN files \ cut |-> files[s]]
  /\ pc' = "stopped"
  /\ UNCHANGED <<base, genVars, dead, labels, written>>

\* The job is run again into the same directory (makedirs with exist_ok), from
\* the first round: what is there is not looked at.
Restart ==
  /\ pc = "stopped"
  /\ pc' = "gen" /\ base' = 0 /\ task_idx' = 0 /\ pending_count' = 0
  /\ results' = <<>> /\ input_queue' = <<>> /\ output_queue' = <<>>
  /\ busy' = [w \in Workers |-> NoTask] /\ dead' = {}
  /\ labels' = <<>> /\ written' = {}
  /\ UNCHANGED files
-----------------------------------------------------------------------------
(* Stage 2.                                                                *)

\* _load_all_chunks: the files in the order of their start index.
LoadAllChunks ==
  LET starts == Ascending(DOMAIN files)
  IN  FlattenSeq([i \in 1..Len(starts) |-> files[starts[i]]])

\* Stage2Dataset refuses no files at all, and a count that differs.
Accept(loaded) == loaded # <<>> /\ Len(loaded) = NumExamples

Stage2 ==
  /\ pc \in {"saved", "stopped"}
  /\ labels' = IF Accept(LoadAllChunks) THEN LoadAllChunks ELSE labels
  /\ pc' = IF Accept(LoadAllChunks) THEN "training" ELSE "rejected"
  /\ UNCHANGED <<base, genVars, dead, written, files>>

Main == Dispatch \/ Collect \/ EndRound \/ (\E s \in Starts : SaveChunk(s)) \/ EndSave

Next ==
  \/ \E w \in Workers : Take(w) \/ Put(w) \/ Die(w)
  \/ Main \/ Stop \/ Restart \/ Stage2

\* The processes are scheduled; nothing makes a worker die, the job stop or be
\* run again, nor stage 2 run.
Fairness == WF_vars(Main) /\ \A w \in Workers : WF_vars(Take(w) \/ Put(w))

Spec == Init /\ [][Next]_vars /\ Fairness
-----------------------------------------------------------------------------
(* Properties.                                                             *)

\* pending_count, which decides whether the main process blocks in get, is
\* the number of batches that are somewhere between the two queues, and each
\* dispatched batch of the round is in one place.
PendingExact ==
  /\ pending_count = Len(input_queue) + Len(output_queue)
                       + Cardinality({w \in Workers : busy[w] # NoTask})
  /\ task_idx = pending_count + Len(results)

\* A worker died with a batch, or none is left.
BatchLost == dead = Workers \/ \E w \in dead : busy[w] # NoTask

\* A lost batch is the only thing that keeps the main process waiting in get:
\* otherwise gen returns and all chunks are written, unless the job is stopped,
\* whichever idle workers have died.
GenReturns == []<>(pc \notin {"gen", "save"} \/ BatchLost)

Job == INSTANCE SoftLabelJob WITH
         state <- CASE pc = "training" -> "training" [] pc = "rejected" -> "failed"
                    [] OTHER -> "running",
         labels <- IF pc = "training" THEN labels ELSE <<>>

\* Stage 2 trains with every label at the index of its example, or not at all.
ImplementsSoftLabelJob == Job!Spec
=============================================================================
