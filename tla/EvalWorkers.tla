----------------------------- MODULE EvalWorkers -----------------------------
(***************************************************************************)
(* eval_high_tasks_sglang.py: the main process starts one worker per GPU,  *)
(* waits until all have loaded the model, and for each run that the output *)
(* file does not have yet cuts the questions into one chunk per GPU, puts  *)
(* each chunk in its worker's queue, takes the answers from one shared     *)
(* queue, merges the temporary files and rewrites the output file.  The    *)
(* job may be killed at any point and started again, on other GPUs.        *)
(* One dataset; the prediction for question i in run r is written <<r, i>>.*)
(***************************************************************************)
EXTENDS Naturals, Sequences, FiniteSets, FiniteSetsExt, SequencesExt, PythonLists

CONSTANTS GpuLists,     \* the --gpu_ids a job may be started with
          NumSamples,   \* len(records)
          NumRuns,      \* target_num_runs
          MaxFaults,    \* bound: workers that fail or die
          MaxRestarts   \* bound: starts of the job after the first

\* One worker and one queue for each id: no id is given twice.
ASSUME ListsAssumption ==
  /\ GpuLists # {}
  /\ \A l \in GpuLists : /\ l \in Seq(Nat) /\ l # <<>>
                         /\ \A i, j \in DOMAIN l : l[i] = l[j] => i = j
ASSUME CountsAssumption ==
  NumSamples \in Nat \ {0} /\ {NumRuns, MaxFaults, MaxRestarts} \subseteq Nat

VARIABLES pc,            \* of the main process
          gpus,          \* target_gpu_ids
          status,        \* status[g]: off, init, idle, busy, gone, or dead
          task,          \* task[g]: the item worker g works on
          work_queues, result_queue,
          files,         \* temporary files: <<gpu, run>> -> predictions
          run, temp_files, per_run,   \* run_index and two lists of the main process
          disk,          \* output_path: [whole, runs]; not whole while it is written
          faults, restarts
vars == <<pc, gpus, status, task, work_queues, result_queue, files, run, temp_files, per_run,
          disk, faults, restarts>>
workers == <<status, task, work_queues, result_queue>>
bounds == <<gpus, faults, restarts>>

AllGpus == UNION {ToSet(l) : l \in GpuLists}
Target == ToSet(gpus)
NoTask == [run |-> 0, chunk |-> <<>>]
Stop == [run |-> 0, chunk |-> <<0>>]    \* None in a work queue

\* Mutant: the size is rounded down.
ChunkSizeFloor == Max({1, NumSamples \div Len(gpus)})

ChunkSize == (NumSamples + Len(gpus) - 1) \div Len(gpus)

\* prompt_chunks, as question numbers; there may be fewer than GPUs.
Chunks ==
  [c \in 1..((NumSamples + ChunkSize - 1) \div ChunkSize) |->
     [i \in 1..Min({ChunkSize, NumSamples - (c - 1) * ChunkSize}) |-> (c - 1) * ChunkSize + i]]

Active == {c \in DOMAIN gpus : c <= Len(Chunks)}

Init ==
  /\ pc = "start" /\ gpus \in GpuLists
  /\ status = [g \in AllGpus |-> "off"] /\ task = [g \in AllGpus |-> NoTask]
  /\ work_queues = [g \in AllGpus |-> <<>>] /\ result_queue = <<>>
  /\ files = [f \in {} |-> <<>>]
  /\ run = 0 /\ temp_files = <<>> /\ per_run = <<>>
  /\ disk = [whole |-> TRUE, runs |-> <<>>]
  /\ faults = 0 /\ restarts = 0
-----------------------------------------------------------------------------
(* persistent_inference_worker.                                            *)

Say(type, g) == result_queue' = Append(result_queue, [type |-> type, gpu |-> g])

Ready(g) ==
  /\ status[g] = "init"
  /\ status' = [status EXCEPT ![g] = "idle"]
  /\ Say("ready", g)
  /\ UNCHANGED <<pc, task, work_queues, files, run, temp_files, per_run, disk, bounds>>

Take(g) ==
  /\ status[g] = "idle" /\ work_queues[g] # <<>>
  /\ work_queues' = [work_queues EXCEPT ![g] = Tail(@)]
  /\ IF Head(work_queues[g]) = Stop
     THEN status' = [status EXCEPT ![g] = "gone"] /\ UNCHANGED task
     ELSE /\ status' = [status EXCEPT ![g] = "busy"]
          /\ task' = [task EXCEPT ![g] = Head(work_queues[g])]
  /\ UNCHANGED <<pc, result_queue, files, run, temp_files, per_run, disk, bounds>>

Predictions(t) == [i \in DOMAIN t.chunk |-> <<t.run, t.chunk[i]>>]

\* Mutant: the answer is announced, and the task kept.
AnswerOnly(g) ==
  /\ status[g] = "busy"
  /\ status' = [status EXCEPT ![g] = "idle"]
  /\ files' = [f \in DOMAIN files \cup {<<g, task[g].run>>} |->
                 IF f = <<g, task[g].run>> THEN Predictions(task[g]) ELSE files[f]]
  /\ Say("done", g)
  /\ UNCHANGED <<pc, task, work_queues, run, temp_files, per_run, disk, bounds>>

\* All batches of the chunk, the temporary file, and the message.
Answer(g) ==
  /\ status[g] = "busy"
  /\ status' = [status EXCEPT ![g] = "idle"]
  /\ task' = [task EXCEPT ![g] = NoTask]
  /\ files' = [f \in DOMAIN files \cup {<<g, task[g].run>>} |->
                 IF f = <<g, task[g].run>> THEN Predictions(task[g]) ELSE files[f]]
  /\ Say("done", g)
  /\ UNCHANGED <<pc, work_queues, run, temp_files, per_run, disk, bounds>>

\* An exception while loading or generating is reported, and ends the worker.
Fail(g) ==
  /\ status[g] \in {"init", "busy"} /\ faults < MaxFaults
  /\ faults' = faults + 1
  /\ status' = [status EXCEPT ![g] = "gone"]
  /\ task' = [task EXCEPT ![g] = NoTask]
  /\ Say("error", g)
  /\ UNCHANGED <<pc, gpus, work_queues, files, run, temp_files, per_run, disk, restarts>>

\* The operating system kills the worker: no message.
Die(g) ==
  /\ status[g] \in {"init", "idle", "busy"} /\ faults < MaxFaults
  /\ faults' = faults + 1
  /\ status' = [status EXCEPT ![g] = "dead"]
  /\ task' = [task EXCEPT ![g] = NoTask]
  /\ UNCHANGED <<pc, gpus, work_queues, result_queue, files, run, temp_files, per_run, disk,
                 restarts>>
-----------------------------------------------------------------------------
(* The main process.                                                       *)

\* open("w") empties the file, json.dump fills it: EndSave.
BeginSave(runs) == disk' = [whole |-> FALSE, runs |-> runs]

\* Mutant: the runs of an earlier job are not looked up.
StoredNothing == <<>>

\* cleaned_runs: the stored runs by index, those that validate_run accepts.
Stored ==
  LET runs == SortedBy(disk.runs, [i \in DOMAIN disk.runs |-> disk.runs[i].run_index])
  IN  Selected(runs, {i \in DOMAIN runs : Len(runs[i].predictions) = NumSamples})

\* A file cut short does not load: main raises before anything starts.
Load ==
  /\ pc = "start"
  /\ IF disk.whole
     THEN pc' = "saveClean" /\ per_run' = Stored /\ BeginSave(Stored)
     ELSE pc' = "refused" /\ UNCHANGED <<per_run, disk>>
  /\ UNCHANGED <<workers, files, run, temp_files, bounds>>

EndSave ==
  /\ pc \in {"saveClean", "saveRun", "saveFinal"}
  /\ pc' = CASE pc = "saveClean" -> "launch" [] pc = "saveRun" -> "run"
             [] pc = "saveFinal" -> "finished"
  /\ disk' = [disk EXCEPT !.whole = TRUE]
  /\ UNCHANGED <<workers, files, run, temp_files, per_run, bounds>>

Launch ==
  /\ pc = "launch"
  /\ pc' = "ready"
  /\ status' = [g \in AllGpus |-> IF g \in Target THEN "init" ELSE "off"]
  /\ UNCHANGED <<task, work_queues, result_queue, files, run, temp_files, per_run, disk, bounds>>

\* The first messages: a failure raises outside the try, so that the workers
\* are not told to stop.
AwaitReady ==
  /\ pc = "ready" /\ result_queue # <<>>
  /\ result_queue' = Tail(result_queue)
  /\ IF Head(result_queue).type = "error"
     THEN pc' = "exiting" /\ UNCHANGED temp_files
     ELSE LET count == Append(temp_files, Head(result_queue).gpu)
          IN  IF Len(count) = Len(gpus)
              THEN pc' = "run" /\ temp_files' = <<>>
              ELSE temp_files' = count /\ UNCHANGED pc
  /\ UNCHANGED <<status, task, work_queues, files, run, per_run, disk, bounds>>

\* The run indices not in completed that the loop has still to come to.
Left == {r \in 1..NumRuns : \A i \in DOMAIN per_run : per_run[i].run_index # r}

StartRun ==
  /\ pc = "run" /\ Left # {}
  /\ pc' = "collect"
  /\ run' = Min(Left)
  /\ temp_files' = <<>>
  /\ work_queues' = [g \in AllGpus |->
                       IF \E c \in Active : gpus[c] = g
                       THEN LET c == CHOOSE c \in Active : gpus[c] = g
                            IN  Append(work_queues[g], [run |-> run', chunk |-> Chunks[c]])
                       ELSE work_queues[g]]
  /\ UNCHANGED <<status, task, result_queue, files, per_run, disk, bounds>>

Collect ==
  /\ pc = "collect" /\ result_queue # <<>>
  /\ result_queue' = Tail(result_queue)
  /\ IF Head(result_queue).type = "error"
     THEN pc' = "failed" /\ UNCHANGED temp_files
     ELSE /\ temp_files' = Append(temp_files, Head(result_queue).gpu)
          /\ pc' = IF Len(temp_files') = Cardinality(Active) THEN "merge" ELSE pc
  /\ UNCHANGED <<status, task, work_queues, files, run, per_run, disk, bounds>>

\* Mutant: the files as they were announced.
MergedUnsorted ==
  FlattenSeq([i \in DOMAIN temp_files |-> files[<<temp_files[i], run>>]])

\* temp_files.sort by GPU id, and concatenate.
Merged ==
  LET sorted == SortedBy(temp_files, temp_files)
  IN  FlattenSeq([i \in DOMAIN sorted |-> files[<<sorted[i], run>>]])

\* The files go; another count than the questions' raises; the runs so far
\* are sorted by index and saved.
Merge ==
  /\ pc = "merge"
  /\ files' = [f \in DOMAIN files \ {<<g, run>> : g \in ToSet(temp_files)} |-> files[f]]
  /\ IF Len(Merged) # NumSamples
     THEN pc' = "failed" /\ UNCHANGED <<per_run, disk>>
     ELSE /\ pc' = "saveRun"
          /\ LET runs == Append(per_run, [run_index |-> run, predictions |-> Merged])
             IN  per_run' = SortedBy(runs, [i \in DOMAIN runs |-> runs[i].run_index])
          /\ BeginSave(per_run')
  /\ UNCHANGED <<workers, run, temp_files, bounds>>

\* finally: shutdown_workers puts None in every queue...
Shutdown ==
  /\ pc = "failed" \/ (pc = "run" /\ Left = {})
  /\ pc' = IF pc = "failed" THEN "joinFailed" ELSE "join"
  /\ work_queues' = [g \in AllGpus |-> IF g \in Target THEN Append(work_queues[g], Stop)
                                       ELSE work_queues[g]]
  /\ UNCHANGED <<status, task, result_queue, files, run, temp_files, per_run, disk, bounds>>

Ended(g) == status[g] \in {"off", "gone", "dead"}

\* ... and kills a worker that is still at work after the timeout.
Kill(g) ==
  /\ pc \in {"join", "joinFailed"} /\ ~Ended(g)
  /\ status' = [status EXCEPT ![g] = "gone"]
  /\ task' = [task EXCEPT ![g] = NoTask]
  /\ UNCHANGED <<pc, work_queues, result_queue, files, run, temp_files, per_run, disk, bounds>>

Joined ==
  /\ pc \in {"join", "joinFailed"} /\ \A g \in Target : Ended(g)
  /\ IF pc = "join" THEN pc' = "saveFinal" /\ BeginSave(per_run)
                    ELSE pc' = "exited" /\ UNCHANGED disk
  /\ UNCHANGED <<workers, files, run, temp_files, per_run, bounds>>

\* A Python process joins its children before it exits.
Exit ==
  /\ pc = "exiting" /\ \A g \in Target : Ended(g)
  /\ pc' = "exited"
  /\ UNCHANGED <<workers, files, run, temp_files, per_run, disk, bounds>>

\* The whole job is killed; what the output file was about to hold is lost.
Crash ==
  /\ pc \notin {"down", "finished", "exited", "refused"}
  /\ pc' = "down"
  /\ disk' = IF disk.whole THEN disk ELSE [disk EXCEPT !.runs = <<>>]
  /\ UNCHANGED <<workers, files, run, temp_files, per_run, bounds>>

\* Started again, after a crash, a failure or to look again.
Restart ==
  /\ pc \in {"down", "exited", "finished"} /\ restarts < MaxRestarts
  /\ restarts' = restarts + 1
  /\ pc' = "start"
  /\ gpus' \in GpuLists
  /\ status' = [g \in AllGpus |-> "off"] /\ task' = [g \in AllGpus |-> NoTask]
  /\ work_queues' = [g \in AllGpus |-> <<>>] /\ result_queue' = <<>>
  /\ run' = 0 /\ temp_files' = <<>> /\ per_run' = <<>>
  /\ UNCHANGED <<files, disk, faults>>

Main ==
  \/ Load \/ EndSave \/ Launch \/ AwaitReady \/ StartRun \/ Collect \/ Merge
  \/ Shutdown \/ (\E g \in AllGpus : Kill(g)) \/ Joined \/ Exit

Worker(g) == pc # "down" /\ (Ready(g) \/ Take(g) \/ Answer(g))

Next ==
  \/ Main \/ Crash \/ Restart
  \/ \E g \in AllGpus : Worker(g) \/ (pc # "down" /\ (Fail(g) \/ Die(g)))

\* The processes are scheduled and generation ends; nothing makes a worker
\* fail or the job be killed or started again.
Fairness == WF_vars(Main) /\ \A g \in AllGpus : WF_vars(Worker(g))

Spec == Init /\ [][Next]_vars /\ Fairness
-----------------------------------------------------------------------------
(* Properties.                                                             *)

TypeOK ==
  /\ pc \in {"start", "saveClean", "launch", "ready", "run", "collect", "merge", "saveRun",
             "failed", "join", "joinFailed", "saveFinal", "finished", "exiting", "exited",
             "refused", "down"}
  /\ gpus \in GpuLists /\ run \in 0..NumRuns
  /\ \A g \in AllGpus : /\ status[g] \in {"off", "init", "idle", "busy", "gone", "dead"}
                        /\ (task[g] # NoTask) <=> (status[g] = "busy")
                        /\ Len(work_queues[g]) <= 2
  /\ ToSet(temp_files) \subseteq Target
  /\ disk.whole \in BOOLEAN

\* Whatever is written to the output file, by whichever job: each run once, with
\* the prediction of every question in the order of the questions; a job that
\* ends without an error leaves all runs.
RunsAreExact ==
  /\ \A i \in DOMAIN disk.runs :
       disk.runs[i].predictions = [q \in 1..NumSamples |-> <<disk.runs[i].run_index, q>>]
  /\ \A i, j \in DOMAIN disk.runs : disk.runs[i].run_index = disk.runs[j].run_index => i = j
  /\ pc = "finished" => {disk.runs[i].run_index : i \in DOMAIN disk.runs} = 1..NumRuns

\* No job drops a run that the output file held, but one that is killed in the
\* middle of writing the file: neither an error, a restart on other GPUs, nor a
\* kill at any other point costs a finished run.
SavedRunsStay ==
  [][\/ ToSet(disk.runs) \subseteq ToSet(disk'.runs)
     \/ ~disk.whole /\ pc' = "down"]_vars

Over == pc \in {"finished", "exited", "refused", "down"}

\* An evaluation that is not killed ends: with all runs if no worker failed,
\* with an error if one reported that it failed at work.  It may wait for
\* ever if a worker dies, or fails to load while others have loaded.
EvalEnds ==
  /\ (pc = "start") ~> (Over \/ pc = "exiting" \/ \E g \in AllGpus : status[g] = "dead")
  /\ (pc = "start") ~> (pc \in {"finished", "refused", "down"} \/ faults > 0)
=============================================================================
