--------------------------- MODULE EvalWorkers_proofs ---------------------------
(***************************************************************************)
(* Proofs, for any lists of GPUs, numbers of questions and runs, failures, *)
(* kills and restarts: the queues never hold more than a chunk and the     *)
(* word to stop, no saved run is dropped, and what is saved is the         *)
(* prediction of every question in order.                                  *)
(***************************************************************************)
EXTENDS EvalWorkers, SharedLemmas

Work == [run : 1..NumRuns, chunk : Seq(Nat)]
Messages == [type : {"ready", "done", "error"}, gpu : AllGpus]

Types ==
  /\ pc \in {"start", "saveClean", "launch", "ready", "run", "collect", "merge", "saveRun",
             "failed", "join", "joinFailed", "saveFinal", "finished", "exiting", "exited",
             "refused", "down"}
  /\ gpus \in GpuLists /\ run \in 0..NumRuns
  /\ status \in [AllGpus -> {"off", "init", "idle", "busy", "gone", "dead"}]
  /\ task \in [AllGpus -> Work \cup {NoTask}]
  /\ work_queues \in [AllGpus -> Seq(Work \cup {Stop})]
  /\ result_queue \in Seq(Messages)
  /\ temp_files \in Seq(AllGpus)
  /\ \A g \in AllGpus : task[g] # NoTask <=> status[g] = "busy"

Begun ==
  /\ \A g \in AllGpus : status[g] # "off" => g \in Target
  /\ \A i \in 1..Len(result_queue) : result_queue[i].gpu \in Target
  /\ \A i \in 1..Len(temp_files) : temp_files[i] \in Target

Stopped == pc \in {"join", "joinFailed", "saveFinal", "finished", "exited", "down"}

ShortQueues == \A g \in AllGpus : Len(work_queues[g]) <= IF Stopped THEN 2 ELSE 1

Unheard(g) ==
  /\ \A i \in 1..Len(result_queue) : result_queue[i].gpu # g
  /\ \A i \in 1..Len(temp_files) : temp_files[i] # g

HeardOnce ==
  /\ \A i, j \in 1..Len(result_queue) : result_queue[i].gpu = result_queue[j].gpu => i = j
  /\ \A i, j \in 1..Len(temp_files) : temp_files[i] = temp_files[j] => i = j
  /\ \A i \in 1..Len(temp_files) : \A j \in 1..Len(result_queue) :
       temp_files[i] # result_queue[j].gpu

Quiet ==
  /\ result_queue = <<>>
  /\ \A g \in AllGpus : status[g] \notin {"init", "busy"} /\ work_queues[g] = <<>>

Sent(g, t) == \E c \in Active : g = gpus[c] /\ t = [run |-> run, chunk |-> Chunks[c]]
IsActive(g) == \E c \in Active : g = gpus[c]
Filed(g) ==
  \E c \in Active :
    /\ g = gpus[c] /\ <<g, run>> \in DOMAIN files
    /\ files[<<g, run>>] = Predictions([run |-> run, chunk |-> Chunks[c]])

NotBegun ==
  pc \in {"start", "saveClean", "launch", "refused"} =>
    Quiet /\ temp_files = <<>> /\ \A g \in AllGpus : status[g] = "off"

Loading ==
  pc = "ready" =>
    /\ HeardOnce
    /\ \A g \in AllGpus : status[g] # "busy" /\ work_queues[g] = <<>>
                          /\ (status[g] = "init" => Unheard(g))

Between == pc \in {"run", "saveRun", "merge"} => Quiet

Answering ==
  pc = "collect" =>
    /\ HeardOnce
    /\ \A g \in AllGpus :
         /\ status[g] # "init"
         /\ status[g] = "busy" => Sent(g, task[g]) /\ Unheard(g) /\ work_queues[g] = <<>>
         /\ work_queues[g] # <<>> => Sent(g, work_queues[g][1]) /\ Unheard(g)
    /\ \A i \in 1..Len(result_queue) :
         /\ IsActive(result_queue[i].gpu)
         /\ result_queue[i].type # "error" => Filed(result_queue[i].gpu)
    /\ \A i \in 1..Len(temp_files) : Filed(temp_files[i])

Answered ==
  pc = "merge" =>
    /\ Len(temp_files) = Cardinality(Active)
    /\ \A i, j \in 1..Len(temp_files) : temp_files[i] = temp_files[j] => i = j
    /\ \A i \in 1..Len(temp_files) : Filed(temp_files[i])

WorkerInv ==
  Types /\ Begun /\ ShortQueues /\ NotBegun /\ Loading /\ Between /\ Answering /\ Answered

RunList(s) ==
  \E n \in 0..NumRuns :
    /\ DOMAIN s = 1..n /\ s = [i \in 1..n |-> s[i]]
    /\ \A i \in 1..n : s[i].run_index = i /\ Len(s[i].predictions) = NumSamples

DiskInv ==
  /\ disk = [whole |-> disk.whole, runs |-> disk.runs] /\ disk.whole \in BOOLEAN
  /\ RunList(disk.runs) /\ RunList(per_run)
  /\ pc \notin {"start", "refused", "down"} => disk.runs = per_run
  /\ pc \in {"collect", "merge"} => run = Len(per_run) + 1
  /\ pc \in {"join", "saveFinal", "finished"} => Len(per_run) = NumRuns

(* The job's list of GPUs.                                                 *)
LEMMA GpusType ==
  ASSUME gpus \in GpuLists
  PROVE  /\ gpus \in Seq(Nat) /\ Len(gpus) \in Nat \ {0} /\ DOMAIN gpus = 1..Len(gpus)
         /\ \A i, j \in 1..Len(gpus) : gpus[i] = gpus[j] => i = j
         /\ \A g : g \in Target <=> \E i \in 1..Len(gpus) : g = gpus[i]
         /\ \A g \in Target : g \in AllGpus
<1>1. gpus \in Seq(Nat) /\ gpus # <<>> /\ \A i, j \in DOMAIN gpus : gpus[i] = gpus[j] => i = j
  BY ListsAssumption
<1>2. Len(gpus) \in Nat /\ DOMAIN gpus = 1..Len(gpus)
  BY <1>1, LenProperties
<1>3. Len(gpus) # 0
  BY <1>1, EmptySeq
<1>4. \A g : g \in Target <=> \E i \in 1..Len(gpus) : g = gpus[i]
  BY <1>2 DEF Target, ToSet
<1>5. Target \in {ToSet(l) : l \in GpuLists}
  BY DEF Target
<1> QED
  BY <1>1, <1>2, <1>3, <1>4, <1>5 DEF AllGpus

(* The chunks: as many as needed for all questions, and none empty.        *)
LEMMA ChunksAre ==
  ASSUME gpus \in GpuLists
  PROVE  /\ ChunkSize \in Nat \ {0}
         /\ Len(Chunks) \in 1..Len(gpus) /\ DOMAIN Chunks = 1..Len(Chunks)
         /\ Len(Chunks) = (NumSamples + ChunkSize - 1) \div ChunkSize
         /\ Active = 1..Len(Chunks)
         /\ \A c \in 1..Len(Chunks) :
              /\ Chunks[c] \in Seq(Nat) /\ DOMAIN Chunks[c] = 1..Len(Chunks[c])
              /\ Len(Chunks[c]) = IF ChunkSize <= NumSamples - ChunkSize * (c - 1)
                                  THEN ChunkSize ELSE NumSamples - ChunkSize * (c - 1)
              /\ \A i \in 1..Len(Chunks[c]) : Chunks[c][i] = ChunkSize * (c - 1) + i
<1>1. PICK n \in Nat \ {0} : n = Len(gpus)
  BY GpusType
<1>2. PICK N \in Nat \ {0} : N = NumSamples
  BY CountsAssumption
<1>3. PICK k : k = (N + n - 1) \div n
  OBVIOUS
<1>4. k \in Nat \ {0} /\ N <= n * k
  BY <1>3, CeilDiv
<1>5. ChunkSize = k
  BY <1>1, <1>2, <1>3 DEF ChunkSize
<1>6. PICK c : c = (N + k - 1) \div k
  OBVIOUS
<1>7. /\ c \in Nat \ {0} /\ k * (c - 1) < N
      /\ \A i \in 1..c : k * (i - 1) < N
  BY <1>4, <1>6, CeilDiv
<1>8. c <= n
  <2>1. k * (c - 1) < k * n
    BY <1>4, <1>7
  <2>2. PICK d \in Nat : d = c - 1
    BY <1>7
  <2>3. k * d < k * n
    BY <2>1, <2>2
  <2>4. ~ n <= d
    BY <2>3, <1>4
  <2> QED
    BY <2>2, <2>4, <1>7
<1>9. Chunks = [a \in 1..c |-> [i \in 1..Min({k, N - (a - 1) * k}) |-> (a - 1) * k + i]]
  BY <1>2, <1>5, <1>6 DEF Chunks
<1>10. Len(Chunks) = c /\ DOMAIN Chunks = 1..c
  BY <1>7, <1>9
<1>11. ASSUME NEW a \in 1..c
       PROVE  /\ Chunks[a] \in Seq(Nat) /\ DOMAIN Chunks[a] = 1..Len(Chunks[a])
              /\ Len(Chunks[a]) = IF k <= N - k * (a - 1) THEN k ELSE N - k * (a - 1)
              /\ \A i \in 1..Len(Chunks[a]) : Chunks[a][i] = k * (a - 1) + i
  <2>1. PICK b \in Nat : b = a - 1
    BY <1>7, <1>11
  <2>2. PICK x \in Nat : x = k * b
    BY <1>4
  <2>3. x < N /\ k * (a - 1) = x /\ (a - 1) * k = x
    BY <1>4, <1>7, <2>1, <2>2
  <2>4. PICK m : m = Min({k, N - x})
    OBVIOUS
  <2>5. m \in Nat /\ m = IF k <= N - x THEN k ELSE N - x
    BY <1>4, <2>3, <2>4, MinOfTwo
  <2>6. Chunks[a] = [i \in 1..m |-> x + i]
    BY <1>9, <1>11, <2>3, <2>4
  <2>7. DOMAIN Chunks[a] = 1..m /\ \A i \in 1..m : Chunks[a][i] = x + i
    BY <2>6
  <2>8. \A i \in 1..m : x + i \in Nat
    BY <2>5
  <2>9. Chunks[a] \in Seq(Nat) /\ Len(Chunks[a]) = m
    <3>1. PICK f : f = [i \in 1..m |-> x + i]
      OBVIOUS
    <3>2. /\ DOMAIN f = 1..m /\ f = [i \in DOMAIN f |-> f[i]]
          /\ \A i \in 1..m : f[i] \in Nat
      BY <2>8, <3>1
    <3>3. f \in Seq(Nat) /\ Len(f) = m
      BY <2>5, <3>2, IsSequence
    <3> QED
      BY <2>6, <3>1, <3>3
  <2> QED
    BY <2>3, <2>5, <2>7, <2>9
<1>12. Active = 1..c
  BY <1>1, <1>7, <1>8, <1>10, GpusType DEF Active
<1> QED
  BY <1>1, <1>2, <1>4, <1>5, <1>6, <1>7, <1>8, <1>10, <1>11, <1>12
(* The GPUs that get a chunk are the job's, and each gets one.             *)
LEMMA ActiveAre ==
  ASSUME gpus \in GpuLists
  PROVE  /\ \A c \in Active : gpus[c] \in Target /\ gpus[c] \in AllGpus
         /\ \A c, d \in Active : gpus[c] = gpus[d] => c = d
         /\ IsFiniteSet(Active) /\ Cardinality(Active) = Len(Chunks)
<1>1. /\ Len(Chunks) \in 1..Len(gpus) /\ Len(gpus) \in Nat
      /\ Active = 1..Len(Chunks)
  BY ChunksAre, GpusType
<1>2. Active \subseteq 1..Len(gpus) /\ Len(Chunks) \in Nat
  BY <1>1
<1>3. IsFiniteSet(Active) /\ Cardinality(Active) = Len(Chunks)
  <2>1. PICK c \in Nat : c = Len(Chunks)
    BY <1>2
  <2>2. IsFiniteSet(1..c) /\ Cardinality(1..c) = c
    BY FS_Interval
  <2> QED
    BY <1>1, <2>1, <2>2
<1> QED
  BY <1>2, <1>3, GpusType

(* What the main process looks up in its list stays as long as the list.   *)
LEMMA SameJob ==
  ASSUME gpus' = gpus
  PROVE  Active' = Active /\ Chunks' = Chunks /\ Target' = Target
<1>1. ChunkSize' = ChunkSize
  BY DEF ChunkSize
<1>2. Chunks' = Chunks
  BY <1>1 DEF Chunks
<1> QED
  BY <1>2 DEF Active, Target

(* A step of the main process that only moves on.                          *)
LEMMA MovesOn ==
  ASSUME WorkerInv, UNCHANGED <<workers, gpus, run, temp_files>>,
         pc' \in {"saveClean", "launch", "run", "saveRun", "failed", "saveFinal", "finished",
                  "exited", "refused", "down"},
         pc' \in {"saveClean", "launch", "refused"} => pc \in {"start", "saveClean", "launch"},
         pc' \in {"run", "saveRun"} => pc \in {"merge", "saveRun"},
         pc' \in {"failed"} => ~Stopped
  PROVE  WorkerInv'
<1>1. Target' = Target
  BY SameJob DEF WorkerInv, Types
<1>2. Types'
  BY DEF WorkerInv, Types, workers
<1>3. Begun'
  BY <1>1 DEF WorkerInv, Begun, workers
<1>4. ShortQueues'
  BY DEF WorkerInv, ShortQueues, Stopped, workers
<1>5. NotBegun' /\ Between'
  BY DEF WorkerInv, NotBegun, Between, Quiet, workers
<1>6. Loading' /\ Answering' /\ Answered'
  BY DEF Loading, Answering, Answered
<1> QED
  BY <1>2, <1>3, <1>4, <1>5, <1>6 DEF WorkerInv

(* One message more in the result queue.                                   *)
LEMMA Saying ==
  ASSUME Types, NEW g \in AllGpus, NEW type \in {"ready", "done", "error"}, Say(type, g)
  PROVE  /\ result_queue' \in Seq(Messages)
         /\ Len(result_queue) \in Nat /\ Len(result_queue') = Len(result_queue) + 1
         /\ \A i \in 1..Len(result_queue) : result_queue'[i] = result_queue[i]
         /\ result_queue'[Len(result_queue) + 1].gpu = g
         /\ result_queue'[Len(result_queue) + 1].type = type
<1>1. [type |-> type, gpu |-> g] \in Messages /\ result_queue \in Seq(Messages)
  BY DEF Messages, Types
<1> QED
  BY <1>1, AppendProperties, LenProperties DEF Say

(* A GPU not heard of yet speaks.                                          *)
LEMMA HeardNow ==
  ASSUME Types, NEW g \in AllGpus, NEW type \in {"ready", "done", "error"}, Say(type, g),
         temp_files' = temp_files, HeardOnce, Unheard(g)
  PROVE  /\ HeardOnce'
         /\ \A h \in AllGpus : h # g /\ Unheard(h) => Unheard(h)'
<1>1. PICK n \in Nat : n = Len(result_queue)
  BY Saying
<1>2. /\ Len(result_queue') = n + 1
      /\ \A i \in 1..n : result_queue'[i] = result_queue[i]
      /\ result_queue'[n + 1].gpu = g
  BY <1>1, Saying
<1>3. \A i \in 1..n+1 : i \in 1..n \/ i = n + 1
  BY <1>1
<1>4. HeardOnce'
  BY <1>1, <1>2, <1>3 DEF HeardOnce, Unheard
<1>5. \A h \in AllGpus : h # g /\ Unheard(h) => Unheard(h)'
  BY <1>1, <1>2, <1>3 DEF Unheard
<1> QED
  BY <1>4, <1>5

(* Only GPUs of the job speak.                                             *)
LEMMA BegunSpeak ==
  ASSUME Types, Begun, NEW g \in Target, g \in AllGpus,
         NEW type \in {"ready", "done", "error"}, Say(type, g)
  PROVE  \A i \in 1..Len(result_queue') : result_queue'[i].gpu \in Target
<1>1. PICK n \in Nat : n = Len(result_queue)
  BY Saying
<1>2. /\ Len(result_queue') = n + 1
      /\ \A i \in 1..n : result_queue'[i] = result_queue[i]
      /\ result_queue'[n + 1].gpu = g
  BY <1>1, Saying
<1>3. \A i \in 1..n+1 : i \in 1..n \/ i = n + 1
  BY <1>1
<1> QED
  BY <1>1, <1>2, <1>3 DEF Begun

(* A worker has loaded the model.                                          *)
LEMMA ReadyStep ==
  ASSUME WorkerInv, NEW g \in AllGpus, pc # "down", Ready(g)
  PROVE  WorkerInv'
<1>1. Types /\ status[g] = "init" /\ Say("ready", g) /\ gpus' = gpus /\ temp_files' = temp_files
  BY DEF WorkerInv, Ready, bounds
<1>2. Target' = Target
  BY <1>1, SameJob DEF Types
<1>3. g \in Target
  BY <1>1 DEF WorkerInv, Begun
<1>4. PICK n \in Nat :
        /\ n = Len(result_queue) /\ Len(result_queue') = n + 1
        /\ result_queue' \in Seq(Messages)
        /\ \A i \in 1..n : result_queue'[i] = result_queue[i]
        /\ result_queue'[n + 1].gpu = g
  BY <1>1, Saying
<1>5. Types'
  BY <1>1, <1>4 DEF Types, Ready, bounds
<1>6. Begun'
  <2>1. \A i \in 1..Len(result_queue') : result_queue'[i].gpu \in Target
    BY <1>1, <1>3, BegunSpeak DEF WorkerInv
  <2>2. \A h \in AllGpus : status'[h] # "off" => h \in Target
    BY <1>1, <1>3 DEF WorkerInv, Begun, Types, Ready
  <2> QED
    BY <1>1, <1>2, <2>1, <2>2 DEF WorkerInv, Begun
<1>7. ShortQueues'
  BY DEF WorkerInv, ShortQueues, Stopped, Ready
<1>8. pc' = pc /\ pc \notin {"start", "saveClean", "launch", "refused", "run", "saveRun", "merge",
                            "collect"}
  BY <1>1 DEF WorkerInv, NotBegun, Between, Quiet, Answering, Ready
<1>9. NotBegun' /\ Between' /\ Answering' /\ Answered'
  BY <1>8 DEF NotBegun, Between, Answering, Answered
<1>10. ASSUME pc = "ready" PROVE Loading'
  <2>1. HeardOnce /\ Unheard(g)
    BY <1>1, <1>10 DEF WorkerInv, Loading
  <2>2. HeardOnce' /\ \A h \in AllGpus : h # g /\ Unheard(h) => Unheard(h)'
    BY <1>1, <2>1, HeardNow
  <2> QED
    BY <1>1, <1>10, <2>2 DEF WorkerInv, Loading, Types, Ready
<1> QED
  BY <1>5, <1>6, <1>7, <1>8, <1>9, <1>10 DEF WorkerInv, Loading
(* A worker takes what is in its queue.                                    *)
LEMMA TakeStep ==
  ASSUME WorkerInv, NEW g \in AllGpus, pc # "down", Take(g)
  PROVE  WorkerInv'
<1> DEFINE item == work_queues[g][1]
<1>1. /\ Types /\ status[g] = "idle" /\ work_queues[g] # <<>>
      /\ gpus' = gpus /\ temp_files' = temp_files /\ result_queue' = result_queue
      /\ run' = run /\ files' = files /\ pc' = pc
  BY DEF WorkerInv, Take, bounds
<1>2. Target' = Target /\ Active' = Active /\ Chunks' = Chunks
  BY <1>1, SameJob DEF Types
<1>3. /\ item \in Work \cup {Stop} /\ item = Head(work_queues[g])
      /\ Tail(work_queues[g]) \in Seq(Work \cup {Stop})
      /\ Len(work_queues[g]) \in Nat /\ Len(Tail(work_queues[g])) = Len(work_queues[g]) - 1
  BY <1>1, HeadTailProperties, LenProperties DEF Types
<1>4. \/ /\ item = Stop /\ status' = [status EXCEPT ![g] = "gone"] /\ task' = task
      \/ /\ item \in Work /\ item # NoTask
         /\ status' = [status EXCEPT ![g] = "busy"] /\ task' = [task EXCEPT ![g] = item]
  BY <1>3 DEF Take, Work, NoTask
<1>5. work_queues' = [work_queues EXCEPT ![g] = Tail(work_queues[g])]
  BY DEF Take
<1> HIDE DEF item
<1>6. Types'
  <2>1. work_queues' \in [AllGpus -> Seq(Work \cup {Stop})]
    BY <1>1, <1>3, <1>5 DEF Types
  <2>2. /\ status' \in [AllGpus -> {"off", "init", "idle", "busy", "gone", "dead"}]
        /\ task' \in [AllGpus -> Work \cup {NoTask}]
        /\ \A h \in AllGpus : task'[h] # NoTask <=> status'[h] = "busy"
    BY <1>1, <1>4 DEF Types
  <2> QED
    BY <1>1, <2>1, <2>2 DEF Types
<1>7. Begun'
  BY <1>1, <1>2, <1>4 DEF WorkerInv, Begun, Types
<1>8. ShortQueues'
  BY <1>1, <1>3, <1>5 DEF WorkerInv, ShortQueues, Stopped, Types
<1>9. pc \notin {"start", "saveClean", "launch", "refused", "run", "saveRun", "merge", "ready"}
  BY <1>1 DEF WorkerInv, NotBegun, Between, Quiet, Loading
<1>10. NotBegun' /\ Between' /\ Loading' /\ Answered'
  BY <1>1, <1>9 DEF NotBegun, Between, Loading, Answered
<1>11. ASSUME pc = "collect" PROVE Answering'
  <2>1. Tail(work_queues[g]) = <<>>
    BY <1>1, <1>3, <1>11, EmptySeq DEF WorkerInv, ShortQueues, Stopped
  <2>2. (\E c \in Active : g = gpus[c] /\ item = [run |-> run, chunk |-> Chunks[c]]) /\ Unheard(g)
    BY <1>1, <1>11 DEF WorkerInv, Answering, Sent, item
  <2>3. HeardOnce' /\ \A h \in AllGpus : Unheard(h)' <=> Unheard(h)
    BY <1>1, <1>11 DEF WorkerInv, Answering, HeardOnce, Unheard
  <2>4. ASSUME NEW h \in AllGpus
        PROVE  /\ status'[h] # "init"
               /\ status'[h] = "busy" => Sent(h, task[h])' /\ Unheard(h)' /\ work_queues'[h] = <<>>
               /\ work_queues'[h] # <<>> => Sent(h, work_queues[h][1])' /\ Unheard(h)'
    <3>1. CASE h = g
      <4>1. work_queues'[g] = <<>>
        BY <1>1, <1>5, <2>1 DEF Types
      <4>2. status'[g] = "busy" => task'[g] = item
        BY <1>1, <1>4 DEF Types
      <4>3. status'[g] # "init"
        BY <1>1, <1>4 DEF Types
      <4> QED
        BY <1>1, <1>2, <2>2, <2>3, <3>1, <4>1, <4>2, <4>3 DEF Sent
    <3>2. CASE h # g
      <4>1. status'[h] = status[h] /\ task'[h] = task[h] /\ work_queues'[h] = work_queues[h]
        BY <1>1, <1>4, <1>5, <3>2 DEF Types
      <4> QED
        BY <1>1, <1>2, <1>11, <2>3, <4>1 DEF WorkerInv, Answering, Sent
    <3> QED
      BY <3>1, <3>2
  <2>5. /\ \A i \in 1..Len(result_queue') :
             /\ IsActive(result_queue[i].gpu)'
             /\ result_queue'[i].type # "error" => Filed(result_queue[i].gpu)'
        /\ \A i \in 1..Len(temp_files') : Filed(temp_files[i])'
    BY <1>1, <1>2, <1>11 DEF WorkerInv, Answering, IsActive, Filed
  <2> QED
    BY <2>3, <2>4, <2>5 DEF Answering
<1> QED
  BY <1>1, <1>6, <1>7, <1>8, <1>10, <1>11 DEF WorkerInv, Answering
(* Who works, has work or has answered, as the main process collects.      *)
LEMMA OthersAnswering ==
  ASSUME WorkerInv, pc = "collect", gpus' = gpus, run' = run, NEW g \in AllGpus,
         \A h \in AllGpus : h # g =>
           /\ status'[h] = status[h] /\ task'[h] = task[h]
           /\ work_queues'[h] = work_queues[h]
           /\ Unheard(h) => Unheard(h)',
         status'[g] \notin {"init", "busy"}, work_queues'[g] = <<>>
  PROVE  \A h \in AllGpus :
           /\ status'[h] # "init"
           /\ status'[h] = "busy" => Sent(h, task[h])' /\ Unheard(h)' /\ work_queues'[h] = <<>>
           /\ work_queues'[h] # <<>> => Sent(h, work_queues[h][1])' /\ Unheard(h)'
<1>1. Active' = Active /\ Chunks' = Chunks
  BY SameJob DEF WorkerInv, Types
<1> SUFFICES ASSUME NEW h \in AllGpus, h # g
             PROVE  /\ status'[h] # "init"
                    /\ status'[h] = "busy" => Sent(h, task[h])' /\ Unheard(h)'
                                              /\ work_queues'[h] = <<>>
                    /\ work_queues'[h] # <<>> => Sent(h, work_queues[h][1])' /\ Unheard(h)'
  OBVIOUS
<1> QED
  BY <1>1 DEF WorkerInv, Answering, Sent

(* A worker answers.                                                       *)
LEMMA AnswerStep ==
  ASSUME WorkerInv, NEW g \in AllGpus, pc # "down", Answer(g)
  PROVE  WorkerInv'
<1>1. /\ Types /\ status[g] = "busy" /\ Say("done", g)
      /\ gpus' = gpus /\ temp_files' = temp_files /\ work_queues' = work_queues
      /\ run' = run /\ pc' = pc
      /\ status' = [status EXCEPT ![g] = "idle"] /\ task' = [task EXCEPT ![g] = NoTask]
  BY DEF WorkerInv, Answer, bounds
<1>2. Target' = Target /\ Active' = Active /\ Chunks' = Chunks
  BY <1>1, SameJob DEF Types
<1>3. g \in Target
  BY <1>1 DEF WorkerInv, Begun
<1>4. result_queue' \in Seq(Messages)
  BY <1>1, Saying
<1>5. Types'
  BY <1>1, <1>4 DEF Types
<1>6. Begun'
  <2>1. \A i \in 1..Len(result_queue') : result_queue'[i].gpu \in Target
    BY <1>1, <1>3, BegunSpeak DEF WorkerInv
  <2>2. \A h \in AllGpus : status'[h] # "off" => h \in Target
    BY <1>1, <1>3 DEF WorkerInv, Begun, Types
  <2> QED
    BY <1>1, <1>2, <2>1, <2>2 DEF WorkerInv, Begun
<1>7. ShortQueues'
  BY <1>1 DEF WorkerInv, ShortQueues, Stopped
<1>8. pc \notin {"start", "saveClean", "launch", "refused", "run", "saveRun", "merge", "ready"}
  BY <1>1 DEF WorkerInv, NotBegun, Between, Quiet, Loading
<1>9. NotBegun' /\ Between' /\ Loading' /\ Answered'
  BY <1>1, <1>8 DEF NotBegun, Between, Loading, Answered
<1>10. ASSUME pc = "collect" PROVE Answering'
  <2>1. HeardOnce /\ Unheard(g) /\ Sent(g, task[g]) /\ work_queues[g] = <<>>
    BY <1>1, <1>10 DEF WorkerInv, Answering
  <2>2. HeardOnce' /\ \A h \in AllGpus : h # g /\ Unheard(h) => Unheard(h)'
    BY <1>1, <2>1, HeardNow
  <2>3. \A h \in AllGpus :
           /\ status'[h] # "init"
           /\ status'[h] = "busy" => Sent(h, task[h])' /\ Unheard(h)' /\ work_queues'[h] = <<>>
           /\ work_queues'[h] # <<>> => Sent(h, work_queues[h][1])' /\ Unheard(h)'
    <3>1. \A h \in AllGpus : h # g =>
            /\ status'[h] = status[h] /\ task'[h] = task[h]
            /\ work_queues'[h] = work_queues[h]
            /\ Unheard(h) => Unheard(h)'
      BY <1>1, <2>2 DEF Types
    <3>2. status'[g] \notin {"init", "busy"} /\ work_queues'[g] = <<>>
      BY <1>1, <2>1 DEF Types
    <3> QED
      BY <1>1, <1>10, <3>1, <3>2, OthersAnswering
  <2>4. PICK c \in Active : g = gpus[c] /\ task[g] = [run |-> run, chunk |-> Chunks[c]]
    BY <2>1 DEF Sent
  <2>5. files' = [f \in DOMAIN files \cup {<<g, run>>} |->
                    IF f = <<g, run>> THEN Predictions([run |-> run, chunk |-> Chunks[c]])
                    ELSE files[f]]
    BY <2>4 DEF Answer
  <2>6. Filed(g)'
    BY <1>1, <1>2, <2>4, <2>5 DEF Filed, Predictions
  <2>7. ASSUME NEW h, h # g, Filed(h) PROVE Filed(h)'
    BY <1>1, <1>2, <2>5, <2>7 DEF Filed, Predictions
  <2>8. IsActive(g)' /\ \A h : IsActive(h) => IsActive(h)'
    BY <1>1, <1>2, <2>4 DEF IsActive
  <2>9. PICK n \in Nat : n = Len(result_queue)
    BY <1>1, Saying
  <2>10. /\ Len(result_queue') = n + 1
         /\ \A i \in 1..n : result_queue'[i] = result_queue[i]
         /\ result_queue'[n + 1].gpu = g
    BY <1>1, <2>9, Saying
  <2>11. ASSUME NEW i \in 1..n+1
         PROVE  /\ \E h : h = result_queue'[i].gpu /\ IsActive(h)'
                /\ result_queue'[i].type # "error" =>
                     \E h : h = result_queue'[i].gpu /\ Filed(h)'
    <3>1. CASE i = n + 1
      BY <2>6, <2>8, <2>10, <3>1
    <3>2. CASE i \in 1..n
      <4>1. result_queue'[i] = result_queue[i] /\ result_queue[i].gpu # g
        BY <2>1, <2>9, <2>10, <3>2 DEF Unheard
      <4>2. /\ IsActive(result_queue[i].gpu)
            /\ result_queue[i].type # "error" => Filed(result_queue[i].gpu)
        BY <1>10, <2>9, <3>2 DEF WorkerInv, Answering
      <4> QED
        BY <2>7, <2>8, <4>1, <4>2
    <3> QED
      BY <2>9, <3>1, <3>2
  <2>12. \A i \in 1..Len(temp_files') : \E h : h = temp_files'[i] /\ Filed(h)'
    <3>1. \A i \in 1..Len(temp_files) : temp_files[i] # g /\ Filed(temp_files[i])
      BY <1>10, <2>1 DEF WorkerInv, Answering, Unheard
    <3> QED
      BY <1>1, <2>7, <3>1
  <2>13. /\ \A i \in 1..Len(result_queue') :
              /\ IsActive(result_queue[i].gpu)'
              /\ result_queue'[i].type # "error" => Filed(result_queue[i].gpu)'
         /\ \A i \in 1..Len(temp_files') : Filed(temp_files[i])'
    <3>1. ASSUME NEW i \in 1..Len(result_queue') PROVE IsActive(result_queue[i].gpu)'
      BY <2>10, <2>11, Zenon DEF IsActive
    <3>2. ASSUME NEW i \in 1..Len(result_queue'), result_queue'[i].type # "error"
          PROVE  Filed(result_queue[i].gpu)'
      BY <2>10, <2>11, <3>2, Zenon DEF Filed
    <3>3. ASSUME NEW i \in 1..Len(temp_files') PROVE Filed(temp_files[i])'
      BY <2>12, <3>3, Zenon DEF Filed
    <3> QED
      BY <3>1, <3>2, <3>3
  <2> QED
    BY <2>2, <2>3, <2>13 DEF Answering
<1> QED
  BY <1>1, <1>5, <1>6, <1>7, <1>8, <1>9, <1>10 DEF WorkerInv, Answering
(* A worker reports that it failed.                                        *)
LEMMA FailStep ==
  ASSUME WorkerInv, NEW g \in AllGpus, pc # "down", Fail(g)
  PROVE  WorkerInv'
<1>1. /\ Types /\ status[g] \in {"init", "busy"} /\ Say("error", g)
      /\ gpus' = gpus /\ temp_files' = temp_files /\ work_queues' = work_queues
      /\ run' = run /\ pc' = pc /\ files' = files
      /\ status' = [status EXCEPT ![g] = "gone"] /\ task' = [task EXCEPT ![g] = NoTask]
  BY DEF WorkerInv, Fail
<1>2. Target' = Target /\ Active' = Active /\ Chunks' = Chunks
  BY <1>1, SameJob DEF Types
<1>3. g \in Target
  BY <1>1 DEF WorkerInv, Begun
<1>4. result_queue' \in Seq(Messages)
  BY <1>1, Saying
<1>5. Types'
  BY <1>1, <1>4 DEF Types
<1>6. Begun'
  <2>1. \A i \in 1..Len(result_queue') : result_queue'[i].gpu \in Target
    BY <1>1, <1>3, BegunSpeak DEF WorkerInv
  <2>2. \A h \in AllGpus : status'[h] # "off" => h \in Target
    BY <1>1, <1>3 DEF WorkerInv, Begun, Types
  <2> QED
    BY <1>1, <1>2, <2>1, <2>2 DEF WorkerInv, Begun
<1>7. ShortQueues'
  BY <1>1 DEF WorkerInv, ShortQueues, Stopped
<1>8. pc \notin {"start", "saveClean", "launch", "refused", "run", "saveRun", "merge"}
  BY <1>1 DEF WorkerInv, NotBegun, Between, Quiet
<1>9. NotBegun' /\ Between' /\ Answered'
  BY <1>1, <1>8 DEF NotBegun, Between, Answered
<1>10. ASSUME pc = "ready" PROVE Loading'
  <2>1. HeardOnce /\ Unheard(g)
    BY <1>1, <1>10 DEF WorkerInv, Loading
  <2>2. HeardOnce' /\ \A h \in AllGpus : h # g /\ Unheard(h) => Unheard(h)'
    BY <1>1, <2>1, HeardNow
  <2> QED
    BY <1>1, <1>10, <2>2 DEF WorkerInv, Loading, Types
<1>11. ASSUME pc = "collect" PROVE Answering'
  <2>1. HeardOnce /\ Unheard(g) /\ Sent(g, task[g]) /\ work_queues[g] = <<>>
    BY <1>1, <1>11 DEF WorkerInv, Answering
  <2>2. HeardOnce' /\ \A h \in AllGpus : h # g /\ Unheard(h) => Unheard(h)'
    BY <1>1, <2>1, HeardNow
  <2>3. \A h \in AllGpus :
           /\ status'[h] # "init"
           /\ status'[h] = "busy" => Sent(h, task[h])' /\ Unheard(h)' /\ work_queues'[h] = <<>>
           /\ work_queues'[h] # <<>> => Sent(h, work_queues[h][1])' /\ Unheard(h)'
    <3>1. \A h \in AllGpus : h # g =>
            /\ status'[h] = status[h] /\ task'[h] = task[h]
            /\ work_queues'[h] = work_queues[h]
            /\ Unheard(h) => Unheard(h)'
      BY <1>1, <2>2 DEF Types
    <3>2. status'[g] \notin {"init", "busy"} /\ work_queues'[g] = <<>>
      BY <1>1, <2>1 DEF Types
    <3> QED
      BY <1>1, <1>11, <3>1, <3>2, OthersAnswering
  <2>4. IsActive(g)
    BY <2>1 DEF Sent, IsActive
  <2>5. PICK n \in Nat : n = Len(result_queue)
    BY <1>1, Saying
  <2>6. /\ Len(result_queue') = n + 1
        /\ \A i \in 1..n : result_queue'[i] = result_queue[i]
        /\ result_queue'[n + 1].gpu = g /\ result_queue'[n + 1].type = "error"
    BY <1>1, <2>5, Saying
  <2>7. /\ \A h : IsActive(h)' <=> IsActive(h)
        /\ \A h : Filed(h)' <=> Filed(h)
    BY <1>1, <1>2 DEF IsActive, Filed, Predictions
  <2>8. ASSUME NEW i \in 1..Len(result_queue')
        PROVE  /\ IsActive(result_queue'[i].gpu)
               /\ result_queue'[i].type # "error" => Filed(result_queue'[i].gpu)
    <3>1. CASE i = n + 1
      BY <2>4, <2>6, <3>1
    <3>2. CASE i \in 1..n
      BY <1>11, <2>5, <2>6, <3>2 DEF WorkerInv, Answering
    <3> QED
      BY <2>5, <2>6, <3>1, <3>2
  <2>9. /\ \A i \in 1..Len(result_queue') :
             /\ IsActive(result_queue[i].gpu)'
             /\ result_queue'[i].type # "error" => Filed(result_queue[i].gpu)'
        /\ \A i \in 1..Len(temp_files') : Filed(temp_files[i])'
    <3>1. ASSUME NEW i \in 1..Len(result_queue') PROVE IsActive(result_queue[i].gpu)'
      BY <1>2, <1>1, <2>8, Zenon DEF IsActive
    <3>2. ASSUME NEW i \in 1..Len(result_queue'), result_queue'[i].type # "error"
          PROVE  Filed(result_queue[i].gpu)'
      <4>1. \E h : h = result_queue'[i].gpu /\ Filed(h)'
        BY <2>7, <2>8, <3>2
      <4> QED
        BY <4>1, Zenon DEF Filed
    <3>3. ASSUME NEW i \in 1..Len(temp_files') PROVE Filed(temp_files[i])'
      BY <1>1, <1>2, <1>11, <3>3 DEF WorkerInv, Answering, Filed, Predictions
    <3> QED
      BY <3>1, <3>2, <3>3
  <2> QED
    BY <2>2, <2>3, <2>9 DEF Answering
<1> QED
  BY <1>1, <1>5, <1>6, <1>7, <1>9, <1>10, <1>11 DEF WorkerInv, Loading, Answering

(* A worker is killed, by the system or by the main process.               *)
LEMMA EndedStep ==
  ASSUME WorkerInv, NEW g \in AllGpus, status[g] # "off",
         \/ status' = [status EXCEPT ![g] = "dead"]
         \/ status' = [status EXCEPT ![g] = "gone"],
         task' = [task EXCEPT ![g] = NoTask],
         UNCHANGED <<pc, gpus, work_queues, result_queue, files, run, temp_files>>
  PROVE  WorkerInv'
<1>1. Types /\ status' \in [AllGpus -> {"off", "init", "idle", "busy", "gone", "dead"}]
  BY DEF WorkerInv, Types
<1>2. Target' = Target /\ Active' = Active /\ Chunks' = Chunks
  BY SameJob DEF WorkerInv, Types
<1>3. status'[g] \in {"gone", "dead"} /\ task'[g] = NoTask
  BY <1>1 DEF Types
<1>4. \A h \in AllGpus : h # g => status'[h] = status[h] /\ task'[h] = task[h]
  BY <1>1 DEF Types
<1>5. Types'
  BY <1>1, <1>3, <1>4 DEF Types
<1>6. Begun'
  BY <1>2, <1>3, <1>4 DEF WorkerInv, Begun
<1>7. ShortQueues'
  BY DEF WorkerInv, ShortQueues, Stopped
<1>8. NotBegun' /\ Between'
  BY <1>3, <1>4 DEF WorkerInv, NotBegun, Between, Quiet
<1>9. HeardOnce' <=> HeardOnce
  BY DEF HeardOnce
<1>10. \A h : Unheard(h)' <=> Unheard(h)
  BY DEF Unheard
<1>11. Loading'
  BY <1>3, <1>4, <1>9, <1>10 DEF WorkerInv, Loading
<1>12. Answering'
  <2>1. ASSUME NEW h \in AllGpus, pc = "collect"
        PROVE  /\ status'[h] # "init"
               /\ status'[h] = "busy" => Sent(h, task[h])' /\ Unheard(h)' /\ work_queues'[h] = <<>>
               /\ work_queues'[h] # <<>> => Sent(h, work_queues[h][1])' /\ Unheard(h)'
    BY <1>2, <1>3, <1>4, <1>10, <2>1 DEF WorkerInv, Answering, Sent
  <2>2. ASSUME pc = "collect"
        PROVE  /\ \A i \in 1..Len(result_queue) :
                    /\ IsActive(result_queue[i].gpu)
                    /\ result_queue[i].type # "error" => Filed(result_queue[i].gpu)
               /\ \A i \in 1..Len(temp_files) : Filed(temp_files[i])
    BY <2>2 DEF WorkerInv, Answering
  <2>3. ASSUME pc = "collect", NEW i \in 1..Len(result_queue)
        PROVE  IsActive(result_queue[i].gpu)'
    BY <1>2, <2>2, <2>3 DEF IsActive
  <2>4. ASSUME pc = "collect", NEW i \in 1..Len(result_queue), result_queue[i].type # "error"
        PROVE  Filed(result_queue[i].gpu)'
    BY <1>2, <2>2, <2>4 DEF Filed, Predictions
  <2>5. ASSUME pc = "collect", NEW i \in 1..Len(temp_files)
        PROVE  Filed(temp_files[i])'
    BY <1>2, <2>2, <2>5 DEF Filed, Predictions
  <2> QED
    BY <1>9, <2>1, <2>3, <2>4, <2>5 DEF WorkerInv, Answering
<1>13. Answered'
  BY <1>2 DEF WorkerInv, Answered, Filed, Predictions
<1> QED
  BY <1>5, <1>6, <1>7, <1>8, <1>11, <1>12, <1>13 DEF WorkerInv
(* The main process takes the first message.                               *)
LEMMA HeadOff ==
  ASSUME Types, result_queue # <<>>
  PROVE  \E n \in Nat :
           /\ Len(result_queue) = n + 1
           /\ Tail(result_queue) \in Seq(Messages) /\ Len(Tail(result_queue)) = n
           /\ \A i \in 1..n : i + 1 \in 1..n+1 /\ Tail(result_queue)[i] = result_queue[i + 1]
           /\ Head(result_queue) = result_queue[1] /\ Head(result_queue) \in Messages
           /\ 1 \in 1..n+1
<1>1. PICK k \in Nat : k = Len(result_queue)
  BY LenProperties DEF Types
<1>2. k # 0
  BY <1>1, EmptySeq DEF Types
<1>3. PICK n \in Nat : k = n + 1
  BY <1>2
<1>4. PICK u : u = Tail(result_queue)
  OBVIOUS
<1>5. /\ u \in Seq(Messages) /\ Len(u) = n /\ Head(result_queue) \in Messages
      /\ \A i \in 1..n : u[i] = result_queue[i + 1]
  <2>1. PICK s : s = result_queue
    OBVIOUS
  <2>2. s \in Seq(Messages) /\ s # <<>> /\ u = Tail(s) /\ Len(s) = n + 1
    BY <1>1, <1>3, <1>4, <2>1 DEF Types
  <2>3. /\ u \in Seq(Messages) /\ Len(u) = Len(s) - 1 /\ Head(s) \in Messages
        /\ \A i \in 1..Len(u) : u[i] = s[i + 1]
    BY <2>2, HeadTailProperties
  <2>4. Len(u) = n
    BY <2>2, <2>3
  <2> QED
    BY <2>1, <2>3, <2>4
<1>6. Head(result_queue) = result_queue[1]
  BY DEF Types
<1>7. 1 \in 1..n+1 /\ \A i \in 1..n : i + 1 \in 1..n+1
  OBVIOUS
<1> QED
  BY <1>1, <1>3, <1>4, <1>5, <1>6, <1>7

\* u is left of the queue when v is what has been heard.
HeardIn(u, v) ==
  /\ \A i, j \in 1..Len(u) : u[i].gpu = u[j].gpu => i = j
  /\ \A i, j \in 1..Len(v) : v[i] = v[j] => i = j
  /\ \A i \in 1..Len(v) : \A j \in 1..Len(u) : v[i] # u[j].gpu
UnheardIn(h, u, v) ==
  (\A i \in 1..Len(u) : u[i].gpu # h) /\ (\A i \in 1..Len(v) : v[i] # h)

(* A message moves from the queue to what has been heard.                  *)
LEMMA HeardMoves ==
  ASSUME Types, HeardOnce, result_queue # <<>>, NEW u, u = Tail(result_queue),
         NEW v, v = Append(temp_files, Head(result_queue).gpu)
  PROVE  /\ u \in Seq(Messages) /\ v \in Seq(AllGpus) /\ Len(u) \in Nat
         /\ Len(temp_files) \in Nat /\ Len(v) = Len(temp_files) + 1
         /\ \A i \in 1..Len(u) : \E j \in 1..Len(result_queue) : u[i] = result_queue[j]
         /\ \A i \in 1..Len(v) :
              (\E j \in 1..Len(temp_files) : v[i] = temp_files[j]) \/ v[i] = result_queue[1].gpu
         /\ 1 \in 1..Len(result_queue)
         /\ HeardIn(u, v)
         /\ \A h : Unheard(h) => UnheardIn(h, u, v)
<1>1. PICK n \in Nat :
        /\ Len(result_queue) = n + 1 /\ u \in Seq(Messages) /\ Len(u) = n
        /\ \A i \in 1..n : i + 1 \in 1..n+1 /\ u[i] = result_queue[i + 1]
        /\ Head(result_queue) = result_queue[1] /\ Head(result_queue) \in Messages
        /\ 1 \in 1..n+1
  BY HeadOff
<1>2. PICK m \in Nat : m = Len(temp_files)
  BY LenProperties DEF Types
<1>3. result_queue[1].gpu \in AllGpus
  BY <1>1 DEF Messages
<1>4. /\ v \in Seq(AllGpus) /\ Len(v) = m + 1 /\ v[m + 1] = result_queue[1].gpu
      /\ \A i \in 1..m : v[i] = temp_files[i]
  BY <1>1, <1>2, <1>3, AppendProperties DEF Types
<1>5. \A i \in 1..m+1 : i \in 1..m \/ i = m + 1
  OBVIOUS
<1>6. \A i, j \in 1..n : u[i].gpu = u[j].gpu => i = j
  <2> SUFFICES ASSUME NEW i \in 1..n, NEW j \in 1..n, u[i].gpu = u[j].gpu PROVE i = j
    OBVIOUS
  <2>1. i + 1 = j + 1
    BY <1>1 DEF HeardOnce
  <2> QED
    BY <2>1
<1>7. \A i \in 1..n : u[i].gpu # result_queue[1].gpu
  <2> SUFFICES ASSUME NEW i \in 1..n, u[i].gpu = result_queue[1].gpu PROVE FALSE
    OBVIOUS
  <2>1. i + 1 = 1
    BY <1>1 DEF HeardOnce
  <2> QED
    BY <2>1
<1>8. \A i \in 1..m : temp_files[i] # result_queue[1].gpu
  BY <1>1, <1>2 DEF HeardOnce
<1>9. \A i, j \in 1..m : temp_files[i] = temp_files[j] => i = j
  BY <1>2 DEF HeardOnce
<1>10. \A i \in 1..m : \A j \in 1..n : temp_files[i] # u[j].gpu
  BY <1>1, <1>2 DEF HeardOnce
<1>11. HeardIn(u, v)
  <2>1. \A i, j \in 1..m+1 : v[i] = v[j] => i = j
    BY <1>4, <1>5, <1>8, <1>9
  <2>2. \A i \in 1..m+1 : \A j \in 1..n : v[i] # u[j].gpu
    BY <1>4, <1>5, <1>7, <1>10
  <2> QED
    BY <1>1, <1>4, <1>6, <2>1, <2>2 DEF HeardIn
<1>12. ASSUME NEW h, Unheard(h) PROVE UnheardIn(h, u, v)
  <2>1. \A i \in 1..n : u[i].gpu # h
    BY <1>1, <1>12 DEF Unheard
  <2>2. \A i \in 1..m+1 : v[i] # h
    BY <1>1, <1>2, <1>4, <1>5, <1>12 DEF Unheard
  <2> QED
    BY <1>1, <1>4, <2>1, <2>2 DEF UnheardIn
<1>13. \A i \in 1..Len(v) :
         (\E j \in 1..Len(temp_files) : v[i] = temp_files[j]) \/ v[i] = result_queue[1].gpu
  BY <1>2, <1>4, <1>5
<1>14. \A i \in 1..Len(u) : \E j \in 1..Len(result_queue) : u[i] = result_queue[j]
  BY <1>1
<1> QED
  BY <1>1, <1>2, <1>4, <1>11, <1>12, <1>13, <1>14

\* v[1..n] are all among given[1..n].
Within(v, given, n) == \A i \in 1..n : \E c \in 1..n : v[i] = given[c]
Reached(v, given, n) == \A c \in 1..n : \E i \in 1..n : v[i] = given[c]
Different(v, n) == \A i, j \in 1..n : v[i] = v[j] => i = j

(* As many different ones of a list as it has are all of it.               *)
LEMMA NoneMissing ==
  ASSUME NEW v, NEW given, NEW n \in Nat, Different(v, n), Within(v, given, n)
  PROVE  Reached(v, given, n)
<1> DEFINE p == [i \in 1..n |-> CHOOSE c \in 1..n : v[i] = given[c]]
<1>1. \A i \in 1..n : p[i] \in 1..n /\ v[i] = given[p[i]]
  BY DEF Within
<1> HIDE DEF p
<1>2. Permutes(p, n)
  BY <1>1 DEF Permutes, Different
<1>3. Covers(p, n)
  BY <1>2, Pigeonhole
<1> SUFFICES ASSUME NEW c \in 1..n PROVE \E i \in 1..n : v[i] = given[c]
  BY DEF Reached
<1>4. PICK i \in 1..n : p[i] = c
  BY <1>3 DEF Covers
<1>5. v[i] = given[p[i]]
  BY <1>1, <1>4
<1> QED
  BY <1>4, <1>5

SpeakIn(u, given, n) == \A i \in 1..Len(u) : \E c \in 1..n : u[i].gpu = given[c]

(* When as many have been heard as are listed, no other can be.            *)
LEMMA AllHeard ==
  ASSUME NEW u, NEW v, HeardIn(u, v), NEW given, NEW n \in Nat, Len(v) = n, Len(u) \in Nat,
         Within(v, given, n), SpeakIn(u, given, n)
  PROVE  /\ Len(u) = 0
         /\ \A h : (\E c \in 1..n : h = given[c]) => ~UnheardIn(h, u, v)
<1>1. Different(v, n)
  BY DEF HeardIn, Different
<1>2. \A c \in 1..n : \E i \in 1..n : v[i] = given[c]
  <2>1. Reached(v, given, n)
    BY <1>1, NoneMissing, Zenon
  <2> QED
    BY <2>1 DEF Reached
<1>3. \A i \in 1..n : \A j \in 1..Len(u) : v[i] # u[j].gpu
  BY DEF HeardIn
<1>4. ASSUME NEW j \in 1..Len(u) PROVE FALSE
  <2>1. PICK c \in 1..n : u[j].gpu = given[c]
    BY DEF SpeakIn
  <2>2. PICK i \in 1..n : v[i] = given[c]
    BY <1>2
  <2> QED
    BY <1>3, <2>1, <2>2
<1>5. Len(u) = 0
  BY <1>4
<1>6. ASSUME NEW c \in 1..n, UnheardIn(given[c], u, v) PROVE FALSE
  <2>1. PICK i \in 1..n : v[i] = given[c]
    BY <1>2
  <2> QED
    BY <1>6, <2>1 DEF UnheardIn
<1> QED
  BY <1>5, <1>6
(* The first state, and that of a job started again.                       *)
LEMMA FreshJob ==
  ASSUME pc = "start", gpus \in GpuLists, run = 0, temp_files = <<>>, result_queue = <<>>,
         status = [g \in AllGpus |-> "off"], task = [g \in AllGpus |-> NoTask],
         work_queues = [g \in AllGpus |-> <<>>]
  PROVE  WorkerInv
<1>1. /\ \A g \in AllGpus : status[g] = "off" /\ task[g] = NoTask /\ work_queues[g] = <<>>
      /\ run \in 0..NumRuns
  BY CountsAssumption
<1>2. Types
  BY <1>1 DEF Types
<1>3. Begun /\ ShortQueues
  BY <1>1 DEF Begun, ShortQueues
<1>4. NotBegun /\ Loading /\ Between /\ Answering /\ Answered
  BY <1>1 DEF NotBegun, Quiet, Loading, Between, Answering, Answered
<1> QED
  BY <1>2, <1>3, <1>4 DEF WorkerInv

(* The job is started again, maybe on other GPUs.                          *)
LEMMA RestartStep ==
  ASSUME Restart
  PROVE  WorkerInv'
<1>1. /\ pc' = "start" /\ gpus' \in GpuLists /\ run' = 0 /\ temp_files' = <<>>
      /\ result_queue' = <<>> /\ status' = [g \in AllGpus |-> "off"]
      /\ task' = [g \in AllGpus |-> NoTask] /\ work_queues' = [g \in AllGpus |-> <<>>]
  BY DEF Restart
<1>2. /\ \A g \in AllGpus : status'[g] = "off" /\ task'[g] = NoTask /\ work_queues'[g] = <<>>
      /\ run' \in 0..NumRuns
  BY <1>1, CountsAssumption
<1>3. Types'
  BY <1>1, <1>2 DEF Types
<1>4. Begun' /\ ShortQueues'
  BY <1>1, <1>2 DEF Begun, ShortQueues
<1>5. NotBegun' /\ Loading' /\ Between' /\ Answering' /\ Answered'
  BY <1>1, <1>2 DEF NotBegun, Quiet, Loading, Between, Answering, Answered
<1> QED
  BY <1>3, <1>4, <1>5 DEF WorkerInv

(* The workers are started.                                                *)
LEMMA LaunchStep ==
  ASSUME WorkerInv, Launch
  PROVE  WorkerInv'
<1>1. /\ Types /\ pc = "launch" /\ pc' = "ready" /\ gpus' = gpus
      /\ status' = [g \in AllGpus |-> IF g \in Target THEN "init" ELSE "off"]
      /\ UNCHANGED <<task, work_queues, result_queue, files, run, temp_files>>
  BY DEF WorkerInv, Launch, bounds
<1>2. /\ result_queue = <<>> /\ temp_files = <<>>
      /\ \A g \in AllGpus : status[g] = "off" /\ work_queues[g] = <<>>
  BY <1>1 DEF WorkerInv, NotBegun, Quiet
<1>3. Target' = Target
  BY <1>1, SameJob
<1>4. \A g \in AllGpus : status'[g] \in {"init", "off"} /\ (status'[g] # "off" => g \in Target)
  BY <1>1
<1>5. \A g \in AllGpus : ~(task[g] # NoTask)
  BY <1>1, <1>2 DEF Types
<1>6. Types'
  BY <1>1, <1>4, <1>5 DEF Types
<1>7. Begun' /\ ShortQueues'
  BY <1>1, <1>2, <1>3, <1>4 DEF Begun, ShortQueues
<1>8. Loading'
  BY <1>1, <1>2, <1>4 DEF Loading, HeardOnce, Unheard
<1>9. NotBegun' /\ Between' /\ Answering' /\ Answered'
  BY <1>1 DEF NotBegun, Between, Answering, Answered
<1> QED
  BY <1>6, <1>7, <1>8, <1>9 DEF WorkerInv

(* The first messages are taken: when as many workers as there are have    *)
(* loaded the model, nobody else is still loading.                         *)
LEMMA AwaitReadyStep ==
  ASSUME WorkerInv, AwaitReady
  PROVE  WorkerInv'
<1>1. /\ Types /\ pc = "ready" /\ gpus' = gpus /\ result_queue # <<>>
      /\ result_queue' = Tail(result_queue)
      /\ UNCHANGED <<status, task, work_queues, files, run>>
  BY DEF WorkerInv, AwaitReady, bounds
<1> DEFINE u == Tail(result_queue)
           v == Append(temp_files, Head(result_queue).gpu)
<1>2. \/ pc' = "exiting" /\ temp_files' = temp_files
      \/ pc' = "run" /\ temp_files' = <<>> /\ Len(v) = Len(gpus)
      \/ pc' = "ready" /\ temp_files' = v
  BY <1>1 DEF AwaitReady
<1>3. Target' = Target
  BY <1>1, SameJob
<1>4. HeardOnce
  BY <1>1 DEF WorkerInv, Loading
<1>5. /\ u \in Seq(Messages) /\ v \in Seq(AllGpus) /\ Len(u) \in Nat
      /\ \A i \in 1..Len(u) : \E j \in 1..Len(result_queue) : u[i] = result_queue[j]
      /\ \A i \in 1..Len(v) :
           (\E j \in 1..Len(temp_files) : v[i] = temp_files[j]) \/ v[i] = result_queue[1].gpu
      /\ 1 \in 1..Len(result_queue)
      /\ HeardIn(u, v)
      /\ \A h : Unheard(h) => UnheardIn(h, u, v)
  BY <1>1, <1>4, HeardMoves
<1> HIDE DEF v
<1>6. \A i \in 1..Len(u) : u[i].gpu \in Target
  BY <1>5 DEF WorkerInv, Begun
<1>7. \A i \in 1..Len(v) : v[i] \in Target
  BY <1>5 DEF WorkerInv, Begun
<1>8. result_queue' = u
  BY <1>1
<1> HIDE DEF u
<1>9. temp_files' \in Seq(AllGpus)
  <2>1. temp_files \in Seq(AllGpus)
    BY <1>1 DEF Types
  <2>2. <<>> \in Seq(AllGpus)
    OBVIOUS
  <2> QED
    BY <1>2, <1>5, <2>1, <2>2, Zenon
<1>10. Types'
  BY <1>1, <1>2, <1>5, <1>8, <1>9 DEF Types
<1>11. Begun'
  <2>1. \A i \in 1..Len(temp_files') : temp_files'[i] \in Target
    BY <1>2, <1>7 DEF WorkerInv, Begun
  <2> QED
    BY <1>1, <1>3, <1>6, <1>8, <2>1 DEF WorkerInv, Begun
<1>12. ShortQueues'
  BY <1>1, <1>2 DEF WorkerInv, ShortQueues, Stopped
<1>13. NotBegun' /\ Answering' /\ Answered'
  BY <1>2 DEF NotBegun, Answering, Answered
<1>14. Loading'
  <2>1. ASSUME pc' = "ready" PROVE temp_files' = v
    BY <1>2, <2>1
  <2>2. ASSUME pc' = "ready" PROVE HeardOnce'
    BY <1>5, <1>8, <2>1, <2>2 DEF HeardOnce, HeardIn
  <2>3. ASSUME pc' = "ready", NEW g \in AllGpus, status[g] = "init" PROVE Unheard(g)'
    <3>1. UnheardIn(g, u, v)
      BY <1>1, <1>5, <2>3 DEF WorkerInv, Loading
    <3> QED
      BY <1>8, <2>1, <2>3, <3>1 DEF UnheardIn, Unheard
  <2> QED
    BY <1>1, <2>2, <2>3 DEF WorkerInv, Loading
<1>15. Between'
  <2> SUFFICES ASSUME pc' = "run" PROVE Quiet'
    BY <1>2 DEF Between
  <2>1. PICK n \in Nat : n = Len(gpus) /\ n = Len(v)
    BY <1>1, <1>2, GpusType DEF Types
  <2>2. \A g : g \in Target <=> \E c \in 1..n : g = gpus[c]
    BY <1>1, <2>1, GpusType DEF Types
  <2>3. Within(v, gpus, n) /\ SpeakIn(u, gpus, n)
    BY <1>6, <1>7, <2>1, <2>2 DEF Within, SpeakIn
  <2>4. /\ Len(u) = 0
        /\ \A h : (\E c \in 1..n : h = gpus[c]) => ~UnheardIn(h, u, v)
    BY <1>5, <2>1, <2>3, AllHeard
  <2>5. u = <<>>
    BY <1>5, <2>4, EmptySeq
  <2>6. ASSUME NEW g \in AllGpus, status[g] = "init" PROVE FALSE
    <3>1. g \in Target /\ Unheard(g)
      BY <1>1, <2>6 DEF WorkerInv, Loading, Begun
    <3> QED
      BY <1>5, <2>2, <2>4, <3>1
  <2> QED
    BY <1>1, <1>8, <2>5, <2>6 DEF WorkerInv, Loading, Quiet
<1> QED
  BY <1>10, <1>11, <1>12, <1>13, <1>14, <1>15 DEF WorkerInv
(* The next run's index.                                                   *)
LEMMA LeastLeft ==
  ASSUME Left # {}
  PROVE  Min(Left) \in Left /\ Min(Left) \in 1..NumRuns /\ \A r \in Left : Min(Left) <= r
<1>1. Left \in SUBSET Nat /\ Left \subseteq 1..NumRuns
  BY CountsAssumption DEF Left
<1>2. PICK m \in Left : \A r \in Left : m <= r
  BY <1>1, LeastNatural
<1>3. Left \in SUBSET Int
  BY <1>1
<1>4. Min(Left) = m
  BY <1>2, <1>3, MinIs
<1> QED
  BY <1>1, <1>2, <1>4

(* A chunk goes to each active worker, whose queue is empty.               *)
LEMMA StartRunStep ==
  ASSUME WorkerInv, StartRun
  PROVE  WorkerInv'
<1>1. /\ Types /\ pc = "run" /\ pc' = "collect" /\ gpus' = gpus /\ Left # {}
      /\ run' = Min(Left) /\ temp_files' = <<>>
      /\ UNCHANGED <<status, task, result_queue, files>>
  BY DEF WorkerInv, StartRun, bounds
<1>2. PICK r \in 1..NumRuns : r = run'
  BY <1>1, LeastLeft
<1>3. work_queues' =
        [g \in AllGpus |->
           IF \E c \in Active : gpus[c] = g
           THEN Append(work_queues[g],
                       [run |-> r, chunk |-> Chunks[CHOOSE c \in Active : gpus[c] = g]])
           ELSE work_queues[g]]
  BY <1>2 DEF StartRun
<1>4. /\ result_queue = <<>>
      /\ \A g \in AllGpus : status[g] \notin {"init", "busy"} /\ work_queues[g] = <<>>
  BY <1>1 DEF WorkerInv, Between, Quiet
<1>5. Target' = Target /\ Active' = Active /\ Chunks' = Chunks
  BY <1>1, SameJob
<1>6. ASSUME NEW g \in AllGpus
      PROVE  \/ work_queues'[g] = <<>>
             \/ \E c \in Active :
                  /\ g = gpus[c]
                  /\ work_queues'[g] = Append(<<>>, [run |-> r, chunk |-> Chunks[c]])
  <2>1. CASE \E c \in Active : gpus[c] = g
    <3>1. PICK c : c = CHOOSE d \in Active : gpus[d] = g
      OBVIOUS
    <3>2. c \in Active /\ gpus[c] = g
      BY <2>1, <3>1
    <3>3. work_queues'[g] = Append(work_queues[g], [run |-> r, chunk |-> Chunks[c]])
      BY <1>3, <2>1, <3>1
    <3> QED
      BY <1>4, <3>2, <3>3
  <2>2. CASE ~ \E c \in Active : gpus[c] = g
    BY <1>3, <1>4, <2>2
  <2> QED
    BY <2>1, <2>2
<1>7. ASSUME NEW c \in Active
      PROVE  /\ Append(<<>>, [run |-> r, chunk |-> Chunks[c]]) \in Seq(Work \cup {Stop})
             /\ Len(Append(<<>>, [run |-> r, chunk |-> Chunks[c]])) = 1
             /\ Append(<<>>, [run |-> r, chunk |-> Chunks[c]])[1] = [run |-> r, chunk |-> Chunks[c]]
  <2>1. Chunks[c] \in Seq(Nat)
    BY <1>1, ChunksAre DEF Types
  <2>2. PICK t : t = [run |-> r, chunk |-> Chunks[c]]
    OBVIOUS
  <2>3. t \in Work \cup {Stop}
    BY <2>1, <2>2 DEF Work
  <2>4. /\ Append(<<>>, t) \in Seq(Work \cup {Stop}) /\ Len(Append(<<>>, t)) = 1
        /\ Append(<<>>, t)[1] = t
    BY <2>3
  <2> QED
    BY <2>2, <2>4
<1>8. ASSUME NEW g \in AllGpus
      PROVE  /\ work_queues'[g] \in Seq(Work \cup {Stop}) /\ Len(work_queues'[g]) <= 1
             /\ work_queues'[g] # <<>> =>
                  \E c \in Active :
                    g = gpus[c] /\ work_queues'[g][1] = [run |-> r, chunk |-> Chunks[c]]
  <2>1. CASE work_queues'[g] = <<>>
    BY <2>1
  <2>2. CASE \E c \in Active :
               /\ g = gpus[c]
               /\ work_queues'[g] = Append(<<>>, [run |-> r, chunk |-> Chunks[c]])
    BY <1>7, <2>2
  <2> QED
    BY <1>6, <2>1, <2>2
<1>9. Types'
  <2>1. work_queues' \in [AllGpus -> Seq(Work \cup {Stop})]
    BY <1>3, <1>8
  <2>2. run' \in 0..NumRuns /\ <<>> \in Seq(AllGpus)
    BY <1>2
  <2> QED
    BY <1>1, <2>1, <2>2 DEF Types
<1>10. Begun' /\ ShortQueues'
  BY <1>1, <1>4, <1>5, <1>8 DEF WorkerInv, Begun, ShortQueues, Stopped
<1>11. NotBegun' /\ Loading' /\ Between' /\ Answered'
  BY <1>1 DEF NotBegun, Loading, Between, Answered
<1>12. Answering'
  <2>1. HeardOnce' /\ \A g : Unheard(g)'
    BY <1>1, <1>4 DEF HeardOnce, Unheard
  <2>2. ASSUME NEW g \in AllGpus, work_queues'[g] # <<>> PROVE Sent(g, work_queues[g][1])'
    BY <1>2, <1>1, <1>5, <1>8, <2>2 DEF Sent
  <2> QED
    BY <1>1, <1>4, <2>1, <2>2 DEF Answering
<1> QED
  BY <1>9, <1>10, <1>11, <1>12 DEF WorkerInv

(* An answer is taken: when all chunks are answered, nobody works and      *)
(* nothing is left in the queues.                                          *)
LEMMA CollectStep ==
  ASSUME WorkerInv, Collect
  PROVE  WorkerInv'
<1> DEFINE u == Tail(result_queue)
           v == Append(temp_files, Head(result_queue).gpu)
<1>1. /\ Types /\ pc = "collect" /\ gpus' = gpus /\ result_queue # <<>>
      /\ result_queue' = u
      /\ UNCHANGED <<status, task, work_queues, files, run>>
  BY DEF WorkerInv, Collect, bounds
<1>2. \/ pc' = "failed" /\ temp_files' = temp_files
      \/ /\ Head(result_queue).type # "error" /\ temp_files' = v
         /\ pc' = IF Len(v) = Cardinality(Active) THEN "merge" ELSE "collect"
  BY <1>1 DEF Collect
<1>3. Target' = Target /\ Active' = Active /\ Chunks' = Chunks
  BY <1>1, SameJob
<1>4. HeardOnce
  BY <1>1 DEF WorkerInv, Answering
<1>5. /\ u \in Seq(Messages) /\ v \in Seq(AllGpus) /\ Len(u) \in Nat
      /\ \A i \in 1..Len(u) : \E j \in 1..Len(result_queue) : u[i] = result_queue[j]
      /\ \A i \in 1..Len(v) :
           (\E j \in 1..Len(temp_files) : v[i] = temp_files[j]) \/ v[i] = result_queue[1].gpu
      /\ 1 \in 1..Len(result_queue)
      /\ HeardIn(u, v)
      /\ \A h : Unheard(h) => UnheardIn(h, u, v)
  BY <1>1, <1>4, HeardMoves
<1>6. Head(result_queue) = result_queue[1]
  BY <1>1, HeadOff
<1> HIDE DEF u, v
<1>7. temp_files' \in Seq(AllGpus)
  <2>1. temp_files \in Seq(AllGpus)
    BY <1>1 DEF Types
  <2> QED
    BY <1>2, <1>5, <2>1, Zenon
<1>8. Types'
  BY <1>1, <1>2, <1>5, <1>7 DEF Types
<1>9. Begun'
  <2>1. \A i \in 1..Len(u) : u[i].gpu \in Target
    BY <1>5 DEF WorkerInv, Begun
  <2>2. \A i \in 1..Len(v) : v[i] \in Target
    BY <1>5 DEF WorkerInv, Begun
  <2>3. \A i \in 1..Len(temp_files') : temp_files'[i] \in Target
    BY <1>2, <2>2 DEF WorkerInv, Begun
  <2> QED
    BY <1>1, <1>3, <2>1, <2>3 DEF WorkerInv, Begun
<1>10. ShortQueues'
  BY <1>1, <1>2 DEF WorkerInv, ShortQueues, Stopped
<1>11. NotBegun' /\ Loading'
  BY <1>2 DEF NotBegun, Loading
<1>12. /\ \A h : IsActive(h)' <=> IsActive(h)
       /\ \A h : Filed(h)' <=> Filed(h)
  BY <1>1, <1>3 DEF IsActive, Filed, Predictions
<1>13. \A i \in 1..Len(u) : /\ IsActive(u[i].gpu)
                            /\ u[i].type # "error" => Filed(u[i].gpu)
  BY <1>1, <1>5 DEF WorkerInv, Answering
<1>14. temp_files' = v => \A i \in 1..Len(v) : Filed(v[i])
  BY <1>1, <1>2, <1>5, <1>6 DEF WorkerInv, Answering
<1>15. ASSUME NEW i \in 1..Len(u)
       PROVE  /\ IsActive(result_queue[i].gpu)'
              /\ u[i].type # "error" => Filed(result_queue[i].gpu)'
  <2>1. \E h : h = result_queue'[i].gpu /\ IsActive(h)'
    BY <1>1, <1>12, <1>13
  <2>2. IsActive(result_queue[i].gpu)'
    BY <2>1, Zenon DEF IsActive
  <2>3. u[i].type # "error" => \E h : h = result_queue'[i].gpu /\ Filed(h)'
    BY <1>1, <1>12, <1>13
  <2>4. u[i].type # "error" => Filed(result_queue[i].gpu)'
    BY <2>3, Zenon DEF Filed
  <2> QED
    BY <2>2, <2>4
<1>16. ASSUME temp_files' = v, NEW i \in 1..Len(v) PROVE Filed(temp_files[i])'
  <2>1. \E h : h = temp_files'[i] /\ Filed(h)'
    BY <1>12, <1>14, <1>16
  <2> QED
    BY <2>1, Zenon DEF Filed
<1>17. ASSUME NEW g \in AllGpus, temp_files' = v
       PROVE  /\ status'[g] # "init"
              /\ status'[g] = "busy" => Sent(g, task[g])' /\ Unheard(g)' /\ work_queues'[g] = <<>>
              /\ work_queues'[g] # <<>> => Sent(g, work_queues[g][1])' /\ Unheard(g)'
  <2>1. UnheardIn(g, u, v) => Unheard(g)'
    BY <1>1, <1>17 DEF Unheard, UnheardIn
  <2>2. /\ status[g] # "init"
        /\ status[g] = "busy" => Sent(g, task[g]) /\ Unheard(g) /\ work_queues[g] = <<>>
        /\ work_queues[g] # <<>> => Sent(g, work_queues[g][1]) /\ Unheard(g)
    BY <1>1 DEF WorkerInv, Answering
  <2> QED
    BY <1>1, <1>3, <1>5, <2>1, <2>2 DEF Sent
<1>18. Answering'
  <2> SUFFICES ASSUME pc' = "collect"
               PROVE  Answering'
    BY DEF Answering
  <2>1. temp_files' = v
    BY <1>2
  <2>2. HeardOnce'
    BY <1>1, <1>5, <2>1 DEF HeardOnce, HeardIn
  <2>3. /\ \A i \in 1..Len(result_queue') :
             /\ IsActive(result_queue[i].gpu)'
             /\ result_queue'[i].type # "error" => Filed(result_queue[i].gpu)'
        /\ \A i \in 1..Len(temp_files') : Filed(temp_files[i])'
    BY <1>1, <1>15, <1>16, <2>1
  <2> QED
    BY <1>17, <2>1, <2>2, <2>3 DEF Answering
<1>19. Answered'
  <2> SUFFICES ASSUME pc' = "merge" PROVE Answered'
    BY DEF Answered
  <2>1. temp_files' = v /\ Len(v) = Cardinality(Active)
    BY <1>2
  <2>2. Len(temp_files') = Cardinality(Active')
    BY <1>3, <2>1
  <2>3. \A i, j \in 1..Len(temp_files') : temp_files'[i] = temp_files'[j] => i = j
    BY <1>5, <2>1 DEF HeardIn
  <2>4. \A i \in 1..Len(temp_files') : Filed(temp_files[i])'
    BY <1>16, <2>1
  <2> QED
    BY <2>2, <2>3, <2>4 DEF Answered
<1>20. Between'
  <2> SUFFICES ASSUME pc' = "merge" PROVE Quiet'
    BY <1>2 DEF Between
  <2>1. temp_files' = v /\ Len(v) = Cardinality(Active)
    BY <1>2
  <2>2. PICK n \in Nat : n = Len(Chunks) /\ n = Len(v) /\ Active = 1..n
    BY <1>1, <2>1, ActiveAre, ChunksAre, GpusType DEF Types
  <2>3. \A i \in 1..Len(v) : IsActive(v[i])
    BY <1>14, <2>1 DEF Filed, IsActive
  <2>4. Within(v, gpus, n) /\ SpeakIn(u, gpus, n)
    BY <1>13, <2>2, <2>3 DEF Within, SpeakIn, IsActive
  <2>5. /\ Len(u) = 0
        /\ \A h : (\E c \in 1..n : h = gpus[c]) => ~UnheardIn(h, u, v)
    BY <1>5, <2>2, <2>4, AllHeard
  <2>6. u = <<>>
    BY <1>5, <2>5, EmptySeq
  <2>7. ASSUME NEW g \in AllGpus, status[g] = "busy" \/ work_queues[g] # <<>> PROVE FALSE
    <3>1. (\E c \in Active : g = gpus[c]) /\ Unheard(g)
      BY <1>1, <2>7 DEF WorkerInv, Answering, Sent
    <3> QED
      BY <1>5, <2>2, <2>5, <3>1
  <2> QED
    BY <1>1, <2>6, <2>7 DEF WorkerInv, Answering, Quiet
<1> QED
  BY <1>8, <1>9, <1>10, <1>11, <1>18, <1>19, <1>20 DEF WorkerInv

(* Every worker is told to stop.                                           *)
LEMMA ShutdownStep ==
  ASSUME WorkerInv, Shutdown
  PROVE  WorkerInv'
<1>1. /\ Types /\ pc \in {"failed", "run"} /\ pc' \in {"joinFailed", "join"} /\ gpus' = gpus
      /\ UNCHANGED <<status, task, result_queue, files, run, temp_files>>
      /\ work_queues' = [g \in AllGpus |-> IF g \in Target THEN Append(work_queues[g], Stop)
                                           ELSE work_queues[g]]
  BY DEF WorkerInv, Shutdown, bounds
<1>2. Target' = Target
  BY <1>1, SameJob
<1>3. ASSUME NEW g \in AllGpus
      PROVE  /\ work_queues'[g] \in Seq(Work \cup {Stop})
             /\ Len(work_queues'[g]) <= 2
  <2>1. /\ work_queues[g] \in Seq(Work \cup {Stop}) /\ Len(work_queues[g]) \in Nat
        /\ Len(work_queues[g]) <= 1
    BY <1>1, LenProperties DEF WorkerInv, Types, ShortQueues, Stopped
  <2>2. /\ Append(work_queues[g], Stop) \in Seq(Work \cup {Stop})
        /\ Len(Append(work_queues[g], Stop)) = Len(work_queues[g]) + 1
    BY <2>1, AppendProperties
  <2> QED
    BY <1>1, <2>1, <2>2
<1>4. Types'
  <2>1. work_queues' \in [AllGpus -> Seq(Work \cup {Stop})]
    BY <1>1, <1>3
  <2> QED
    BY <1>1, <2>1 DEF Types
<1>5. Begun' /\ ShortQueues'
  BY <1>1, <1>2, <1>3 DEF WorkerInv, Begun, ShortQueues, Stopped
<1>6. NotBegun' /\ Loading' /\ Between' /\ Answering' /\ Answered'
  BY <1>1 DEF NotBegun, Loading, Between, Answering, Answered
<1> QED
  BY <1>4, <1>5, <1>6 DEF WorkerInv
(* Every step of a worker or of the main process.                          *)
LEMMA WorkerStep == WorkerInv /\ [Next]_vars => WorkerInv'
<1> SUFFICES ASSUME WorkerInv, [Next]_vars PROVE WorkerInv'
  OBVIOUS
<1>1. CASE Load
  BY <1>1, MovesOn DEF Load, workers, bounds
<1>2. CASE EndSave
  BY <1>2, MovesOn DEF EndSave, workers, bounds
<1>3. CASE Launch
  BY <1>3, LaunchStep
<1>4. CASE AwaitReady
  BY <1>4, AwaitReadyStep
<1>5. CASE StartRun
  BY <1>5, StartRunStep
<1>6. CASE Collect
  BY <1>6, CollectStep
<1>7. CASE Merge
  <2>1. /\ pc = "merge" /\ pc' \in {"failed", "saveRun"}
        /\ UNCHANGED <<workers, gpus, run, temp_files>>
    BY <1>7 DEF Merge, workers, bounds
  <2> QED
    BY <2>1, MovesOn DEF Stopped
<1>8. CASE Shutdown
  BY <1>8, ShutdownStep
<1>9. ASSUME NEW g \in AllGpus, Kill(g) PROVE WorkerInv'
  BY <1>9, EndedStep DEF Kill, Ended, bounds
<1>10. CASE Joined
  BY <1>10, MovesOn DEF Joined, Stopped, workers, bounds
<1>11. CASE Exit
  BY <1>11, MovesOn DEF Exit, workers, bounds
<1>12. CASE Crash
  BY <1>12, MovesOn DEF Crash, workers, bounds
<1>13. CASE Restart
  BY <1>13, RestartStep
<1>14. ASSUME NEW g \in AllGpus, Worker(g) PROVE WorkerInv'
  BY <1>14, ReadyStep, TakeStep, AnswerStep DEF Worker
<1>15. ASSUME NEW g \in AllGpus, pc # "down", Fail(g) PROVE WorkerInv'
  BY <1>15, FailStep
<1>16. ASSUME NEW g \in AllGpus, Die(g) PROVE WorkerInv'
  BY <1>16, EndedStep DEF Die
<1>17. CASE UNCHANGED vars
  <2>1. /\ Active' = Active /\ Chunks' = Chunks /\ Target' = Target
        /\ pc' = pc /\ gpus' = gpus /\ status' = status /\ task' = task /\ run' = run
        /\ work_queues' = work_queues /\ result_queue' = result_queue
        /\ temp_files' = temp_files /\ files' = files
    BY <1>17, SameJob DEF vars
  <2>2. Types' /\ Begun' /\ ShortQueues' /\ NotBegun'
    BY <2>1 DEF WorkerInv, Types, Begun, ShortQueues, Stopped, NotBegun, Quiet
  <2>3. Loading' /\ Between'
    BY <2>1 DEF WorkerInv, Loading, Between, Quiet, HeardOnce, Unheard
  <2>4. Answered'
    BY <2>1 DEF WorkerInv, Answered, Filed, Predictions
  <2>5. Answering'
    BY <2>1 DEF WorkerInv, Answering, HeardOnce, Unheard, Sent, IsActive, Filed, Predictions
  <2> QED
    BY <2>2, <2>3, <2>4, <2>5 DEF WorkerInv
<1> QED
  BY <1>1, <1>2, <1>3, <1>4, <1>5, <1>6, <1>7, <1>8, <1>9, <1>10, <1>11, <1>12, <1>13, <1>14,
     <1>15, <1>16, <1>17 DEF Next, Main

(* A list of runs, as a sequence.                                          *)
LEMMA RunsAre ==
  ASSUME NEW s, RunList(s)
  PROVE  \E n \in Nat :
           /\ n <= NumRuns /\ Len(s) = n /\ DOMAIN s = 1..n /\ s = [i \in 1..n |-> s[i]]
           /\ s \in Seq({s[i] : i \in 1..n})
           /\ \A i \in 1..n : s[i].run_index = i /\ Len(s[i].predictions) = NumSamples
<1>1. PICK n \in 0..NumRuns :
        /\ DOMAIN s = 1..n /\ s = [i \in 1..n |-> s[i]]
        /\ \A i \in 1..n : s[i].run_index = i /\ Len(s[i].predictions) = NumSamples
  BY DEF RunList
<1>2. n \in Nat /\ n <= NumRuns
  BY <1>1, CountsAssumption
<1>3. s = [i \in DOMAIN s |-> s[i]]
  BY <1>1
<1>4. \A i \in 1..n : s[i] \in {s[j] : j \in 1..n}
  OBVIOUS
<1>5. s \in Seq({s[i] : i \in 1..n}) /\ Len(s) = n
  BY <1>1, <1>2, <1>3, <1>4, IsSequence
<1> QED
  BY <1>1, <1>2, <1>5

(* A list whose keys are its indices is in order.                          *)
LEMMA SortedAlready ==
  ASSUME NEW n \in Nat, NEW s, DOMAIN s = 1..n, s = [i \in 1..n |-> s[i]],
         NEW key, \A i \in 1..n : key[i] = i
  PROVE  SortedBy(s, key) = s
<1> DEFINE p == [i \in 1..n |-> i]
<1>1. \A i \in 1..n : p[i] = i
  OBVIOUS
<1> HIDE DEF p
<1>2. Sorts(p, n, key)
  BY <1>1 DEF Sorts
<1> DEFINE t == SortedBy(s, key)
<1>3. DOMAIN t = 1..n /\ \A r \in 1..n : t[r] = s[p[r]]
  BY <1>2, SortedByIs
<1>4. t = [r \in DOMAIN t |-> t[r]]
  BY DEF SortedBy
<1> HIDE DEF t
<1>5. \A r \in 1..n : t[r] = s[r]
  BY <1>1, <1>3
<1>6. t = s
  BY <1>3, <1>4, <1>5
<1> QED
  BY <1>6 DEF t

(* What is loaded is what was saved.                                       *)
LEMMA StoredIs ==
  ASSUME RunList(disk.runs)
  PROVE  Stored = disk.runs
<1> DEFINE s == disk.runs
           key == [i \in DOMAIN s |-> s[i].run_index]
           kept == {i \in DOMAIN s : Len(s[i].predictions) = NumSamples}
<1>1. PICK n \in Nat :
        /\ DOMAIN s = 1..n /\ s = [i \in 1..n |-> s[i]]
        /\ \A i \in 1..n : s[i].run_index = i /\ Len(s[i].predictions) = NumSamples
  BY RunsAre
<1>2. \A i \in 1..n : key[i] = i
  BY <1>1
<1>3. kept = 1..n
  BY <1>1
<1>4. Stored = LET runs == SortedBy(s, key)
               IN  Selected(runs, {i \in DOMAIN runs : Len(runs[i].predictions) = NumSamples})
  BY DEF Stored
<1> HIDE DEF key
<1>5. SortedBy(s, key) = s
  BY <1>1, <1>2, SortedAlready
<1>6. Stored = Selected(s, kept)
  BY <1>4, <1>5
<1> HIDE DEF s, kept
<1> DEFINE p == [i \in 1..n |-> i]
<1>7. Ranked(p, n, 1..n)
  BY DEF Ranked
<1>8. /\ Cardinality(1..n) = n
      /\ DOMAIN Ascending(1..n) = 1..n /\ \A r \in 1..n : Ascending(1..n)[r] = p[r]
  BY <1>7, RankedCount, AscendingIs
<1>9. \A r \in 1..n : Ascending(1..n)[r] = r
  BY <1>8
<1>10. Selected(s, kept) = [k \in 1..n |-> s[Ascending(1..n)[k]]]
  BY <1>3, <1>8 DEF Selected
<1>11. Selected(s, kept) = [k \in 1..n |-> s[k]]
  BY <1>9, <1>10
<1> QED
  BY <1>1, <1>6, <1>11 DEF s
(* The runs left are those after the last one.                             *)
LEMMA LeftIs ==
  ASSUME RunList(per_run)
  PROVE  \E n \in Nat :
           /\ Len(per_run) = n /\ n <= NumRuns
           /\ Left = {} => n = NumRuns
           /\ Left # {} => Min(Left) = n + 1 /\ n + 1 <= NumRuns
<1>1. PICK n \in Nat :
        /\ n <= NumRuns /\ Len(per_run) = n /\ DOMAIN per_run = 1..n
        /\ \A i \in 1..n : per_run[i].run_index = i
  BY RunsAre
<1>2. NumRuns \in Nat
  BY CountsAssumption
<1>3. Left = {r \in 1..NumRuns : \A i \in 1..n : i # r}
  BY <1>1 DEF Left
<1>4. \A r \in Left : r \in Int /\ n + 1 <= r /\ r <= NumRuns
  BY <1>2, <1>3
<1>5. n + 1 <= NumRuns => n + 1 \in Left
  BY <1>2, <1>3
<1>6. Left = {} => n = NumRuns
  BY <1>1, <1>2, <1>5
<1>7. ASSUME Left # {} PROVE Min(Left) = n + 1 /\ n + 1 <= NumRuns
  <2>1. PICK r \in Left : TRUE
    BY <1>7
  <2>2. n + 1 <= NumRuns
    BY <1>2, <1>4, <2>1
  <2>3. PICK m : m = n + 1
    OBVIOUS
  <2>4. m \in Left /\ Left \in SUBSET Int /\ \A x \in Left : m <= x
    BY <1>4, <1>5, <2>2, <2>3
  <2>5. Min(Left) = m
    BY <2>4, MinIs
  <2> QED
    BY <2>2, <2>3, <2>5
<1> QED
  BY <1>1, <1>6, <1>7

\* runs has the runs so far and, last, one more.
Adds(runs, predictions) ==
  runs = Append(per_run, [run_index |-> run, predictions |-> predictions])
Grown(runs, predictions) ==
  /\ SortedBy(runs, [i \in DOMAIN runs |-> runs[i].run_index]) = runs
  /\ RunList(runs) /\ Len(runs) = run
  /\ \A i \in 1..Len(per_run) : runs[i] = per_run[i]
  /\ runs[run] = [run_index |-> run, predictions |-> predictions]
  /\ DOMAIN runs = 1..run

(* A run more: the list stays in order.                                    *)
LEMMA RunAdded ==
  ASSUME RunList(per_run), run = Len(per_run) + 1, run \in 1..NumRuns,
         NEW predictions, Len(predictions) = NumSamples,
         NEW runs, Adds(runs, predictions)
  PROVE  Grown(runs, predictions)
<1>1. PICK n \in Nat :
        /\ Len(per_run) = n
        /\ per_run \in Seq({per_run[i] : i \in 1..n})
        /\ \A i \in 1..n : per_run[i].run_index = i /\ Len(per_run[i].predictions) = NumSamples
  BY RunsAre
<1>2. PICK x : x = [run_index |-> run, predictions |-> predictions]
  OBVIOUS
<1>3. x.run_index = n + 1 /\ Len(x.predictions) = NumSamples /\ run = n + 1
  BY <1>1, <1>2
<1>4. PICK T : T = {per_run[i] : i \in 1..n} \cup {x}
  OBVIOUS
<1>5. per_run \in Seq(T) /\ x \in T /\ runs = Append(per_run, x)
  BY <1>1, <1>2, <1>4 DEF Adds
<1>6. /\ runs \in Seq(T) /\ Len(runs) = n + 1
      /\ \A i \in 1..n : runs[i] = per_run[i]
      /\ runs[n + 1] = x
  BY <1>1, <1>5, AppendProperties
<1>7. DOMAIN runs = 1..n+1 /\ runs = [i \in 1..n+1 |-> runs[i]]
  BY <1>6
<1>8. \A i \in 1..n+1 : i \in 1..n \/ i = n + 1
  OBVIOUS
<1>9. \A i \in 1..n+1 : runs[i].run_index = i /\ Len(runs[i].predictions) = NumSamples
  BY <1>1, <1>3, <1>6, <1>8
<1>10. RunList(runs)
  <2>1. PICK m : m = n + 1
    OBVIOUS
  <2>2. /\ m \in 0..NumRuns /\ DOMAIN runs = 1..m /\ runs = [i \in 1..m |-> runs[i]]
        /\ \A i \in 1..m : runs[i].run_index = i /\ Len(runs[i].predictions) = NumSamples
    BY <1>3, <1>7, <1>9, <2>1, CountsAssumption
  <2> QED
    BY <2>2 DEF RunList
<1>11. SortedBy(runs, [i \in DOMAIN runs |-> runs[i].run_index]) = runs
  <2>1. PICK m \in Nat : m = n + 1
    OBVIOUS
  <2>2. PICK key : key = [i \in DOMAIN runs |-> runs[i].run_index]
    OBVIOUS
  <2>3. DOMAIN runs = 1..m /\ runs = [i \in 1..m |-> runs[i]] /\ \A i \in 1..m : key[i] = i
    BY <1>7, <1>9, <2>1, <2>2
  <2>4. SortedBy(runs, key) = runs
    BY <2>3, SortedAlready
  <2> QED
    BY <2>2, <2>4
<1> QED
  BY <1>1, <1>2, <1>3, <1>6, <1>7, <1>10, <1>11 DEF Grown

(* A step that leaves both lists of runs alone.                            *)
LEMMA RunsAlone ==
  ASSUME DiskInv, UNCHANGED <<disk, per_run>>,
         pc' \notin {"start", "refused", "down"} => pc \notin {"start", "refused", "down"},
         pc' \in {"collect", "merge"} => run' = Len(per_run) + 1,
         pc' \in {"join", "saveFinal", "finished"} => Len(per_run) = NumRuns
  PROVE  DiskInv'
BY DEF DiskInv, RunList

(* No runs at all.                                                         *)
LEMMA NoRuns ==
  ASSUME NEW s, s = <<>>
  PROVE  RunList(s)
<1>1. DOMAIN s = 1..0 /\ s = [i \in 1..0 |-> s[i]] /\ \A i \in 1..0 : FALSE
  OBVIOUS
<1> QED
  BY <1>1, CountsAssumption DEF RunList
(* The main process reads the output file, and writes it back.             *)
LEMMA LoadRuns ==
  ASSUME DiskInv, Load
  PROVE  DiskInv' /\ (disk'.runs = disk.runs)
<1>1. /\ pc = "start"
      /\ \/ pc' = "saveClean" /\ per_run' = Stored /\ disk' = [whole |-> FALSE, runs |-> Stored]
         \/ pc' = "refused" /\ UNCHANGED <<per_run, disk>>
  BY DEF Load, BeginSave
<1>2. Stored = disk.runs
  BY StoredIs DEF DiskInv
<1>3. CASE pc' = "refused" /\ UNCHANGED <<per_run, disk>>
  BY <1>3, RunsAlone
<1>4. CASE pc' = "saveClean" /\ per_run' = Stored /\ disk' = [whole |-> FALSE, runs |-> Stored]
  <2>1. /\ per_run' = disk.runs /\ disk'.runs = disk.runs /\ disk'.whole = FALSE
        /\ disk' = [whole |-> disk'.whole, runs |-> disk'.runs]
    BY <1>2, <1>4
  <2>2. RunList(disk'.runs) /\ RunList(per_run')
    BY <2>1 DEF DiskInv
  <2> QED
    BY <1>4, <2>1, <2>2 DEF DiskInv, RunList
<1> QED
  BY <1>1, <1>3, <1>4

(* A run is merged and saved: the others stay.                             *)
LEMMA MergeRuns ==
  ASSUME Types, DiskInv, Merge
  PROVE  /\ DiskInv'
         /\ \A i \in DOMAIN disk.runs : i \in DOMAIN disk'.runs /\ disk'.runs[i] = disk.runs[i]
         /\ \/ UNCHANGED <<disk, per_run>>
            \/ /\ Len(Merged) = NumSamples /\ run \in 1..NumRuns
               /\ disk'.runs = per_run' /\ DOMAIN disk'.runs = 1..run
               /\ \A i \in 1..run : i \in DOMAIN disk.runs \/ i = run
               /\ disk'.runs[run] = [run_index |-> run, predictions |-> Merged]
<1>1. /\ pc = "merge" /\ disk.runs = per_run /\ run = Len(per_run) + 1 /\ run' = run
      /\ RunList(per_run) /\ run \in 0..NumRuns
  BY DEF DiskInv, Merge, Types
<1>2. CASE pc' = "failed" /\ UNCHANGED <<per_run, disk>>
  BY <1>1, <1>2, RunsAlone
<1>3. CASE ~(pc' = "failed" /\ UNCHANGED <<per_run, disk>>)
  <2>1. PICK runs : runs = Append(per_run, [run_index |-> run, predictions |-> Merged])
    OBVIOUS
  <2>2. /\ pc' = "saveRun" /\ Len(Merged) = NumSamples
        /\ per_run' = SortedBy(runs, [i \in DOMAIN runs |-> runs[i].run_index])
        /\ disk' = [whole |-> FALSE, runs |-> per_run']
    BY <1>3, <2>1 DEF Merge, BeginSave
  <2>3. PICK n \in Nat : Len(per_run) = n /\ DOMAIN per_run = 1..n
    BY <1>1, RunsAre
  <2>4. run \in 1..NumRuns /\ run = n + 1
    BY <1>1, <2>3, CountsAssumption
  <2>5. PICK P : P = Merged
    OBVIOUS
  <2>6. /\ SortedBy(runs, [i \in DOMAIN runs |-> runs[i].run_index]) = runs
        /\ RunList(runs) /\ Len(runs) = run
        /\ \A i \in 1..Len(per_run) : runs[i] = per_run[i]
        /\ runs[run] = [run_index |-> run, predictions |-> P]
        /\ DOMAIN runs = 1..run
    <3>1. /\ RunList(per_run) /\ run = Len(per_run) + 1 /\ run \in 1..NumRuns
          /\ Len(P) = NumSamples
          /\ Adds(runs, P)
      BY <1>1, <2>1, <2>2, <2>4, <2>5 DEF Adds
    <3>2. Grown(runs, P)
      BY <3>1, RunAdded, Zenon
    <3> QED
      BY <3>2 DEF Grown
  <2>7. per_run' = runs /\ disk'.runs = runs /\ disk'.whole = FALSE
        /\ disk' = [whole |-> disk'.whole, runs |-> disk'.runs]
    BY <2>2, <2>6
  <2>8. RunList(disk'.runs) /\ RunList(per_run')
    BY <2>6, <2>7
  <2>9. DiskInv'
    BY <2>2, <2>7, <2>8 DEF DiskInv, RunList
  <2>10. \A i \in DOMAIN disk.runs : i \in DOMAIN disk'.runs /\ disk'.runs[i] = disk.runs[i]
    BY <1>1, <2>3, <2>4, <2>6, <2>7
  <2>11. \A i \in 1..run : i \in DOMAIN disk.runs \/ i = run
    BY <1>1, <2>3, <2>4
  <2>12. disk'.runs[run] = [run_index |-> run, predictions |-> Merged]
    BY <2>5, <2>6, <2>7
  <2>13. disk'.runs = per_run' /\ DOMAIN disk'.runs = 1..run
    BY <2>6, <2>7
  <2> QED
    BY <2>2, <2>4, <2>9, <2>10, <2>11, <2>12, <2>13
<1> QED
  BY <1>2, <1>3

\* s has the runs of t where they were.
Keeps(s, t) == \A i \in DOMAIN t : i \in DOMAIN s /\ s[i] = t[i]

(* No step loses a saved run, but a kill while the file is written.        *)
LEMMA DiskStep ==
  ASSUME WorkerInv, DiskInv, [Next]_vars
  PROVE  /\ DiskInv'
         /\ \/ Keeps(disk'.runs, disk.runs)
            \/ ~disk.whole /\ pc' = "down"
<1>1. CASE Load
  BY <1>1, LoadRuns DEF Keeps
<1>2. CASE EndSave
  <2>1. /\ pc \in {"saveClean", "saveRun", "saveFinal"} /\ disk' = [disk EXCEPT !.whole = TRUE]
        /\ per_run' = per_run /\ run' = run
        /\ pc' \in {"launch", "run", "finished"} /\ (pc' = "finished" => pc = "saveFinal")
    BY <1>2 DEF EndSave, bounds
  <2>2. /\ disk'.runs = disk.runs /\ disk'.whole = TRUE
        /\ disk' = [whole |-> disk'.whole, runs |-> disk'.runs]
    BY <2>1 DEF DiskInv
  <2>3. RunList(disk'.runs) /\ RunList(per_run')
    BY <2>1, <2>2 DEF DiskInv
  <2> QED
    BY <2>1, <2>2, <2>3 DEF DiskInv, RunList, Keeps
<1>3. CASE Merge
  BY <1>3, MergeRuns DEF WorkerInv, Keeps
<1>4. CASE Joined
  <2>1. /\ per_run' = per_run /\ run' = run
        /\ \/ pc = "join" /\ pc' = "saveFinal" /\ disk' = [whole |-> FALSE, runs |-> per_run]
           \/ pc = "joinFailed" /\ pc' = "exited" /\ disk' = disk
    BY <1>4 DEF Joined, BeginSave, bounds
  <2>2. /\ disk'.runs = disk.runs /\ disk.runs = per_run
        /\ disk' = [whole |-> disk'.whole, runs |-> disk'.runs]
        /\ disk'.whole = FALSE \/ disk'.whole = disk.whole
    <3>1. disk.runs = per_run /\ disk = [whole |-> disk.whole, runs |-> disk.runs]
      BY <2>1 DEF DiskInv
    <3>2. CASE disk' = [whole |-> FALSE, runs |-> per_run]
      BY <3>1, <3>2
    <3>3. CASE disk' = disk
      BY <3>1, <3>3
    <3> QED
      BY <2>1, <3>2, <3>3
  <2>4. disk'.whole \in BOOLEAN
    BY <2>2, Zenon DEF DiskInv
  <2>3. RunList(disk'.runs) /\ RunList(per_run')
    BY <2>1, <2>2 DEF DiskInv
  <2> QED
    BY <2>1, <2>2, <2>3, <2>4 DEF DiskInv, RunList, Keeps
<1>5. CASE Crash
  <2>1. /\ pc' = "down" /\ per_run' = per_run
        /\ disk' = IF disk.whole THEN disk ELSE [disk EXCEPT !.runs = <<>>]
    BY <1>5 DEF Crash
  <2>2. CASE disk.whole
    BY <2>1, <2>2, RunsAlone DEF Keeps
  <2>3. CASE ~disk.whole
    <3>1. /\ disk'.runs = <<>> /\ disk'.whole = disk.whole
          /\ disk' = [whole |-> disk'.whole, runs |-> disk'.runs]
      BY <2>1, <2>3 DEF DiskInv
    <3>2. RunList(disk'.runs) /\ RunList(per_run')
      BY <2>1, <3>1, NoRuns DEF DiskInv
    <3>3. disk'.whole \in BOOLEAN
      BY <3>1, Zenon DEF DiskInv
    <3> QED
      BY <2>1, <2>3, <3>1, <3>2, <3>3 DEF DiskInv, RunList
  <2> QED
    BY <2>2, <2>3
<1>6. CASE Restart
  <2>1. pc' = "start" /\ per_run' = <<>> /\ disk' = disk
    BY <1>6 DEF Restart
  <2>2. RunList(disk'.runs) /\ RunList(per_run')
    BY <2>1, NoRuns DEF DiskInv
  <2>3. disk' = [whole |-> disk'.whole, runs |-> disk'.runs] /\ disk'.whole \in BOOLEAN
    BY <2>1, Zenon DEF DiskInv
  <2> QED
    BY <2>1, <2>2, <2>3 DEF DiskInv, RunList, Keeps
<1>7. ASSUME UNCHANGED <<disk, per_run>>, 
             pc' \notin {"start", "refused", "down"} => pc \notin {"start", "refused", "down"},
             pc' \in {"collect", "merge"} => run' = Len(per_run) + 1,
             pc' \in {"join", "saveFinal", "finished"} => Len(per_run) = NumRuns
      PROVE  /\ DiskInv'
             /\ Keeps(disk'.runs, disk.runs)
  BY <1>7, RunsAlone DEF Keeps
<1>8. CASE Launch \/ AwaitReady \/ Exit
  BY <1>7, <1>8 DEF Launch, AwaitReady, Exit, bounds
<1>9. CASE StartRun
  <2>1. Left # {} /\ pc = "run" /\ pc' = "collect" /\ run' = Min(Left)
        /\ UNCHANGED <<disk, per_run>>
    BY <1>9 DEF StartRun
  <2>2. run' = Len(per_run) + 1
    BY <2>1, LeftIs DEF DiskInv
  <2> QED
    BY <1>7, <2>1, <2>2
<1>10. CASE Collect
  <2>1. /\ pc = "collect" /\ pc' \in {"failed", "collect", "merge"} /\ run' = run
        /\ UNCHANGED <<disk, per_run>>
    BY <1>10 DEF Collect
  <2> QED
    BY <1>7, <2>1 DEF DiskInv
<1>11. CASE Shutdown
  <2>1. /\ \/ pc = "failed" /\ pc' = "joinFailed"
           \/ pc = "run" /\ Left = {} /\ pc' = "join"
        /\ UNCHANGED <<disk, per_run>>
    BY <1>11 DEF Shutdown
  <2>2. pc' = "join" => Len(per_run) = NumRuns
    BY <2>1, LeftIs DEF DiskInv
  <2> QED
    BY <1>7, <2>1, <2>2
<1>12. CASE UNCHANGED <<pc, run, disk, per_run>>
  BY <1>7, <1>12 DEF DiskInv
<1>13. ASSUME NEW g \in AllGpus, Kill(g) \/ Worker(g) \/ Fail(g) \/ Die(g)
       PROVE  UNCHANGED <<pc, run, disk, per_run>>
  BY <1>13 DEF Kill, Worker, Ready, Take, Answer, Fail, Die
<1>14. CASE UNCHANGED vars
  BY <1>12, <1>14 DEF vars
<1> QED
  BY <1>1, <1>2, <1>3, <1>4, <1>5, <1>6, <1>8, <1>9, <1>10, <1>11, <1>12, <1>13, <1>14
     DEF Next, Main
(* The first state.                                                        *)
LEMMA WorkerInit == Init => WorkerInv
BY FreshJob DEF Init

(* No output file yet.                                                     *)
LEMMA DiskInit == Init => DiskInv
<1> SUFFICES ASSUME Init PROVE DiskInv
  OBVIOUS
<1>1. pc = "start" /\ per_run = <<>> /\ disk = [whole |-> TRUE, runs |-> <<>>]
  BY DEF Init
<1>2. /\ disk.runs = <<>> /\ disk.whole = TRUE
      /\ disk = [whole |-> disk.whole, runs |-> disk.runs]
  BY <1>1
<1>3. RunList(disk.runs) /\ RunList(per_run)
  BY <1>1, <1>2, NoRuns
<1> QED
  BY <1>1, <1>2, <1>3 DEF DiskInv

(* Both invariants hold in every state.                                    *)
LEMMA InvHolds == Spec => [](WorkerInv /\ DiskInv)
<1>1. Init => WorkerInv /\ DiskInv
  BY WorkerInit, DiskInit
<1>2. WorkerInv /\ DiskInv /\ [Next]_vars => WorkerInv' /\ DiskInv'
  BY WorkerStep, DiskStep
<1> QED
  BY <1>1, <1>2, PTL DEF Spec

(* The state is what its variables say: a worker has a task exactly while  *)
(* it works, at most two items wait in a queue, only the GPUs of the job   *)
(* are heard.                                                              *)
THEOREM TypeCorrect == Spec => []TypeOK
<1>1. WorkerInv /\ DiskInv => TypeOK
  <2> SUFFICES ASSUME WorkerInv, DiskInv PROVE TypeOK
    OBVIOUS
  <2>1. Types /\ disk.whole \in BOOLEAN
    BY Zenon DEF WorkerInv, DiskInv
  <2>2. ASSUME NEW g \in AllGpus PROVE Len(work_queues[g]) <= 2
    <3>1. Len(work_queues[g]) \in Nat
      BY <2>1, LenProperties DEF Types
    <3> QED
      BY <3>1 DEF WorkerInv, ShortQueues
  <2>3. ToSet(temp_files) \subseteq Target
    <3>1. DOMAIN temp_files = 1..Len(temp_files)
      BY <2>1, LenProperties DEF Types
    <3> QED
      BY <3>1 DEF WorkerInv, Begun, ToSet
  <2>4. \A g \in AllGpus : /\ status[g] \in {"off", "init", "idle", "busy", "gone", "dead"}
                           /\ (task[g] # NoTask) <=> (status[g] = "busy")
    BY <2>1 DEF Types
  <2>5. /\ pc \in {"start", "saveClean", "launch", "ready", "run", "collect", "merge", "saveRun",
                   "failed", "join", "joinFailed", "saveFinal", "finished", "exiting", "exited",
                   "refused", "down"}
        /\ gpus \in GpuLists /\ run \in 0..NumRuns
    BY <2>1 DEF Types
  <2> QED
    BY <2>1, <2>2, <2>3, <2>4, <2>5, Zenon DEF TypeOK
<1> QED
  BY <1>1, InvHolds, PTL

(* No step of any job drops a run that the output file held, but a kill in *)
(* the middle of writing the file.                                         *)
THEOREM RunsStay == Spec => SavedRunsStay
<1>1. WorkerInv /\ DiskInv /\ [Next]_vars =>
        [\/ ToSet(disk.runs) \subseteq ToSet(disk'.runs)
         \/ ~disk.whole /\ pc' = "down"]_vars
  <2> SUFFICES ASSUME WorkerInv, DiskInv, [Next]_vars, Keeps(disk'.runs, disk.runs)
               PROVE  ToSet(disk.runs) \subseteq ToSet(disk'.runs)
    BY DiskStep
  <2> QED
    BY DEF Keeps, ToSet
<1> QED
  BY <1>1, InvHolds, PTL DEF Spec, SavedRunsStay

\* The runs in the output file are the first ones, each complete; all of them
\* when a job has ended without an error.
RunsWhole == RunList(disk.runs) /\ (pc = "finished" => Len(disk.runs) = NumRuns)

(* Whatever the order of the ids, no job saves a run twice or with a       *)
(* prediction missing, and none ends without an error before it has all.   *)
THEOREM RunsComplete == Spec => []RunsWhole
<1>1. WorkerInv /\ DiskInv => RunsWhole
  <2>1. DiskInv /\ pc = "finished" => disk.runs = per_run /\ Len(per_run) = NumRuns
    BY DEF DiskInv
  <2>2. DiskInv => RunList(disk.runs)
    BY DEF DiskInv
  <2> QED
    BY <2>1, <2>2 DEF RunsWhole
<1> QED
  BY <1>1, InvHolds, PTL

(* The ids are given in ascending order, as in the default "0,1,2,...".    *)
AscendingIds == \A l \in GpuLists : \A i, j \in DOMAIN l : i < j => l[i] < l[j]

(* The prediction of every question, in the order of the questions.        *)
ExactFor(r) == [q \in 1..NumSamples |-> <<r, q>>]

(* The answers are sorted as the GPUs were given.                          *)
LEMMA FilesInOrder ==
  ASSUME AscendingIds, WorkerInv, pc = "merge"
  PROVE  /\ DOMAIN SortedBy(temp_files, temp_files) = 1..Len(Chunks)
         /\ \A c \in 1..Len(Chunks) : SortedBy(temp_files, temp_files)[c] = gpus[c]
         /\ \A c \in 1..Len(Chunks) :
              files[<<gpus[c], run>>] = Predictions([run |-> run, chunk |-> Chunks[c]])
<1>1. /\ gpus \in GpuLists /\ temp_files \in Seq(AllGpus) /\ Len(temp_files) = Cardinality(Active)
      /\ \A i, j \in 1..Len(temp_files) : temp_files[i] = temp_files[j] => i = j
      /\ \A i \in 1..Len(temp_files) : Filed(temp_files[i])
  BY DEF WorkerInv, Types, Answered
<1>2. PICK n \in Nat : /\ n = Len(Chunks) /\ Active = 1..n /\ Len(temp_files) = n
                       /\ n <= Len(gpus)
  BY <1>1, ActiveAre, ChunksAre, GpusType
<1>3. Within(temp_files, gpus, n) /\ Different(temp_files, n)
  BY <1>1, <1>2 DEF Within, Different, Filed
<1>4. Reached(temp_files, gpus, n)
  BY <1>3, NoneMissing, Zenon
<1> DEFINE p == [c \in 1..n |-> CHOOSE i \in 1..n : temp_files[i] = gpus[c]]
<1>5. \A c \in 1..n : p[c] \in 1..n /\ temp_files[p[c]] = gpus[c]
  BY <1>4 DEF Reached
<1> HIDE DEF p
<1>6. \A c \in 1..n : c \in DOMAIN gpus /\ gpus[c] \in Int
  BY <1>1, <1>2, GpusType
<1>7. \A c, d \in 1..n : c < d => gpus[c] < gpus[d]
  BY <1>1, <1>6 DEF AscendingIds
<1>8. Sorts(p, n, temp_files)
  <2>1. \A r \in 1..n : p[r] \in 1..n /\ temp_files[p[r]] \in Int
    BY <1>5, <1>6
  <2>2. \A r, q \in 1..n : r < q => temp_files[p[r]] < temp_files[p[q]]
    BY <1>5, <1>7
  <2>3. ASSUME NEW i \in 1..n PROVE \E r \in 1..n : p[r] = i
    <3>1. PICK c \in 1..n : temp_files[i] = gpus[c]
      BY <1>3 DEF Within
    <3>2. temp_files[p[c]] = temp_files[i] /\ p[c] \in 1..n
      BY <1>5, <3>1
    <3> QED
      BY <1>3, <3>2 DEF Different
  <2> QED
    BY <2>1, <2>2, <2>3 DEF Sorts
<1>9. DOMAIN temp_files = 1..n
  BY <1>1, <1>2, LenProperties
<1>10. /\ DOMAIN SortedBy(temp_files, temp_files) = 1..n
       /\ \A r \in 1..n : SortedBy(temp_files, temp_files)[r] = temp_files[p[r]]
  BY <1>8, <1>9, SortedByIs
<1>11. ASSUME NEW c \in 1..n
       PROVE  files[<<gpus[c], run>>] = Predictions([run |-> run, chunk |-> Chunks[c]])
  <2>1. temp_files[p[c]] = gpus[c] /\ p[c] \in 1..Len(temp_files)
    BY <1>2, <1>5
  <2>2. Filed(temp_files[p[c]])
    BY <1>1, <2>1
  <2>3. PICK d \in Active :
          /\ gpus[c] = gpus[d]
          /\ files[<<gpus[c], run>>] = Predictions([run |-> run, chunk |-> Chunks[d]])
    BY <2>1, <2>2 DEF Filed
  <2>4. c = d
    BY <1>1, <1>2, <2>3, ActiveAre
  <2> QED
    BY <2>3, <2>4
<1> QED
  BY <1>2, <1>5, <1>10, <1>11

(* The merged predictions are those of all questions, in order.            *)
LEMMA MergedIs ==
  ASSUME AscendingIds, WorkerInv, pc = "merge"
  PROVE  Merged = ExactFor(run)
<1>1. gpus \in GpuLists
  BY DEF WorkerInv, Types
<1>2. PICK n \in Nat : n = Len(Chunks)
  <2>1. Len(Chunks) \in 1..Len(gpus) /\ Len(gpus) \in Nat
    BY <1>1, ChunksAre, GpusType
  <2> QED
    BY <2>1
<1>3. PICK k \in Nat \ {0} : k = ChunkSize
  BY <1>1, ChunksAre
<1>4. PICK N \in Nat \ {0} : N = NumSamples
  BY CountsAssumption
<1>5. /\ n \in Nat \ {0} /\ n = (N + k - 1) \div k
      /\ \A c \in 1..n :
           /\ DOMAIN Chunks[c] = 1..Len(Chunks[c]) /\ Chunks[c] \in Seq(Nat)
           /\ Len(Chunks[c]) = IF k <= N - k * (c - 1) THEN k ELSE N - k * (c - 1)
           /\ \A i \in 1..Len(Chunks[c]) : Chunks[c][i] = k * (c - 1) + i
  <2>1. n \in 1..Len(gpus) /\ Len(gpus) \in Nat
    BY <1>1, <1>2, ChunksAre, GpusType
  <2>2. n = (N + k - 1) \div k
    BY <1>1, <1>2, <1>3, <1>4, ChunksAre, Zenon
  <2>3. ASSUME NEW c \in 1..n
        PROVE  /\ DOMAIN Chunks[c] = 1..Len(Chunks[c]) /\ Chunks[c] \in Seq(Nat)
               /\ Len(Chunks[c]) = IF k <= N - k * (c - 1) THEN k ELSE N - k * (c - 1)
               /\ \A i \in 1..Len(Chunks[c]) : Chunks[c][i] = k * (c - 1) + i
    BY <1>1, <1>2, <1>3, <1>4, ChunksAre, Zenon
  <2>4. n \in Nat \ {0}
    BY <2>1
  <2> QED
    BY <2>2, <2>3, <2>4, Zenon
<1> DEFINE S == {<<run, q>> : q \in Nat}
           s == [q \in 1..N |-> <<run, q>>]
           seqs == [c \in 1..n |-> [i \in 1..Len(Chunks[c]) |-> <<run, Chunks[c][i]>>]]
<1>6. ExactFor(run) = s
  BY <1>4 DEF ExactFor
<1>7. s \in Seq(S) /\ Len(s) = N
  <2>1. DOMAIN s = 1..N /\ s = [q \in DOMAIN s |-> s[q]] /\ \A q \in 1..N : s[q] \in S
    BY <1>4
  <2> HIDE DEF s, S
  <2> QED
    BY <1>4, <2>1, IsSequence
<1>8. ASSUME NEW c \in 1..n
      PROVE  /\ seqs[c] \in Seq(S) /\ Len(seqs[c]) = Len(Chunks[c])
             /\ \A i \in 1..Len(Chunks[c]) : seqs[c][i] = <<run, k * (c - 1) + i>>
  <2>1. PICK m \in Nat : m = Len(Chunks[c])
    BY <1>5, LenProperties
  <2>2. PICK f : f = [i \in 1..m |-> <<run, Chunks[c][i]>>]
    OBVIOUS
  <2>3. seqs[c] = f
    BY <2>1, <2>2
  <2>4. \A i \in 1..m : Chunks[c][i] \in Nat
    BY <1>5, <2>1
  <2>5. \A i \in 1..m : <<run, Chunks[c][i]>> \in S
    BY <2>4
  <2>6. DOMAIN f = 1..m /\ f = [i \in DOMAIN f |-> f[i]] /\ \A i \in 1..m : f[i] \in S
    BY <2>2, <2>5
  <2> HIDE DEF S, seqs
  <2>7. f \in Seq(S) /\ Len(f) = m
    BY <2>6, IsSequence
  <2>8. \A i \in 1..m : f[i] = <<run, k * (c - 1) + i>>
    BY <1>5, <2>1, <2>2
  <2> QED
    BY <2>1, <2>3, <2>7, <2>8
<1>9. seqs \in Seq(Seq(S)) /\ Len(seqs) = n
  <2>1. DOMAIN seqs = 1..n /\ seqs = [c \in DOMAIN seqs |-> seqs[c]]
        /\ \A c \in 1..n : seqs[c] \in Seq(S)
    BY <1>8
  <2> HIDE DEF S, seqs
  <2> QED
    BY <1>5, <2>1, IsSequence
<1>10. Slices(seqs, s, N, k)
  <2>1. ASSUME NEW c \in 1..n
        PROVE  /\ Len(seqs[c]) = IF k <= N - k * (c - 1) THEN k ELSE N - k * (c - 1)
               /\ \A i \in 1..Len(seqs[c]) : seqs[c][i] = s[k * (c - 1) + i]
    <3>1. PICK b \in Nat : b = c - 1
      BY <1>2
    <3>2. PICK x \in Nat : x = k * b
      BY <1>3
    <3>3. PICK m \in Nat : m = Len(Chunks[c])
      BY <1>5, LenProperties
    <3>4. k * (c - 1) = x
      BY <3>1, <3>2
    <3>5. Len(seqs[c]) = m /\ m = IF k <= N - x THEN k ELSE N - x
      BY <1>5, <1>8, <3>3, <3>4
    <3>6. \A i \in 1..m : seqs[c][i] = <<run, x + i>>
      BY <1>8, <3>3, <3>4
    <3>7. \A i \in 1..m : x + i \in 1..N
      BY <3>5
    <3>8. \A i \in 1..m : s[x + i] = <<run, x + i>>
      BY <3>7
    <3> QED
      BY <3>4, <3>5, <3>6, <3>8
  <2> HIDE DEF seqs, s
  <2> QED
    BY <1>5, <1>9, <2>1 DEF Slices
<1>11. FlattenSeq(seqs) = s
  <2> HIDE DEF seqs, s, S
  <2> QED
    BY <1>7, <1>9, <1>10, SlicesFlatten
<1>12. Merged = FlattenSeq(seqs)
  <2> DEFINE sorted == SortedBy(temp_files, temp_files)
             merged == [i \in DOMAIN sorted |-> files[<<sorted[i], run>>]]
  <2>1. /\ DOMAIN sorted = 1..n /\ \A c \in 1..n : sorted[c] = gpus[c]
        /\ \A c \in 1..n :
             files[<<gpus[c], run>>] = Predictions([run |-> run, chunk |-> Chunks[c]])
    BY <1>2, FilesInOrder
  <2> HIDE DEF sorted
  <2>2. ASSUME NEW c \in 1..n PROVE files[<<sorted[c], run>>] = seqs[c]
    <3>1. files[<<sorted[c], run>>] = Predictions([run |-> run, chunk |-> Chunks[c]])
      BY <2>1
    <3>2. Predictions([run |-> run, chunk |-> Chunks[c]])
            = [i \in DOMAIN Chunks[c] |-> <<run, Chunks[c][i]>>]
      BY DEF Predictions
    <3> QED
      BY <1>5, <3>1, <3>2
  <2>3. merged = seqs
    BY <2>1, <2>2
  <2>4. Merged = FlattenSeq(merged)
    BY DEF Merged, sorted
  <2> QED
    BY <2>3, <2>4, Zenon
<1> QED
  BY <1>6, <1>11, <1>12, Zenon

\* Each run of a list is the prediction of every question, in order.
ExactList(s) == \A i \in DOMAIN s : s[i].predictions = ExactFor(s[i].run_index)

DiskExact == ExactList(disk.runs)

(* Only a merge writes new predictions.                                    *)
LEMMA ExactStep ==
  ASSUME AscendingIds, WorkerInv, DiskInv, ExactList(disk.runs), [Next]_vars
  PROVE  ExactList(disk'.runs)
<1>1. CASE Load
  BY <1>1, LoadRuns
<1>2. CASE Merge
  <2>1. /\ \A i \in DOMAIN disk.runs : i \in DOMAIN disk'.runs /\ disk'.runs[i] = disk.runs[i]
        /\ \/ UNCHANGED <<disk, per_run>>
           \/ /\ DOMAIN disk'.runs = 1..run
              /\ \A i \in 1..run : i \in DOMAIN disk.runs \/ i = run
              /\ disk'.runs[run] = [run_index |-> run, predictions |-> Merged]
    BY <1>2, MergeRuns DEF WorkerInv
  <2>2. Merged = ExactFor(run)
    BY <1>2, MergedIs DEF Merge
  <2>3. CASE UNCHANGED <<disk, per_run>>
    BY <2>3
  <2>4. CASE /\ DOMAIN disk'.runs = 1..run
             /\ \A i \in 1..run : i \in DOMAIN disk.runs \/ i = run
             /\ disk'.runs[run] = [run_index |-> run, predictions |-> Merged]
    <3>1. /\ disk'.runs[run].run_index = run
          /\ disk'.runs[run].predictions = ExactFor(run)
      BY <2>2, <2>4
    <3> QED
      BY <2>1, <2>4, <3>1 DEF ExactList
  <2> QED
    BY <2>1, <2>3, <2>4
<1>3. CASE disk'.runs = disk.runs \/ disk'.runs = <<>>
  BY <1>3 DEF ExactList
<1>4. CASE EndSave \/ Joined \/ Crash
  <2>1. disk = [whole |-> disk.whole, runs |-> disk.runs]
        /\ (pc \notin {"start", "refused", "down"} => disk.runs = per_run)
    BY DEF DiskInv
  <2>2. disk'.runs = disk.runs \/ disk'.runs = <<>>
    BY <1>4, <2>1 DEF EndSave, Joined, Crash, BeginSave
  <2> QED
    BY <1>3, <2>2
<1>5. CASE disk' = disk
  BY <1>5
<1>6. CASE Launch \/ AwaitReady \/ StartRun \/ Collect \/ Shutdown \/ Exit \/ Restart
           \/ UNCHANGED vars
  BY <1>5, <1>6 DEF Launch, AwaitReady, StartRun, Collect, Shutdown, Exit, Restart, vars
<1>7. ASSUME NEW g \in AllGpus, Kill(g) \/ Worker(g) \/ Fail(g) \/ Die(g)
      PROVE  disk' = disk
  BY <1>7 DEF Kill, Worker, Ready, Take, Answer, Fail, Die
<1> QED
  BY <1>1, <1>2, <1>4, <1>5, <1>6, <1>7 DEF Next, Main

(* When the ids ascend, whatever a job writes to the output file holds     *)
(* each run once, with the prediction of every question in the order of    *)
(* the questions, and a job that ends without an error leaves all runs:    *)
(* through failing workers, kills, and restarts on other GPUs.             *)
THEOREM RunsExact == ASSUME AscendingIds PROVE Spec => []RunsAreExact
<1>1. Init => DiskExact
  BY DEF Init, ExactList, DiskExact
<1>2. WorkerInv /\ DiskInv /\ DiskExact /\ [Next]_vars => DiskExact'
  BY ExactStep DEF DiskExact
<1>3. WorkerInv /\ DiskInv /\ DiskExact => RunsAreExact
  <2> SUFFICES ASSUME WorkerInv, DiskInv, ExactList(disk.runs) PROVE RunsAreExact
    BY DEF DiskExact
  <2>1. PICK n \in Nat : /\ n <= NumRuns /\ DOMAIN disk.runs = 1..n /\ Len(disk.runs) = n
                         /\ \A i \in 1..n : disk.runs[i].run_index = i
    BY RunsAre DEF DiskInv
  <2>2. \A i \in DOMAIN disk.runs :
          disk.runs[i].predictions = [q \in 1..NumSamples |-> <<disk.runs[i].run_index, q>>]
    BY DEF ExactList, ExactFor
  <2>3. ASSUME pc = "finished"
        PROVE  {disk.runs[i].run_index : i \in DOMAIN disk.runs} = 1..NumRuns
    <3>1. n = NumRuns
      BY <2>1, <2>3 DEF DiskInv
    <3> QED
      BY <2>1, <3>1
  <2> QED
    BY <2>1, <2>2, <2>3 DEF RunsAreExact
<1> QED
  BY <1>1, <1>2, <1>3, InvHolds, PTL DEF Spec

=============================================================================
