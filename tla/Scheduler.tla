------------------------------ MODULE Scheduler ------------------------------
(***************************************************************************)
(* Who runs when: the normal event loop of managers/scheduler.py with the  *)
(* admission test of PrefillAdder, chunked prefill, the memory check of a  *)
(* decode step, retraction, abort and flush.  Memory is counted in tokens: *)
(* what a request does not lock is available or evictable, which is the    *)
(* same to every test made here (RadixCache models the tree itself).       *)
(* Prompts share no prefix: a hit only makes a request smaller.            *)
(***************************************************************************)
EXTENDS Sequences, FiniteSetsExt, SequencesExt, TokenSums

CONSTANTS Reqs, NoReq,
          InputLen,        \* len(origin_input_ids) of each request
          MaxNewTokens,    \* sampling_params.max_new_tokens of each request
          ClipEstimate,    \* CLIP_MAX_NEW_TOKENS_ESTIMATION (4096 unless set)
          MaxTotal,        \* max_total_num_tokens
          ChunkSize,       \* chunked_prefill_size
          MaxRunning,      \* max_running_requests
          RetractSteps,    \* retract_decode_steps (20 in global_config)
          Ratios,          \* values of 10 * new_token_ratio
          Aborts           \* the requests a client may abort

ASSUME LengthsAssumption ==
  /\ InputLen \in [Reqs -> Nat \ {0}] /\ MaxNewTokens \in [Reqs -> Nat \ {0}]
  /\ \A r \in Reqs : InputLen[r] + MaxNewTokens[r] <= MaxTotal - 2
ASSUME LimitsAssumption ==
  /\ ClipEstimate \in Nat
  /\ IsFiniteSet(Reqs) /\ {MaxTotal, ChunkSize, MaxRunning, RetractSteps} \subseteq Nat \ {0}
  /\ Ratios \subseteq 1..10 /\ NoReq \notin Reqs /\ Aborts \subseteq Reqs

VARIABLES waiting,    \* waiting_queue
          running,    \* running_batch.reqs (finished ones included)
          full,       \* running_batch.batch_is_full
          last,       \* last_batch.reqs when last_batch is an extend batch
          chunked,    \* chunked_req
          held,       \* KV slots a request locks or owns
          out,        \* len(output_ids)
          status,     \* new, live, finished, aborted (dropped from the queue)
          to_abort,   \* req.to_abort
          peak        \* tokens in use after the last allocation (a history)
vars == <<waiting, running, full, last, chunked, held, out, status, to_abort, peak>>

\* The tokens the requests S hold.
HeldBy(S) == SumOver(held, S)

Used == HeldBy(Reqs)

\* available_size() + evictable_size()
Available == MaxTotal - Used

TypeOK ==
  /\ waiting \in Seq(Reqs) /\ Cardinality(ToSet(waiting)) = Len(waiting)
  /\ running \subseteq Reqs /\ last \subseteq Reqs /\ chunked \in Reqs \cup {NoReq}
  /\ full \in BOOLEAN
  /\ \A r \in Reqs : held[r] \in 0..InputLen[r] + MaxNewTokens[r]
                     /\ out[r] \in 0..MaxNewTokens[r]
  /\ status \in [Reqs -> {"new", "live", "finished", "aborted"}]
  /\ to_abort \subseteq Reqs /\ peak \in Nat

Init ==
  /\ waiting = <<>> /\ running = {} /\ full = FALSE /\ last = {} /\ chunked = NoReq
  /\ held = [r \in Reqs |-> 0] /\ out = [r \in Reqs |-> 0]
  /\ status = [r \in Reqs |-> "new"] /\ to_abort = {} /\ peak = 0
-----------------------------------------------------------------------------
(* process_input_requests, at the head of the loop.                        *)

Receive(r) ==
  /\ status[r] = "new"
  /\ status' = [status EXCEPT ![r] = "live"]
  /\ waiting' = Append(waiting, r)
  /\ UNCHANGED <<running, full, last, chunked, held, out, to_abort, peak>>

\* abort_request: a queued request is dropped, a running one marked; one that
\* is in last_batch or is the chunked one is not found.
Abort(r) ==
  /\ status[r] = "live"
  /\ IF r \in ToSet(waiting)
     THEN /\ \E i \in DOMAIN waiting : waiting[i] = r /\ waiting' = RemoveAt(waiting, i)
          /\ status' = [status EXCEPT ![r] = "aborted"]
          /\ UNCHANGED to_abort
     ELSE /\ r \in running
          /\ to_abort' = to_abort \cup {r}
          /\ UNCHANGED <<waiting, status>>
  /\ UNCHANGED <<running, full, last, chunked, held, out, peak>>

\* flush_cache: chunked_req is left as it is.
FlushCache ==
  /\ waiting = <<>> /\ running = {}
  /\ last' = {}
  /\ held' = [r \in Reqs |-> 0]
  /\ UNCHANGED <<waiting, running, full, chunked, out, status, to_abort, peak>>
-----------------------------------------------------------------------------
(* get_next_batch_to_run, first half.                                      *)

Unfinished(S) == {r \in S : status[r] # "finished"}

\* Mutant: the chunked request joins the running batch before it is whole.
MergedWithChunked == running \cup Unfinished(last)

\* running_batch after the prefilled requests have joined it.
Merged == running \cup Unfinished(last \ {chunked})

\* Mutant: nothing but a shrinking running batch resets batch_is_full.
FullKept == full

\* batch_is_full after that: reset when the last prefill leaves requests out,
\* and when it becomes the running batch.
FullMerged ==
  full /\ (last # {} => /\ chunked = NoReq
                        /\ Unfinished(last) = last
                        /\ running # {})
-----------------------------------------------------------------------------
(* PrefillAdder.                                                           *)

\* Mutant: a retracted request is prefilled with its prompt alone.
ExtendLenPrompt(r) == InputLen[r] - held[r]

\* extend_input_len: fill_ids is the prompt and the outputs so far.
ExtendLen(r) == InputLen[r] + out[r] - held[r]

\* add_chunked_req: the tokens of chunked_req in this round.
ChunkTokens == IF chunked = NoReq THEN 0 ELSE Min({ExtendLen(chunked), ChunkSize})

ChunkCut == chunked # NoReq /\ ExtendLen(chunked) > ChunkSize

\* Requests and tokens the adder has taken before the i-th of the queue.
TakenBefore(i) == (IF chunked = NoReq THEN 0 ELSE 1) + i - 1

\* What the adder counts for n new tokens.
Clipped(n) == Min({n, ClipEstimate})

Reserve(r) == ExtendLen(r) + Clipped(MaxNewTokens[r])

\* 10 * rem_total_token_offset when the i-th of the queue is tried.
Offset(i, ratio) ==
  ratio * SumOver([r \in Merged |-> Clipped(MaxNewTokens[r] - out[r])], Merged)
  + 10 * (ChunkTokens
          + (IF chunked = NoReq \/ ChunkCut THEN 0 ELSE Clipped(MaxNewTokens[chunked]))
          + SumOver([j \in 1..i-1 |-> Reserve(waiting[j])], 1..i-1))

\* add_one_req's test, the negation of NO_TOKEN.
Fits(i, ratio) == 10 * Reserve(waiting[i]) < 10 * Available - Offset(i, ratio)

\* rem_chunk_tokens when the i-th of the queue is tried.
ChunkLeft(i) ==
  ChunkSize - ChunkTokens - SumOver([j \in 1..i-1 |-> ExtendLen(waiting[j])], 1..i-1)

HasRoom(i) == Cardinality(Merged) + TakenBefore(i) < MaxRunning

\* How many of the queue are taken; the loop breaks at the first refusal.
Admitted(ratio) ==
  Max({n \in 0..Len(waiting) :
         \A i \in 1..n : HasRoom(i) /\ Fits(i, ratio) /\ ChunkLeft(i) > 0})

\* The refusal was NO_TOKEN or too many requests: batch_is_full.
RefusalFills(n, ratio) ==
  /\ n < Len(waiting)
  /\ n > 0 => ChunkLeft(n + 1) > 0
  /\ ~HasRoom(n + 1) \/ ~Fits(n + 1, ratio)

Tried == (chunked # NoReq \/ (~FullMerged /\ waiting # <<>>)) /\ Cardinality(Merged) < MaxRunning

\* The requests of the queue in can_run_list when n have been taken.
FirstQueued(n) == {waiting[i] : i \in 1..n}

\* The tokens computed in this round for each request of the new batch.
Taken(n) ==
  [r \in ({chunked} \ {NoReq}) \cup FirstQueued(n) |->
     IF r = chunked THEN ChunkTokens
     ELSE LET i == CHOOSE j \in 1..n : waiting[j] = r IN Min({ExtendLen(r), ChunkLeft(i)})]
-----------------------------------------------------------------------------
(* One iteration of event_loop_normal.                                     *)

\* Mutant: one token too many.
StopsLate(r, eos) == r \in to_abort \/ r \in eos \/ out[r] >= MaxNewTokens[r]

\* check_finished: at max_new_tokens, when aborted, or when the model stops.
Stops(r, eos) == r \in to_abort \/ r \in eos \/ out[r] + 1 >= MaxNewTokens[r]

\* The batch is allocated (held is then memory), runs, and
\* process_batch_result appends a token to the requests B; a finished one
\* leaves its KV to the cache.
Process(B, eos, memory) ==
  LET done == {r \in B : Stops(r, eos)}
  IN  /\ peak' = SumOver(memory, Reqs)
      /\ out' = [r \in Reqs |-> IF r \in B THEN out[r] + 1 ELSE out[r]]
      /\ status' = [r \in Reqs |-> IF r \in done THEN "finished" ELSE status[r]]
      /\ held' = [r \in Reqs |-> IF r \in done THEN 0 ELSE memory[r]]

\* A round that prefills: get_new_batch_prefill returns a batch.
PrefillRound(ratio) ==
  LET n == Admitted(ratio)
      taken == Taken(n)
      B == DOMAIN taken
      cut == {r \in B : taken[r] < ExtendLen(r)}
  IN  /\ Tried
      /\ B # {}
      /\ waiting' = SubSeq(waiting, n + 1, Len(waiting))
      /\ running' = Merged
      /\ full' = (FullMerged \/ RefusalFills(n, ratio))
      /\ last' = B
      /\ chunked' = IF cut = {} THEN NoReq ELSE CHOOSE r \in cut : TRUE
      /\ \E eos \in SUBSET (B \ cut) :
           Process(B \ cut, eos, [r \in Reqs |-> IF r \in B THEN held[r] + taken[r] ELSE held[r]])
      /\ UNCHANGED to_abort

\* batch_is_full when no prefill batch comes out.
FullAfterTry(ratio) ==
  \/ FullMerged
  \/ Cardinality(Merged) >= MaxRunning /\ (waiting # <<>> \/ chunked # NoReq)
  \/ Tried /\ RefusalFills(0, ratio)

NoPrefill(ratio) == ~Tried \/ (chunked = NoReq /\ Admitted(ratio) = 0)

\* Retraction takes the requests with the fewest outputs first, then those
\* with the longest input.
RetractedBefore(r, q) ==
  \/ out[r] < out[q]
  \/ out[r] = out[q] /\ InputLen[r] > InputLen[q]

\* retract_decode on the batch B: the sequences of requests it may give up.
Enough(B, R) ==
  \/ Cardinality(B \ R) = 1
  \/ R # {} /\ Available + HeldBy(R) >= Cardinality(B \ R) * RetractSteps

\* Mutant: a decode step goes on when the check fails.
NoRetraction(B) == {{}}

Retractions(B) ==
  IF Available >= Cardinality(B) THEN {{}}   \* check_decode_mem
  ELSE {R \in SUBSET B :
          /\ Enough(B, R)
          /\ \A r \in R, q \in B \ R : ~RetractedBefore(q, r)
          /\ R # {} => \E r \in R : /\ \A q \in R : ~RetractedBefore(r, q)
                                    /\ ~Enough(B, R \ {r})}

\* A round that decodes: update_running_batch and the decode step.
DecodeRound(ratio) ==
  LET B == Unfinished(Merged)
  IN  /\ NoPrefill(ratio)
      /\ B # {}
      /\ \E R \in Retractions(B) :
           /\ \E order \in SetToSeqs(R) :
                /\ \A i, j \in DOMAIN order : i < j => ~RetractedBefore(order[j], order[i])
                /\ waiting' = waiting \o order
           /\ running' = B \ R
           /\ full' = (FullAfterTry(ratio) /\ running' = Merged)
           /\ \E eos \in SUBSET (B \ R) :
                Process(B \ R, eos,
                        [r \in Reqs |-> IF r \in R THEN 0
                                        ELSE IF r \in B THEN held[r] + 1 ELSE held[r]])
      /\ last' = {}
      /\ UNCHANGED <<chunked, to_abort>>

\* Nothing to run.
IdleRound(ratio) ==
  /\ NoPrefill(ratio)
  /\ Unfinished(Merged) = {}
  /\ running' = {} /\ last' = {}
  /\ full' = (FullAfterTry(ratio) /\ Merged = {})
  /\ UNCHANGED <<waiting, chunked, held, out, status, to_abort, peak>>

Iterate == \E ratio \in Ratios : PrefillRound(ratio) \/ DecodeRound(ratio) \/ IdleRound(ratio)

Next ==
  \/ \E r \in Reqs : Receive(r)
  \/ \E r \in Aborts : Abort(r)
  \/ Iterate

Spec == Init /\ [][Next]_vars /\ WF_vars(Iterate)

\* The same with a client that calls flush_cache.
SpecWithFlush == Init /\ [][Next \/ FlushCache]_vars
-----------------------------------------------------------------------------
(* Properties.                                                             *)

\* No allocation of a prefill or a decode step fails: the admission test and
\* the retraction loop keep the sum of all locked KV within memory, with no
\* reservation for what a chunked prompt has still to compute, and an
\* optimistic one for the tokens the running requests have still to sample.
MemoryFits == peak <= MaxTotal

\* A live request is in exactly one of the queue, the chunked slot, the
\* prefilled batch and the running batch, and no other request is queued or
\* holds memory.
NoRequestLost ==
  \A r \in Reqs :
    LET places == (IF r \in ToSet(waiting) THEN 1 ELSE 0)
                  + (IF chunked = r THEN 1 ELSE 0)
                  + (IF r \in last \ {chunked} THEN 1 ELSE 0)
                  + (IF r \in running THEN 1 ELSE 0)
    IN  IF status[r] = "live" THEN places = 1
        ELSE held[r] = 0 /\ r \notin ToSet(waiting) /\ r # chunked

\* What a request in the system holds is what its place says.
HoldsItsTokens ==
  \A r \in Reqs : status[r] = "live" =>
    /\ r \in ToSet(waiting) => held[r] = 0
    /\ r \in running \/ r \in last \ {chunked} => held[r] = InputLen[r] + out[r] - 1
    /\ r = chunked => held[r] \in 1..InputLen[r] + out[r] - 1

\* Every request is answered (docs/backend/hyperparameter_tuning.md l.27:
\* occasional retractions are okay).
EveryRequestFinishes ==
  \A r \in Reqs : status[r] = "live" ~> status[r] \in {"finished", "aborted"}
=============================================================================
