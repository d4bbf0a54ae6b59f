----------------------------- MODULE LatentBatch -----------------------------
(***************************************************************************)
(* Latent reasoning in a scheduler batch: the parallel per-row data of     *)
(* ScheduleBatch and SamplingBatchInfo under filter, merge, chunked        *)
(* prefill and retraction, the sampler, and Req.update_latent_info, which  *)
(* decides whether the next input embedding is a mix of tokens (soft) or   *)
(* one token (hard).  Normal event loop, with enable_latent.               *)
(***************************************************************************)
EXTENDS Naturals, Sequences, FiniteSets, SequencesExt, PythonLists

CONSTANTS Reqs, NoReq,
          Greedy,         \* the requests with top_k <= 1
          InputLen,       \* InputLen[r]: the length of origin_input_ids
          Tokens,         \* vocabulary
          LatentEnd, Eos, \* latent_end_token_id and the stop token
          MaxNewTokens    \* sampling_params.max_new_tokens

ASSUME TokensAssumption == {LatentEnd, Eos} \subseteq Tokens /\ LatentEnd # Eos
ASSUME ReqsAssumption == NoReq \notin Reqs /\ Greedy \subseteq Reqs
ASSUME InputLenAssumption == InputLen \in [Reqs -> Nat]
ASSUME MaxNewTokensAssumption == MaxNewTokens \in Nat \ {0}

VARIABLES pc,        \* merge, pick, prefill, decode: where the event loop is
          waiting,   \* waiting_queue
          last,      \* last_batch when it is an extend batch, or the one to prefill
          running,   \* running_batch
          chunked,   \* chunked_req
          req        \* the fields of the Req objects
vars == <<pc, waiting, last, running, chunked, req>>

\* A batch: its requests, and per row what prepare_for_extend computed for the
\* request (for: whose temperature, seq_len, pool index it is; latent: its
\* entry in latent_modes) and the last sampled token.
EmptyBatch == [reqs |-> <<>>, rows |-> <<>>, output_ids |-> <<>>, is_all_greedy |-> TRUE]

NoTopk == [idx |-> Eos, soft |-> FALSE, set |-> FALSE]
Soft(t) == [idx |-> t, soft |-> TRUE, set |-> TRUE]
Hard(t) == [idx |-> t, soft |-> FALSE, set |-> TRUE]

NewReq == [received |-> FALSE, finished |-> FALSE, output_ids |-> <<>>,
           latent_mode |-> TRUE, topk |-> NoTopk, trace |-> <<>>, is_chunked |-> 0]

Indices(b) == 1..Len(b.reqs)

TypeOK ==
  /\ pc \in {"merge", "pick", "prefill", "decode"}
  /\ waiting \in Seq(Reqs)
  /\ chunked \in Reqs \cup {NoReq}
  /\ \A b \in {last, running} :
       /\ b.reqs \in Seq(Reqs) /\ b.output_ids \in Seq(Tokens)
       /\ b.rows \in Seq([for : Reqs, latent : BOOLEAN])
       /\ b.is_all_greedy \in BOOLEAN
  /\ \A r \in Reqs :
       /\ req[r].output_ids \in Seq(Tokens) /\ Len(req[r].output_ids) <= MaxNewTokens
       /\ req[r].trace \in Seq(BOOLEAN)
       /\ req[r].is_chunked \in 0..1

Init ==
  /\ pc = "merge" /\ waiting = <<>> /\ chunked = NoReq
  /\ last = EmptyBatch /\ running = EmptyBatch
  /\ req = [r \in Reqs |-> NewReq]
-----------------------------------------------------------------------------
(* The rows of a batch.                                                    *)

\* Indexing a list, or a tensor, with a list of indices.
Take(s, keep) == [n \in 1..Len(keep) |-> s[keep[n]]]

\* Mutant: the sampling rows are masked, which leaves them in the old order.
FilterRowsMasked(b, keep) ==
  IF keep = <<>> THEN [b EXCEPT !.reqs = <<>>]
  ELSE IF Len(keep) = Len(b.reqs) THEN b
  ELSE [b EXCEPT !.reqs = Take(@, keep), !.rows = Selected(@, ToSet(keep)),
                 !.output_ids = Take(@, keep)]

\* Mutant: the token ids are.
FilterIdsMasked(b, keep) ==
  IF keep = <<>> THEN [b EXCEPT !.reqs = <<>>]
  ELSE IF Len(keep) = Len(b.reqs) THEN b
  ELSE [b EXCEPT !.reqs = Take(@, keep), !.rows = Take(@, keep),
                 !.output_ids = Selected(@, ToSet(keep))]

\* filter_batch, keep being keep_indices: a batch that loses all its requests
\* keeps its rows, one that loses none is left as it is.
FilterBatch(b, keep) ==
  IF keep = <<>> THEN [b EXCEPT !.reqs = <<>>]
  ELSE IF Len(keep) = Len(b.reqs) THEN b
  ELSE [b EXCEPT !.reqs = Take(@, keep), !.rows = Take(@, keep), !.output_ids = Take(@, keep)]

\* The default keep_indices.
Unfinished(b, exclude) ==
  Ascending({i \in Indices(b) : ~req[b.reqs[i]].finished /\ b.reqs[i] # exclude})

\* retract_decode's key, in the order reverse=True gives it: the longer output
\* first, then the shorter input, then the earlier row.
SortsBefore(b, i, j) ==
  LET output(n) == Len(req[b.reqs[n]].output_ids)
      inputs(n) == InputLen[b.reqs[n]]
  IN  \/ output(i) > output(j)
      \/ output(i) = output(j) /\ inputs(i) < inputs(j)
      \/ output(i) = output(j) /\ inputs(i) = inputs(j) /\ i < j

\* sorted_indices: the one listing of the rows in that order.
SortedIndices(b) ==
  {order \in [Indices(b) -> Indices(b)] :
     \A m, n \in Indices(b) : m < n => SortsBefore(b, order[m], order[n])}

\* merge_batch: reqs, the tensors and SamplingBatchInfo; is_all_greedy |= other's.
MergeBatch(b, other) ==
  [reqs |-> b.reqs \o other.reqs,
   rows |-> b.rows \o other.rows,
   output_ids |-> b.output_ids \o other.output_ids,
   is_all_greedy |-> b.is_all_greedy \/ other.is_all_greedy]

\* init_new and prepare_for_extend with SamplingBatchInfo.from_schedule_batch.
NewBatch(reqs) ==
  [reqs |-> reqs,
   rows |-> [i \in 1..Len(reqs) |-> [for |-> reqs[i], latent |-> req[reqs[i]].latent_mode]],
   output_ids |-> <<>>,
   is_all_greedy |-> ToSet(reqs) \subseteq Greedy]
-----------------------------------------------------------------------------
(* The event loop.                                                         *)

\* recv_requests and handle_generate_request.
Receive(r) ==
  /\ pc = "merge" /\ ~req[r].received
  /\ req' = [req EXCEPT ![r].received = TRUE]
  /\ waiting' = Append(waiting, r)
  /\ UNCHANGED <<pc, last, running, chunked>>

\* Mutant: the chunked request is merged with the others.
MergeChunked ==
  LET l == FilterBatch(last, Unfinished(last, NoReq))
  IN  /\ pc = "merge"
      /\ running' = IF l.reqs = <<>> THEN running
                    ELSE IF running.reqs = <<>> THEN l ELSE MergeBatch(running, l)
      /\ last' = EmptyBatch
      /\ pc' = "pick"
      /\ UNCHANGED <<waiting, chunked, req>>

\* get_next_batch_to_run, first half: the prefilled requests, without the
\* chunked and the finished ones, join the running batch.
MergeLast ==
  LET l == FilterBatch(last, Unfinished(last, chunked))
  IN  /\ pc = "merge"
      /\ running' = IF l.reqs = <<>> THEN running
                    ELSE IF running.reqs = <<>> THEN l ELSE MergeBatch(running, l)
      /\ last' = EmptyBatch
      /\ pc' = "pick"
      /\ UNCHANGED <<waiting, chunked, req>>

\* get_new_batch_prefill: the chunked request, then n requests of the queue;
\* the last one may be cut, and becomes the chunked request.  Who fits is
\* left open (see Scheduler).
Prefill(n, cut) ==
  LET old == IF chunked = NoReq THEN <<>> ELSE <<chunked>>
      new == old \o SubSeq(waiting, 1, n)
      cutReq == IF cut THEN Last(new) ELSE NoReq
  IN  /\ pc = "pick"
      /\ new # <<>>
      /\ waiting' = SubSeq(waiting, n + 1, Len(waiting))
      /\ chunked' = cutReq
      /\ last' = NewBatch(new)
      /\ req' = IF cut THEN [req EXCEPT ![cutReq].is_chunked = @ + 1] ELSE req
      /\ pc' = "prefill"
      /\ UNCHANGED running

\* update_running_batch: drop the finished and decode.  When memory is short
\* retract_decode pops requests from the end of sorted_indices until n, never
\* none, are kept, in that order.
Decode(n) ==
  LET live == FilterBatch(running, Unfinished(running, NoReq))
      size == Len(live.reqs)
  IN  /\ pc = "pick"
      /\ IF size = 0
         THEN n = 0 /\ running' = live /\ pc' = "merge" /\ UNCHANGED waiting
         ELSE /\ n \in 1..size
              /\ \E order \in SortedIndices(live) :
                   /\ running' = FilterBatch(live, SubSeq(order, 1, n))
                   /\ waiting' = waiting \o Reverse(Take(live.reqs, SubSeq(order, n + 1, size)))
              /\ pc' = "decode"
      /\ UNCHANGED <<last, chunked, req>>

\* Sampler.forward for one row: top is the head of the row's top-k (after the
\* Gumbel noise of a latent row), drawn the token top-p sampling would give.
Sampled(b, i, top, drawn) ==
  IF b.rows[i].latent \/ b.is_all_greedy THEN top ELSE drawn

\* Mutant: a latent row stays soft at the token that ends the latent phase.
NextTopkLate(latent_mode, top, token) ==
  IF latent_mode THEN Soft(top) ELSE Hard(token)

\* update_latent_info after token was appended: the next input.
NextTopk(latent_mode, top, token) ==
  IF latent_mode /\ token # LatentEnd THEN Soft(top) ELSE Hard(token)

\* Mutant: is_chunked is not decremented.
ProcessedNoChunk(q, top, token) == q

\* process_batch_result for one request: a chunked prefill yields no token;
\* otherwise append, check_finished, update_latent_info.
Processed(q, top, token) ==
  IF q.is_chunked > 0 THEN [q EXCEPT !.is_chunked = @ - 1]
  ELSE LET topk == NextTopk(q.latent_mode, top, token)
       IN  [q EXCEPT !.output_ids = Append(@, token),
                     !.finished = token = Eos \/ Len(q.output_ids) + 1 >= MaxNewTokens,
                     !.latent_mode = @ /\ token # LatentEnd,
                     !.topk = topk,
                     !.trace = Append(@, topk.soft)]

Ran(b, top, token) ==
  req' = [r \in Reqs |->
            IF \E i \in Indices(b) : b.reqs[i] = r
            THEN LET i == CHOOSE i \in Indices(b) : b.reqs[i] = r
                 IN  Processed(req[r], top[i], token[i])
            ELSE req[r]]

\* run_batch and process_batch_result on the batch just scheduled.
Run ==
  LET b == IF pc = "prefill" THEN last ELSE running
  IN  /\ pc \in {"prefill", "decode"}
      /\ \E top, drawn \in [Indices(b) -> Tokens] :
           LET token == [i \in Indices(b) |-> Sampled(b, i, top[i], drawn[i])]
           IN  /\ \A i \in Indices(b) : token[i] = top[i] => drawn[i] = top[i]
               /\ Ran(b, top, token)
               /\ last' = IF pc = "prefill" THEN [b EXCEPT !.output_ids = token] ELSE last
               /\ running' = IF pc = "decode" THEN [b EXCEPT !.output_ids = token] ELSE running
      /\ pc' = "merge"
      /\ UNCHANGED <<waiting, chunked>>

Next ==
  \/ \E r \in Reqs : Receive(r)
  \/ MergeLast
  \/ \E n \in 0..Len(waiting), cut \in BOOLEAN : Prefill(n, cut)
  \/ \E n \in 0..Len(running.reqs) : Decode(n)
  \/ Run

Spec == Init /\ [][Next]_vars
-----------------------------------------------------------------------------
(* Properties.                                                             *)

\* Row i of every per-row tensor belongs to reqs[i], in the batch about to
\* run and in the running batch, after any filters, merges and retractions.
RowsAligned ==
  \A b \in {last, running} :
    b.reqs # <<>> =>
      /\ Len(b.rows) = Len(b.reqs)
      /\ \A i \in Indices(b) : b.rows[i].for = b.reqs[i]

\* The embedding a decode step feeds (topk_prob, topk_idx) and the token ids
\* of the batch name the token last appended to the request.
InputMatchesToken ==
  pc = "decode" =>
    \A i \in Indices(running) :
      LET q == req[running.reqs[i]]
      IN  /\ q.topk.set /\ q.topk.idx = Last(q.output_ids)
          /\ running.output_ids[i] = Last(q.output_ids)

\* The recorded trace has one entry per output token, soft before the token
\* that ends the latent phase and hard from that token on.
TraceSoftUntilEnd ==
  \A r \in Reqs :
    /\ Len(req[r].trace) = Len(req[r].output_ids)
    /\ \A i \in 1..Len(req[r].trace) :
         req[r].trace[i] <=> \A j \in 1..i : req[r].output_ids[j] # LatentEnd

\* A request in the system is in one place: the queue, the chunked slot, or
\* one row of the prefilled or of the running batch.
OnePlace ==
  \A r \in Reqs :
    LET places == Cardinality({i \in 1..Len(waiting) : waiting[i] = r})
                  + (IF chunked = r THEN 1 ELSE 0)
                  + Cardinality({i \in Indices(last) : last.reqs[i] = r /\ chunked # r})
                  + Cardinality({i \in Indices(running) : running.reqs[i] = r})
    IN  IF req[r].received /\ ~req[r].finished THEN places = 1 ELSE places <= 1

\* The package README (l.29): requests that have completed thinking are
\* sampled.  Each row of a decode step is sampled as its request's phase says.
LatentModesCurrent ==
  pc = "decode" =>
    \A i \in Indices(running) : running.rows[i].latent = req[running.reqs[i]].latent_mode

\* The comment on is_all_greedy: whether all requests use greedy sampling.
AllGreedyMeansAll ==
  running.is_all_greedy => \A i \in Indices(running) : running.reqs[i] \in Greedy
=============================================================================
