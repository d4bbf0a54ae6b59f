# Latent-SFT: a verification project

TLA+ models of the stateful parts of Latent-SFT, the TLC runs that check them and
the theorems TLAPS proves about them. Latent-SFT trains a language model to reason
in *latent* steps (a mix of tokens instead of a token) and serves it with a modified
copy of sglang.

Paths below are relative to the repository (`src/` holds it); `srt/` stands for
`src/sglang_latent_reasoning_pkg/python/sglang/srt/`.

## The system

```
 stage 1 training            soft-label generation              stage 2 training
 src/stage1/*                generate_latent_soft_label_*       src/stage2/*
 masks, position ids   -->   workers + two queues, chunk  -->   loads all chunks,
                             files batch_<i>_<j>.pt             trains, validates,
        \                                                       rotates checkpoints
         \---- validation.py + checkpointing.py (both stages) ----/
                                                                     |
 evaluation (src/eval/*)  -->  sglang engine (srt/)  <--------- checkpoint
                               scheduler | batch | radix cache | sampler
```

### Inventory

| component | state | operations | hard behaviour | what makes it correct |
|---|---|---|---|---|
| Radix cache, slot allocator (`srt/mem_cache/radix_cache.py`, `memory_pool.py`) | tree of token prefixes with KV slots and lock counts, two size counters, free list, one row of slots per request | match, insert, split, lock, unlock, evict; alloc, free; cache finished and unfinished requests | splits under other requests' locks, duplicates computed twice, eviction inside an allocation, results one step late | every slot has one owner; a reader's prefix stays; exact locks and sizes; KV belongs to the tokens it is read for |
| Scheduler (`srt/managers/scheduler.py`, `schedule_policy.py`, `schedule_batch.py`) | waiting queue, running batch, last batch, chunked request, `batch_is_full`, `new_token_ratio` | receive, abort, flush, admit, chunk, decode, retract | optimistic admission, retraction and second prefill, requests that are in no queue for a moment | memory never overflows; no request is lost; every request is answered |
| Batch and sampling rows (`schedule_batch.py`, `srt/sampling/sampling_batch_info.py`, `srt/layers/sampler.py`) | parallel lists and tensors per row, `latent_modes`, `is_all_greedy` | build, filter, merge, sample, `update_latent_info` | rows of one request in a dozen tensors through filters, merges, retractions | row i is request i; soft inputs until the end of the latent phase, hard ones after |
| Result processing (`srt/managers/scheduler_output_processor_mixin.py`) | outputs and finish state of requests | prefill and decode results | late results of finished and retracted requests | as for the cache and the batch |
| Checkpoint retention (`src/src/checkpointing.py`, `validation.py`, `training_utils.py`) | `checkpoint-*` directories, the trainer's log | save, validate, select, delete, resume | crashes between any two of these | resumable; the best ones kept; nothing half-written kept |
| Soft-label generation (`src/generate_latent_soft_label_lora_batch.py`) | task cursor, pending count, two queues, results, chunk files | dispatch, take, put, collect, sort, save, run again | answers in any order, a bound on what is in flight, dying workers, a killed job | label i belongs to example i, or stage 2 refuses; a job ends unless a batch is lost |
| Stage-2 data (`src/src/stage2/data.py`) | the loaded labels | load all chunks, count check | partial or foreign files | as above |
| From example to model input (`src/src/stage1/data.py`, `stage2/data.py`, `validation.py`, `modeling_stage1.py`, `modeling_stage2.py`) | the batch on its way: features, padded tensors, embeddings | tokenise, collate, embed, for stage 1, validation, labels and stage 2 | lengths not divisible by the compression rate, padding, four pieces of code that must agree | a label is predicted from the text before it and from nothing else; all stages see the same |
| Evaluation (`src/eval/*.py`) | a work queue per GPU, a result queue, temp files, the output file | launch, dispatch, collect, merge, save, resume, shut down | failing and dying workers, kills, restarts on other GPUs | predictions belong to their questions; finished runs stay; the job ends |
| Not stateful here | models, losses, graders, argument parsing | | | |
| Upstream sglang unused by this repository's scripts | hierarchical cache, disaggregation, speculative decoding, front ends | | | |

`PROJECT.json` lists the components with their files and status, and the hazards
with the line where each bites and the properties that watch it.

## Modules

| module | models | state ↔ code |
|---|---|---|
| `RadixTree` | the tree as a value and its operations | A node is named by the tokens from the root to it. A `TreeNode` object keeps its name in a split, the new upper node takes the shorter one. |
| `RadixCache` | cache, allocator, rows, and the life of requests | `tree`, `evictable_size`, `protected_size`, `free_slots`, `prefix_indices`, `last_node`, `fill_len` (`len(fill_ids)`), `row` (`req_to_token`), `ids` (`origin_input_ids + output_ids`). `results` are launched passes whose result is unprocessed (two with overlap). `kv` is a history: the tokens the KV in a slot was computed for. |
| `RadixCache_proofs` | theorems about these and `KVOwnership` | |
| `KVOwnership` | the abstract promise: one owner per slot, pinned slots stay | `owner`, `pinned`. `RadixCache` implements it (`ImplementsKVOwnership`; theorem `KVImplemented`), and so has its properties `PinnedIsCached` and `NoTheft`. |
| `LatentBatch` | rows of a batch and the latent phase | `last`, `running` (`ScheduleBatch`: `reqs`, `rows` for the per-row tensors, `output_ids`, `is_all_greedy`), `req` (fields of `Req`: `latent_mode`, `topk` for `topk_prob`/`topk_idx`, `trace` for `output_topk_*_list`). |
| `LatentBatch_proofs` | its theorems | |
| `Scheduler` | who runs when | `waiting`, `running`, `full` (`batch_is_full`), `last`, `chunked`, `held` (KV tokens of a request), `out` (`len(output_ids)`), `to_abort`. `peak` is a history: tokens in use after the last allocation. |
| `TokenSums`, `SharedLemmas` | sums of token counts without recursion, and the lemmas on sums, minima, lists and sequences the proofs share | |
| `Scheduler_proofs` | its theorems | |
| `CheckpointRetention` | save, validate, rotate, crash, resume | `dirs` (step → accuracy shown, whole or not, accuracy measured), `logged` (last `validation_accuracy` of `log_history`), `doomed` (what the loop has still to delete). |
| `CheckpointRetention_proofs` | its theorems | |
| `PythonLists` | `nonzero`, comprehensions with a condition, `sort` with a key | the lists of `LatentBatch`, `SoftLabelGen`, `LatentMasks` and `EvalWorkers`. Defined by ranks, which the prover can reason about. |
| `SoftLabelJob` | the abstract promise to stage 2 | `state`, `labels`. |
| `SoftLabelGen` | queues, workers, main process, chunk files, stage 2's loader | names of `_gen`: `task_idx`, `pending_count`, `results`, `input_queue`, `output_queue`; `base` is the round, `files` the directory. Implements `SoftLabelJob`. |
| `SoftLabelGen_proofs` | its theorems | |
| `LatentMasks` | from examples to what each position sees, in all stages | `feats` is what the tokenize functions return, `batch` what the collator returns, under their names; `embeds` is `inputs_embeds`: a token, or `<<"enc", r>>` for the distribution of encoder state `r`. A mask is the set of pairs it lets through. |
| `LatentMasks_proofs` | its theorems | |
| `EvalWorkers` | the persistent workers of `eval_high_tasks_sglang.py` | `gpus` (`target_gpu_ids`), `work_queues`, `result_queue`, `files` (the temporary files), `run` (`run_index`), `temp_files`, `per_run`, `disk` (the file at `output_path`); `status` and `task` are where a worker process is. `temp_files` counts the ready messages before the first run. |
| `EvalWorkers_proofs` | its theorems | |

`MC*` modules only give constants their values.

### How they fit together

`RadixCache` has the memory in full and leaves *when* a request is admitted, decoded
or retracted open; `Scheduler` has the *when* in full and counts memory in tokens.
What joins them is the amount that is available or evictable, which `SizesExact` and
`SlotsAccounted` establish for the first and the second computes with. `LatentBatch`
has the rows in full and leaves open which requests a prefill admits and cuts, and how
many a retraction keeps. `LatentMasks` says what the label of one
example is and where stage 2 puts it, `SoftLabelGen` that the label of each example
reaches stage 2 at its index; `EvalWorkers` runs the engine that the first three model
and takes its answers as given. Each is thus an over-approximation
of the code where it is open, so the safety properties carry over.

### Abstractions that matter

* Eviction order (`last_access_time`) is free: `Evictions` gives every set of nodes
  the loop could delete under some order. Pages have one slot.
* A forward pass is one step. It writes the KV of the tokens of its batch.
* The waiting queue is in the order of arrival (`schedule_policy` "fcfs", the default) in
  `LatentBatch` and `Scheduler`, except that a retraction appends what it retracts.
  `retract_decode` orders the rows by output and input length; `LatentBatch` has that order, since
  it permutes the rows (`SortedIndices`), `Scheduler` retracts in the same one, and the rows
  of `RadixCache` have no order.
* A sampled token is any token; a row's top-k is its head, and whether the next
  input is soft. Which of head and drawn token is appended follows the sampler.
* `Scheduler` lets `new_token_ratio` be any value of `Ratios` in every iteration.
  The code's ratio moves between such values by rules over many iterations.
  Prompts share no prefix there (a hit only makes a request smaller).
* A checkpoint's `log_history` is its last accuracy, the only one that
  `_read_checkpoint_metric` uses.
* A soft label is the index of its example.
* `Validate` of `CheckpointRetention` writes `trainer_state.json` in one step; the code
  rewrites the file in place (`validation.py:419`), and a crash inside the write is left out.
  `Resume` continues from the newest whole directory: the code returns the path it is given
  (`training_utils.py:111`), so this is an assumption about who restarts the training.
* A token in `LatentMasks` is a kind and a number: the prompt's third token, not its
  text. White space is not modelled. The texts that are compressed are: stage 1 compresses
  `cot` without its think tags (`TrainText`, `stage1/data.py:468`), the validation the field
  `solution` if there is one, else `cot`, and does not look for tags
  (`ValidationText`, `validation.py:200`), the soft-label generation `solution` without tags
  (`LabelText`, `generate_latent_soft_label_lora_batch.py:79`; the `hf_batch` script reads
  `cot`, and is not modelled here). So the stages can disagree: for an example with
  tags the validation feeds other latents than the training, and maybe more; for one whose
  `solution` is another text, validation and soft labels are of that text; for one without `solution` there are
  no soft labels at all. `StagesAgree` and its theorem are about the examples whose texts are
  the same, the run `training_format` about the last case.
* The text of the template is the same in all stages; for Qwen, `_stage2_prompt` of
  `validation.py` builds another prompt than stage 2 trains on, and is not modelled.
  Positions of a prompt padded on the left are those the library counts from the
  attention mask. `pad_to_multiple_of` is never given.
* `EvalWorkers` has one data set: the code goes through them one after the other with
  the same workers. A prediction is its run and its question. The temporary files are sorted
  by the GPU id itself; the code reads it from the whole path behind the first `_gpu_`
  (`eval_high_tasks_sglang.py:629`), so that `output_path` must not contain this text.
* In `SoftLabelGen` a worker dies by an exception. One killed inside `get` may take
  the queue's lock with it, which then stops the others too.

## Runs

| run | checks | shows |
|---|---|---|
| `radix` (`MCRadixCache.cfg`) | `TypeOK`; `SlotsAccounted`; `PrefixIsCached`; `LockRefExact`; `SizesExact`; `KVMatches`; `IdleMemory`; `PinnedIsCached`; `ImplementsKVOwnership`; `NoTheft` | Two requests whose prompts share a token, four slots, chunks of two, results one step late: every slot has one owner, locks and sizes are exact, KV is never read for other tokens, what a request reads is neither evicted nor given away, and the cache implements KVOwnership. |
| `latent` (`MCLatentBatch.cfg`) | `TypeOK`; `RowsAligned`; `InputMatchesToken`; `TraceSoftUntilEnd`; `OnePlace` | Three requests of two input lengths, prefills that end one chunked request and cut another, retractions that reorder the rows, any interleaving of finish and merge: the rows of the batch stay with their requests, no request is lost, and the recorded inputs are soft exactly until the end of the latent phase. |
| `latent_modes` (`MCLatentModes.cfg`) | `LatentModesCurrent` (violated) | A request that has completed its latent phase is still sampled as a latent row. |
| `latent_greedy` (`MCLatentGreedy.cfg`) | `AllGreedyMeansAll` (violated) | Merging a greedy batch into one that samples makes the whole batch greedy. |
| `scheduler` (`MCScheduler.cfg`) | `TypeOK`; `MemoryFits`; `NoRequestLost`; `HoldsItsTokens`; `EveryRequestFinishes` | Three requests that do not fit together at their full length: memory never overflows, nothing is lost through retraction, abort and chunking, and every request is answered. |
| `sched_flush` (`MCSchedulerFlush.cfg`) | `NoRequestLost` (violated) | A flush between a prefill and the merge into the running batch drops the prefilled requests. |
| `ckpt` (`MCCheckpointRetention.cfg`) | `TypeOK`; `LastSaveResumable`; `KeptAreWhole`; `KeepsBestShown` | Five saves, crashes between any two steps, resumes from the newest checkpoint: the run stays resumable, half-written directories are never kept, and the best shown accuracies survive. |
| `ckpt_crash` (`MCCheckpointCrash.cfg`) | `KeepsBestMeasured` (violated) | A checkpoint saved but not validated before a crash shows the previous accuracy and displaces a best one. |
| `softlabel` (`MCSoftLabelGen.cfg`) | `TypeOK`; `PendingExact`; `GenReturns`; `ImplementsSoftLabelJob` | Two rounds over two workers that answer in any order or die, chunk files written in any order, a job killed at any point and run again: stage 2 trains on every label at its example's index or refuses, and only a lost batch keeps a job from ending. |
| `masks` (`MCLatentMasks.cfg`) | `TypeOK`; `LabelSourcesExact`; `OnlyThroughLatents`; `PaddingIrrelevant`; `StagesAgree`; `KLTargetsAligned` | Batches of two examples with up to five reasoning tokens and segments of one to three, with and without think tags and a field solution: what every trained position depends on is the text before its label, through the latents alone, whatever the padding; stage 2 and validation give the model the same as stage 1 where they read the same text, and each soft label teaches the position before its latent. |
| `training_format` (`MCTrainingFormat.cfg`) | `TrainedIsLabelled` (violated) | An example in the format of the training data, which stage 1 trains on, has no field solution for the soft-label generation to read. |
| `eval` (`MCEvalWorkers.cfg`) | `TypeOK`; `RunsAreExact`; `SavedRunsStay`; `EvalEnds` | Two runs of four questions on three or two GPUs, workers that fail or die, a job killed at any point and started again on other GPUs: what is saved has every prediction at its question, saved runs stay, and the job ends unless a worker dies or fails to load. |

`CHECK_DEADLOCK FALSE` is set for `radix` (a request object is used once, and one too
large for what is left waits), `softlabel` and `eval` (the job ends, or waits for a
worker that died) and `masks` and `training_format` (the batch has been through). All others check
for deadlock.

### Why the bounds are enough

* `radix`: two requests are the least for a split under a lock, duplicates, shared
  prefixes and eviction against a reader; four slots are fewer than the two need
  together, so eviction and retraction happen; `ChunkSize` 2
  and `MaxNewTokens` 3 allow a chunk, a re-prefill, and a step in flight when a
  request finishes. 184,046 states.
* `latent`: three requests of which one is greedy, three tokens (ordinary, end of
  latent phase, end of sequence), up to three outputs: a request can finish, be
  retracted, be chunked and change phase while two others merge, and a prefill can end one
  chunked request and cut the next. The greedy request has the shorter input, so that a
  retraction moves its row before earlier ones with as many outputs. 836,812 states.
* `scheduler`: three requests with inputs 1, 1, 3 and four new tokens each in ten
  tokens of memory: decoding does fill it, requests are retracted and prefilled
  again, the longest prompt is chunked, one may be aborted. The reservation is clipped
  (`CLIP_MAX_NEW_TOKENS_ESTIMATION`) at three of the four new tokens. A request is
  retracted here only with so few outputs that an empty memory takes it again. Without that `EveryRequestFinishes` fails:
  `add_one_req` (`schedule_policy.py:461`) asks for the input, the outputs so far and
  the whole `max_new_tokens` (clipped) again, and a request for which that reaches the memory
  waits for ever.
* `ckpt`: five saves with two best and one recent kept, three accuracies: every
  order of ranks, ties included, and a crash in each of the five phases.
* `softlabel`: eleven examples in two rounds (7 and 4), batches of 2 (one short), a
  bound of 3 in flight below the four batches of a round, files of 4 (one short).
  Any number of deaths, kills and reruns. 22,504 states.
* `masks`: the first example of a batch has none to five reasoning tokens, the second
  one or four, with segments of one to three: a last segment that is full, shorter, or
  the only one, and an example that is shorter, longer or of the same length as its
  neighbour. The end marker has one token (Qwen, DeepSeek) or three (Llama), the pad
  token is eos or not. Only DeepSeek examples may have the end marker in their text,
  where the code refuses it. The fields `cot` and `solution` vary in a part of the
  batches: think tags before, behind, both or none, `solution` missing, the same text, another one
  or empty. 17,504 states. `training_format` has the fields that `README.md:121` gives the training data.
* `eval`: four questions on GPUs 0, 1, 2 give chunks of two and one GPU without work,
  on 1 and 3 two full ones, so that temporary files of one job lie beside those of the
  next. `MaxFaults` 2 and `MaxRestarts` 2 allow two workers to fail in one job, or in
  two. The GPU ids ascend, as in every script: for others the sort by id and the order
  of the chunks differ. 177,414 states.

### Runs that end in a violation

Each refutes a statement of the repository about itself; `findings` in
`PROJECT.json` quotes it.

* `latent_modes`: the flag of the request is cleared at the end of the latent phase
  (`schedule_batch.py:750`), the batch's `latent_modes` row is not.
* `latent_greedy`: `is_all_greedy |= other.is_all_greedy`
  (`sampling_batch_info.py:476`) makes a sampling batch greedy.
* `sched_flush`: `flush_cache` does not look at `last_batch` and `chunked_req`
  (`scheduler.py:1650`).
* `training_format`: `prepare_single_cot` reads `solution`
  (`generate_latent_soft_label_lora_batch.py:79`), which training data does not have
  (`README.md:121`).
* `ckpt_crash`: a checkpoint that a crash left unvalidated shows the accuracy of the
  one before it and takes its place among the best (`checkpointing.py:40`).

### Fairness

`Scheduler`: weak fairness of `Iterate`, one turn of `event_loop_normal`, which is a
`while True` with no blocking receive (requests are polled). Nothing is assumed about
clients. `SoftLabelGen`: weak fairness of the main process and of each worker, which
the operating system schedules and which `close` terminates only after the last
round; none for deaths, `Stop`, `Restart` or stage 2. `EvalWorkers`: the same, with the
assumption that `generate` returns; `shutdown_workers` kills what does not end in 60
seconds, so its wait ends in any case. Other modules state safety only.

## Proofs

`tlapm` checks every step of the proof modules; the constants are arbitrary but for
the named assumptions of the modules (TLC evaluates these in the runs).

**`CheckpointRetention_proofs`** (assumptions `LimitsAssumption`, `AccuraciesAssumption`).

* `Typing`: `Spec => []TypeOK`. `TypeOK` is not inductive (a save of step 0 would
  leave it), `TypeInv` adds that the directory of the step being saved exists.
* `Resumability`: `Spec => []LastSaveResumable`, if at least one recent checkpoint is
  kept and nobody restarts from scratch in the same directory. Inductive is
  `ResumeInv`, which says for every phase which step the training can count on
  (`Reached`), and that above it there is at most a directory whose save was cut
  short. It is needed because a crash can come in any phase, and rotation must not
  count a broken directory as the recent one. `CrashStep` says what a crash may change:
  one directory of the list, which loses files. `NewestIsRecent` gives that the
  newest one is kept.

* `BestShownKept`: `Spec => KeepsBestShown`, with no assumption on restarts. Inductive
  is `RankInv`: each directory the loop has still to delete is `Outranked` by those that
  stay (as many newer and as many better ones as the limits), of which there are no more
  than the limits allow. Without the second part a checkpoint could be deleted for one
  that is deleted after it. `TopProperties` says what the `TopOf` of the module is, for
  any total order.
* `WholeAreKept`: `Spec => []KeptAreWhole`, under the hypotheses of `Resumability`.
  `WholeInv` joins the two invariants and says what becomes of a directory that is not
  whole: it is newer than all whole ones, so that it is the one saved again, or the whole
  directories alone outrank it, so that no rotation keeps it. The latter is about a crash
  in the middle of a deletion.

**`SharedLemmas`** has what the others need: least and greatest elements, sums
(`SumOver` of `TokenSums` is the number of pairs `<<x, k>>` with `k <= f[x]`, so that its
laws follow from those of `Cardinality`), sequences without duplicates, and lists: what
`Ascending` and `SortedBy` of `PythonLists` are (`AscendingRanked`, `SortedByIs`), where
`FlattenSeq` puts each part (`FlattenMeans`, `FlattenIs`; it is defined by a recursive
function, whose existence `FlatExists` shows), and slices of a list (`SlicesFlatten`).
Induction is replaced by a minimal counterexample (`LeastNatural`, `MinimalSubset`).

**`Scheduler_proofs`** (assumptions `LengthsAssumption`: no request is longer than
`max_req_len` allows; `LimitsAssumption`). `SchedulerInv` gives `Spec => []Inv`, from which
`TypeCorrect`, `AllocationsFit`, `OnePlacePerRequest` and `HoldingsExact` follow, one for
each of the run's invariants. What `Inv` adds to them, and why:

* `ChunkFits`: what is held fits, and while a prompt is being chunked there is room for
  the rest of it in memory and one place in the running batch. The next chunk is computed
  without a test of either (`add_chunked_req`), so this must last from round to round: no
  decode step comes in between, and what the round admits was tested together with it.
* `InBatches`: a live request in a batch has a token to sample yet, so that what it holds
  stays below the length `max_req_len` bounds.
* `QueuedOnce`: a request retracted goes behind the queue, and is not in it already.
`DecodeFits` is the argument for retraction: it ends with a batch that fits, since the last
request fits alone. `PrefillFits` is the one for admission: what a round takes, with the
chunk under way, stays below what was available, since each test counts the requests
admitted before it with their whole prompt; the estimate of new tokens, which may be clipped, only adds to it.

**`LatentBatch_proofs`** (assumptions `TokensAssumption`, `ReqsAssumption`, `InputLenAssumption`,
`MaxNewTokensAssumption`: at least one new token). `BatchInv` gives `Spec => []Inv`; `TypeCorrect`, `RowsOfTheirRequests`,
`FedTheLastToken`, `SoftUntilLatentEnd` and `HeldInOnePlace` are the run's invariants. `Inv`
adds

* `Chunks`: `is_chunked` is 1 for the request the prefill about to run cuts and 0 for the
  others, so that only this row samples a token that is thrown away;
* `Fed` for the last batch too, which becomes part of the running one by `merge_batch`;
* `Rows` in a one-sided form: a request in its latent phase has a latent row. The converse
  fails, which is what the run `latent_modes` shows, and `RowOk` must do without it.

`FilterMeans` and `MergeMeans` reduce a filter and a merge to rows: which row of the old
batches a row of the new one is. `ProcessedMeans` does the same for one request.

**`LatentMasks_proofs`** (assumption `BatchesAssumption`: examples are nonempty in number,
segments and the end marker have a token). `BatchOfItsInput` gives `Spec => []IInv`, which
says that at each stage the batch is a function of the input and that a batch is rejected only
for an example that is refused, or that has no `solution` to label, or an empty one. That it is inductive is the hard part: `forward` asserts that
decoder and encoder count the same latents, and for that one needs to know where
`insert_special_token_every_k` and `remove_before_token` put them. The lemmas on the encoder's
rows are about any text (`TextsAre`, `TextSpread`, `TextRow`), for the three that compress have three.

* `MarkProperties`: the special tokens come at the multiples of `k + 1` and at the end, and
  their number is the quotient rounded up, by an argument on quotients and remainders.
* `Ranked` is the list of the positions of a token; `RankedFrame` carries it through
  concatenation, `WherePadded` through padding, `AscendingIs` of `SharedLemmas` to `nonzero`.
* `FoundPadded`: padding can complete no end marker, since the pad token is not part of it;
  `SeesPadded` that no case of the mask looks at the length of a row but through it.
* `TypeCorrect`, `PaddingChangesNothing` and `SoftLabelsAligned` are invariants of the run.
* `LatentsCarryAll`, `LabelsSeeTheirText` and `StagesAreAligned`:
  `CleanText => (Spec => []OnlyThroughLatents)` and the same for `LabelSourcesExact` and
  `StagesAgree`. The last speaks of a row whose text the stage reads as stage 1 does (`SameText`,
  `SameLabels`), whatever the texts of the other rows of the batch. `CleanText` says that a text that is taken does not quote
  the end marker. For deepseek the tokenisation itself refuses such a text, so nothing is assumed;
  the other families do not look (`stage1/data.py:433`), and of a problem that quotes the marker,
  which the mask takes for the start of the answer, all three are false. A quote in the answer
  comes second and is not found; the proofs do not cover it. The batches of
  the run satisfy `CleanText`. The argument:
  * `LayoutOfDecoder`: a row of the decoder is opening, spread segments and closing, with latents
    at the places of `Mark`; the end marker is found where the closing starts (`FoundAt` needs
    that nothing before it looks like one), and padding changes neither.
  * `Depends` says directly what a position of such a row depends on: prompt and latents up to
    it, its own segment, or, from the end marker on, all but the segments. `DecoderReaches` and
    `EncoderReaches` show that `Reach` is this: `Reach` is a fold over the positions, `ReachIs`
    is by induction (a least counterexample): a reflexive relation equals `Reach` if a step of the
    mask followed by it stays in it and each of its other pairs begins with such a step to an
    earlier position (`Closes`).
  * `RowSources`: joined with what each latent's encoder state stands for (`MeaningIs`: the text
    up to the end of its segment), the positions a label depends on yield the text before it,
    neither more nor less; `LabelTokens`: the labels are the text behind the first segment.
  * `KeptRanked`: the positions without the spacers are the opening, the latents and the closing,
    in this order, so that the position of rank `r` is known. On them the embeddings
    are those of `Given`, the position ids count from 0 (`KeptPositions`), the labels are the
    closing (`KeptLabeled`) and the mask is the causal one (`KeptMask`).
  * `Stage2Given` and `ValidEmbedded`: stage 2, and the validation behind its padding on the
    left, embed what `Given` says too, although their rows are built anew. Row `r` of
    stage 2 sees all of what is before it, since only the last token may be the pad token (`TwoNoPad`).

**`SoftLabelGen_proofs`** (assumptions `SizesAssumption`, `WorkersAssumption`: finitely
many workers).

* `PendingIsExact`: `Spec => []PendingExact`. `PendingInv` adds that a queue never
  holds the mark of an idle worker (`TaskType`: what is dispatched is a task), and that
  a round has no more batches than its tasks. The latter is needed at `EndRound`, which
  resets `task_idx` and not `pending_count`: a round with all its results has none
  pending, so the next starts with empty queues and ids of two rounds never mix. A
  worker's death changes nothing it speaks of: a lost batch stays pending, which is why
  the main process waits for it.
* `TypeCorrect` and `SoftLabelJobImplemented`: `Spec => []TypeOK` and
  `Spec => ImplementsSoftLabelJob`, from `LabelInv` together with `PendingInv`. It says where
  each batch handed out is (`Places`), that the labels so far are those of the rounds done, and
  that each file that is there, whichever run of the job wrote it, is a whole chunk of the right
  labels (`Saved`). `ResultsAreTheRound` is where the two invariants meet: with as many results
  as batches nothing is pending, so each batch must be among the results, each once
  (`Pigeonhole`); sorting by id then gives the order of the examples (`SortedLabelsAre`).
  `NoneMissing` is the argument for stage 2's count check: files begin a multiple of the
  chunk size apart and none is longer, so that the labels before a file are never more than
  its start, and a total of `NumExamples` leaves no gap (`LoadedAre`). The refinement needs
  this only in `Stage2`; all other steps stutter.

**`RadixCache_proofs`** (assumptions `SizesPositive`, `PromptsAssumption`, and
`OwnerNames`: no request is called like an owner that is none). `BooksKept` gives
`Spec => [](WellFormed /\ BooksRight)`; `TypeCorrect`, `NoLockLeaked` and `CountersExact` follow.
`MemoryKept` adds `ReadsRight /\ MemoryRight`; `SlotsKept`, `PrefixKept`, `KVRight` and
`NoMemoryLeaked` follow.

* First, the tree: `TreeShape` says that where two nodes part there is a node (else
  `_match_prefix_helper`, which looks at one child per first token, would miss one of the two),
  and that each edge has as many slots as tokens. `SplitMeans`, `MatchMeans`,
  `InsertMeans`, `EvictionMeans` and `DeleteMeans` say what the operations do to such a tree.
* `WellFormed` adds what the fields of a request are in each phase (`RequestOK`). It is needed
  because no action tests it: that the chunk just run filled the row, that a decode result's
  slot is the one behind the computed tokens, also when one step is in flight.
* `BooksRight`: lock counts and sizes of the tree. It is not inductive without the shape, since
  a split must leave both halves with the lock count, and `evict` deletes a node only with all
  below it. `BooksSplit`, `BooksLeaf`, `BooksInc`, `BooksDec` and `BooksDelete` are the five things
  that happen to a tree, each action is some of them in a row.
* `ReadsRight`: what a request has read is the path to its node (`ReadsPath`), its node is a
  prefix of its ids, and a row in use starts with it (`RowReads`). A step of one request has to
  leave the paths of the others (`KeepsPath`): splits, locks and insertions keep every path, and
  an eviction keeps the path of a holder because its lock count is at least one (`EvictionKeeps`,
  from `BooksRight`).
* `MemoryRight`: the free list, the slots of the cache's positions (`TreeSet`) and the own slots
  of each request partition the slots (`Partition`), and the KV of a position is that of its
  tokens. The two parts need each other: that two positions never share a slot, and that a row
  has no slot twice, is known because the KV in them differs, and the KV of a slot is known to
  stay because only its owner writes it. `MemoryFrame` reduces a step to the slots of the request
  that takes it; `PublishMoves` says where they go when a prefix is published (freed up to what
  the cache had, the cache's up to the end of the prefix, the request's after it), which uses that
  the cache has at least what the request read (`PrefixPublished`, from `ReadsRight`).
* The counts: `PlacesDiffer` enumerates the cache's slots by node and place in the edge, hence at most one
  place per slot (`CachePlaces`) and as many slots as the tree's size (`TreeCount`).
* `KVImplemented`: `Spec => ImplementsKVOwnership`. `SeenRight` says that the mapped `owner`
  and `pinned` are what `Partition` and the paths of the readers make them; then each action is
  one step of `KVOwnership`: admission pins; the two batch preparations acquire, and what they
  evict is unpinned, since what the others read is still cached afterwards (`ReadsRight`); a stashed
  chunk, a processed result and a delayed free publish; a retraction drops, what it evicts
  included; `flush_cache` resets; the rest stutters.
* `OwnersTyped`, `PinnedAreCached`, `SlotsNotStolen`: what `KVOwnership` promises follows from
  its actions, whatever `owner` and `pinned` are (`KV!Spec => []KV!PinnedIsCached` and so on; the
  two are not expanded). `PinnedIsCached` is inductive together with `TypeOK`: `PinnedStep` takes
  a slot `s` that `q` reads after the step and shows for each action that it is the cache's.
  `Acquire` and `Evict` touch unpinned slots of the cache only; `Publish` and `Drop` move slots of
  the acting request, which `q`'s pins exclude since they are the cache's. `NoTheft` follows
  (`TheftStep`).
* `ReadsStay` and `NothingStolen`: with `KVImplemented` these hold of the cache and its readers
  (`Spec => []PinnedIsCached`, `Spec => NoTheft`): the slot of a reader is given to no request,
  however the cache gets there. With them all ten properties of the run are theorems.

**`EvalWorkers_proofs`** (assumptions `ListsAssumption`: no id is given twice, as the queues are
in a dictionary by id (`eval_high_tasks_sglang.py:548`); `CountsAssumption`). Inductive is
`WorkerInv /\ DiskInv`.

* `WorkerInv` says, for each phase of the main process, what may be under way. While answers are
  collected (`Answering`), a worker that has a chunk, or has one waiting, has not answered, and
  each answer that was not an error has its file, which holds the predictions of that worker's
  chunk of *this* run (`Filed`). This is what makes the temporary files of an earlier job
  harmless: a file is read only after its worker has written it anew. `HeardOnce`: no worker
  answers twice, so that as many answers as active workers means all of them (`AllHeard`).
  `Between`: nothing is left in a queue between two runs, else an answer of one run would count
  for the next.
* `DiskInv`: the output file holds what the job has in memory, the runs `1..n` with as many
  predictions as questions each.
* `TypeCorrect` and `RunsStay` are the run's `TypeOK` and `SavedRunsStay`. `RunsComplete` gives
  `Spec => []RunsWhole`, for ids in any order.
* `RunsExact`: `Spec => []RunsAreExact` if the ids ascend (`AscendingIds`). `run_one_eval` deals
  the chunks out in the order of `--gpu_ids` and merges them in the order of the ids (lines 612
  and 630), so that with `1,0` the predictions of the two halves would change places; the
  default, and the commands of `README.md`, have them ascending. `FilesInOrder`: the sorted
  list of files is that of the chunks; `MergedIs`: their concatenation is the list of all
  questions.

Not proved, and why. Liveness (`EveryRequestFinishes`, `GenReturns`, `EvalEnds`) is beyond
the prover; it stays with TLC. Every other property of the passing runs is stated by a theorem.

## Not modelled

Paged keys, `ChunkCache`, hierarchical cache, speculative decoding, disaggregation,
DP attention, LoRA limits, grammars, mixed chunks, `ignore_eos` admission; the
overlap thread's future tokens and probabilities; noise and temperatures of the
sampler and of the soft labels; the arithmetic of the models and their losses; text
templates; grading; distributed barriers of validation; chunk files of a soft-label job
on other data; the evaluation scripts other than `eval_high_tasks_sglang.py`, whose
workers serve one run. `PROJECT.json` gives the
reason per component and, for hazards among these, a note.

## Plan

Done, in this order of importance: `RadixTree`, `RadixCache` with its proofs, `KVOwnership`,
`LatentBatch`, `Scheduler` and `CheckpointRetention` with their proofs; `SoftLabelJob`; `SoftLabelGen` with its proofs, worker deaths and reruns;
`LatentMasks`; `EvalWorkers`, with their proofs.

Next:

1. The overlap loop of `LatentBatch` (flags cleared by the worker thread), and the
   composition of `LatentBatch` with `RadixCache` (KV of soft positions under keys
   of hard tokens).
2. Validation over several ranks with its barriers, composed with
   `CheckpointRetention`; `"scratch"` restarts there.
3. Chunk files of a job on other data in `SoftLabelGen`.
