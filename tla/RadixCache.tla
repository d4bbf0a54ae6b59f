----------------------------- MODULE RadixCache -----------------------------
(***************************************************************************)
(* The radix cache, the KV slot allocator and the per-request rows of      *)
(* req_to_token, driven by the life of the requests in the scheduler:      *)
(* admission with a lock on the matched prefix, (chunked) prefill, decode, *)
(* finish, retraction, eviction.  Actions are per request, in every order  *)
(* the scheduler's batches allow and more; which request is admitted or    *)
(* retracted when is the business of the scheduler and is left open here.  *)
(***************************************************************************)
EXTENDS RadixTree

CONSTANTS Reqs,          \* request objects; each is used once
          Tokens,        \* vocabulary
          NumSlots,      \* TokenToKVPoolAllocator.size
          Prompts,       \* the input_ids requests may come with
          MaxNewTokens,  \* sampling_params.max_new_tokens of every request
          ChunkSize,     \* chunked_prefill_size
          Overlap        \* enable_overlap: results are processed one step late

ASSUME SizesPositive == {NumSlots, MaxNewTokens, ChunkSize} \subseteq Nat \ {0}
ASSUME PromptsAssumption == Prompts \subseteq Seq(Tokens) \ {<<>>}
ASSUME OverlapBoolean == Overlap \in BOOLEAN
ASSUME OwnerNames == {"free", "cache"} \cap Reqs = {}

VARIABLES tree,            \* the nodes below root_node
          evictable_size,  \* evictable_size_
          protected_size,  \* protected_size_
          free_slots,      \* TokenToKVPoolAllocator.free_slots
          phase,           \* where the request is in the scheduler
          prompt_len,      \* len(origin_input_ids)
          ids,             \* origin_input_ids + output_ids
          fill_len,        \* len(fill_ids)
          prefix_indices,  \* req.prefix_indices
          last_node,       \* req.last_node
          row,             \* req_to_token[req.req_pool_idx], the written part
          results,         \* launched forward passes whose result is unprocessed
          kv               \* what the KV in a slot was computed for (a history)

cacheVars == <<tree, evictable_size, protected_size>>
vars == <<tree, evictable_size, protected_size, free_slots, phase, prompt_len, ids,
          fill_len, prefix_indices, last_node, row, results, kv>>

Slots == 1..NumSlots

\* idle: not received; chunk: a chunk of its prompt is running; chunked: the
\* chunk is cached and the row given back; batch: in a running batch with its
\* whole prompt; finished: finished with a delayed token still in flight.
Phases == {"idle", "waiting", "admitted", "chunk", "chunked", "batch", "finished", "done"}

\* The requests that hold a lock on their last_node.
Holders == {r \in Reqs : phase[r] \in {"admitted", "chunk", "chunked", "batch"}}

\* A pending result: the end of a prefill, or a decode step that wrote a slot.
PrefillResult == [kind |-> "prefill", loc |-> 0]
DecodeResult(slot) == [kind |-> "decode", loc |-> slot]

\* The slots of r that are not the cache's: written past the locked prefix,
\* or allocated for the step that ran while r finished.
Uncached(r) == ToSet(SubSeq(row[r], Len(prefix_indices[r]) + 1, Len(row[r])))
             \cup (IF phase[r] = "finished" THEN {results[r][1].loc} ELSE {})

TypeOK ==
  /\ DOMAIN tree \subseteq Seq(Tokens) \ {<<>>}
  /\ \A p \in DOMAIN tree : tree[p] \in [value : Seq(Slots), lock_ref : Nat]
  /\ evictable_size \in Nat /\ protected_size \in Nat
  /\ free_slots \subseteq Slots
  /\ phase \in [Reqs -> Phases]
  /\ ids \in [Reqs -> Seq(Tokens)]
  /\ prompt_len \in [Reqs -> Nat]
  /\ fill_len \in [Reqs -> Nat]
  /\ prefix_indices \in [Reqs -> Seq(Slots)] /\ row \in [Reqs -> Seq(Slots)]
  /\ last_node \in [Reqs -> Seq(Tokens)]
  /\ results \in [Reqs -> Seq([kind : {"prefill", "decode"}, loc : 0..NumSlots])]
  /\ \A r \in Reqs : Len(results[r]) <= 2
  /\ kv \in [Slots -> Seq(Tokens)]

Init ==
  /\ tree = EmptyTree /\ evictable_size = 0 /\ protected_size = 0
  /\ free_slots = Slots
  /\ phase = [r \in Reqs |-> "idle"]
  /\ prompt_len = [r \in Reqs |-> 0]
  /\ ids = [r \in Reqs |-> <<>>]
  /\ fill_len = [r \in Reqs |-> 0]
  /\ prefix_indices = [r \in Reqs |-> <<>>]
  /\ last_node = [r \in Reqs |-> <<>>]
  /\ row = [r \in Reqs |-> <<>>]
  /\ results = [r \in Reqs |-> <<>>]
  /\ kv = [s \in Slots |-> <<>>]
-----------------------------------------------------------------------------
(* The allocator.                                                          *)

\* alloc: slots are interchangeable, so any n different free ones stand for the
\* front of the free list.
TakeFree(S, n) == CHOOSE f \in [1..n -> S] : IsInjective(f)

\* evict: the deleted nodes' slots return to the allocator.
EvictionsFor(t, n) == IF Cardinality(free_slots) < n THEN Evictions(t, n) ELSE {{}}

\* The slots alloc(n) returns after evicting the nodes E.
Allocated(n, E) == TakeFree(free_slots \cup NodeSlots(tree, E), n)

\* alloc_token_slots(n): evict if short, then allocate.
AllocTokens(n, E) ==
  LET free == free_slots \cup NodeSlots(tree, E)
  IN  /\ Cardinality(free) >= n
      /\ free_slots' = free \ ToSet(Allocated(n, E))
      /\ tree' = Delete(tree, E)
      /\ evictable_size' = evictable_size - SizeOf(tree, E)
      /\ UNCHANGED protected_size

\* The KV after a step: what a free slot held is forgotten.
KVBecomes(f) == kv' = [s \in Slots |-> IF s \in free_slots' THEN <<>> ELSE f[s]]
-----------------------------------------------------------------------------
(* Requests.                                                               *)

Receive(r, prompt) ==
  /\ phase[r] = "idle"
  /\ phase' = [phase EXCEPT ![r] = "waiting"]
  /\ ids' = [ids EXCEPT ![r] = prompt]
  /\ prompt_len' = [prompt_len EXCEPT ![r] = Len(prompt)]
  /\ UNCHANGED <<cacheVars, free_slots, fill_len, prefix_indices, last_node, row, results, kv>>

\* adjust_max_prefix_ids: at least one token is left to compute.
MaxPrefixIds(r) == SubSeq(ids[r], 1, Len(ids[r]) - 1)

\* init_next_round_input on a request that add_one_req then refuses: the
\* match may have split a node, and nothing is locked.  What it leaves in
\* prefix_indices and last_node is overwritten by the next match.
Peek(r) ==
  /\ phase[r] = "waiting"
  /\ tree' = MatchPrefix(tree, MaxPrefixIds(r)).tree
  /\ UNCHANGED <<evictable_size, protected_size, free_slots, phase, prompt_len, ids,
                 fill_len, prefix_indices, last_node, row, results, kv>>

NoChunkedReq == \A r \in Reqs : phase[r] \notin {"chunk", "chunked"} /\
                  ~(phase[r] = "admitted" /\ fill_len[r] < Len(ids[r]))

\* add_one_req: match, lock the node, and take n tokens to compute; fewer
\* than needed makes it the chunked request, of which there is only one.
Admit(r, n) ==
  LET m == MatchPrefix(tree, MaxPrefixIds(r))
      extend_input_len == Len(ids[r]) - Len(m.value)
      delta == Toggled(m.tree, m.node, 0)
  IN  /\ phase[r] = "waiting"
      /\ n <= extend_input_len
      /\ n < extend_input_len => NoChunkedReq /\ n <= ChunkSize
      /\ tree' = IncLock(m.tree, m.node)
      /\ evictable_size' = evictable_size - delta
      /\ protected_size' = protected_size + delta
      /\ prefix_indices' = [prefix_indices EXCEPT ![r] = m.value]
      /\ last_node' = [last_node EXCEPT ![r] = m.node]
      /\ fill_len' = [fill_len EXCEPT ![r] = Len(m.value) + n]
      /\ phase' = [phase EXCEPT ![r] = "admitted"]
      /\ UNCHANGED <<free_slots, prompt_len, ids, row, results, kv>>

\* add_chunked_req: the next n tokens of the chunked request.
AddChunked(r, n) ==
  /\ phase[r] = "chunked"
  /\ n <= Len(ids[r]) - Len(prefix_indices[r]) /\ n <= ChunkSize
  /\ fill_len' = [fill_len EXCEPT ![r] = Len(prefix_indices[r]) + n]
  /\ phase' = [phase EXCEPT ![r] = "admitted"]
  /\ UNCHANGED <<cacheVars, free_slots, prompt_len, ids, prefix_indices, last_node, row, results, kv>>

\* prepare_for_extend: the row is the cached prefix and fresh slots, which
\* the forward pass fills with the KV of the rest of fill_ids.
PrepareForExtend(r) ==
  LET pre == Len(prefix_indices[r])
      n == fill_len[r] - pre
      whole == fill_len[r] = Len(ids[r])
  IN  /\ phase[r] = "admitted"
      /\ \E E \in EvictionsFor(tree, n) :
           LET new == Allocated(n, E)
           IN  /\ AllocTokens(n, E)
               /\ row' = [row EXCEPT ![r] = prefix_indices[r] \o new]
               /\ KVBecomes([s \in Slots |->
                    IF s \in ToSet(new)
                    THEN SubSeq(ids[r], 1, pre + CHOOSE i \in 1..n : new[i] = s)
                    ELSE kv[s]])
      /\ results' = [results EXCEPT ![r] = IF whole THEN <<PrefillResult>> ELSE <<>>]
      /\ phase' = [phase EXCEPT ![r] = IF whole THEN "batch" ELSE "chunk"]
      /\ UNCHANGED <<prompt_len, ids, fill_len, prefix_indices, last_node>>

\* prepare_for_decode: one slot for the KV of the last token, which with
\* overlap may still be in flight (its KV is then unknown, <<>>, until it
\* lands).
PrepareForDecode(r) ==
  /\ phase[r] = "batch"
  /\ Len(results[r]) <= IF Overlap THEN 1 ELSE 0
  /\ \E E \in EvictionsFor(tree, 1) :
       LET slot == Allocated(1, E)[1]
       IN  /\ AllocTokens(1, E)
           /\ row' = [row EXCEPT ![r] = Append(@, slot)]
           /\ results' = [results EXCEPT ![r] = Append(@, DecodeResult(slot))]
           /\ KVBecomes([kv EXCEPT ![slot] = IF results[r] = <<>> THEN ids[r] ELSE <<>>])
  /\ UNCHANGED <<phase, prompt_len, ids, fill_len, prefix_indices, last_node>>
-----------------------------------------------------------------------------
(* Handing KV to the cache.                                                *)

\* Mutant: what the request reads from the cache is freed too.
DuplicatesFromStart(r, n) == ToSet(SubSeq(row[r], 1, n))

\* Slots of r past its prefix for tokens the cache already had (n in all).
Duplicates(r, n) == ToSet(SubSeq(row[r], Len(prefix_indices[r]) + 1, n))

\* cache_unfinished_req: insert the computed part of the row, free the slots
\* the cache already had, read the cache's own, and move the lock.
CacheUnfinished(r) ==
  LET key == SubSeq(ids[r], 1, fill_len[r])
      ins == Insert(tree, key, SubSeq(row[r], 1, fill_len[r]))
      m == MatchPrefix(ins.tree, key)
      unlocked == DecLock(m.tree, last_node[r])
      down == Toggled(m.tree, last_node[r], 1)
      up == Toggled(unlocked, m.node, 0)
  IN  /\ tree' = IncLock(unlocked, m.node)
      /\ evictable_size' = evictable_size + (Len(key) - ins.prefix_len) + down - up
      /\ protected_size' = protected_size - down + up
      /\ free_slots' = free_slots \cup Duplicates(r, ins.prefix_len)
      /\ prefix_indices' = [prefix_indices EXCEPT ![r] = m.value]
      /\ last_node' = [last_node EXCEPT ![r] = m.node]

\* Mutant: the row keeps the slots that were freed as duplicates.
KeepRow(r) == row' = row

\* The rest of cache_unfinished_req: the row reads the cache's slots.
RewriteRow(r) ==
  row' = [row EXCEPT ![r] = prefix_indices'[r]
                              \o SubSeq(@, Len(prefix_indices'[r]) + 1, Len(@))]

\* The request gives up its row and what it reads of the cache.
ReleaseRow(r) ==
  /\ row' = [row EXCEPT ![r] = <<>>]
  /\ prefix_indices' = [prefix_indices EXCEPT ![r] = <<>>]
  /\ last_node' = [last_node EXCEPT ![r] = <<>>]

\* cache_finished_req: as above for everything but the last token, which has
\* no KV (ids are those before it), and the lock and the row are released.
CacheFinished(r) ==
  LET ins == Insert(tree, ids[r], SubSeq(row[r], 1, Len(ids[r])))
      down == Toggled(ins.tree, last_node[r], 1)
  IN  /\ tree' = DecLock(ins.tree, last_node[r])
      /\ evictable_size' = evictable_size + (Len(ids[r]) - ins.prefix_len) + down
      /\ protected_size' = protected_size - down
      /\ free_slots' = free_slots \cup Duplicates(r, ins.prefix_len)
      /\ ReleaseRow(r)

\* get_next_batch_to_run caches the chunk that just ran and gives its row back.
StashChunk(r) ==
  /\ phase[r] = "chunk"
  /\ CacheUnfinished(r)
  /\ row' = [row EXCEPT ![r] = <<>>]
  /\ phase' = [phase EXCEPT ![r] = "chunked"]
  /\ UNCHANGED <<prompt_len, ids, fill_len, results>>
  /\ KVBecomes(kv)
-----------------------------------------------------------------------------
(* Results, in the order of the launches.                                  *)

\* Once t is sampled, the KV of a step launched before that is the KV of t.
Landed(r, t) ==
  LET pos == Len(ids[r]) + 1
  IN  IF Len(row[r]) >= pos THEN [kv EXCEPT ![row[r][pos]] = Append(ids[r], t)] ELSE kv

MayContinue(r) == Len(ids[r]) + 1 - prompt_len[r] < MaxNewTokens

\* process_batch_result_prefill / _decode append the token; check_finished
\* says stop at max_new_tokens, and may say so at any token (EOS, stop, abort).
\* A step already launched for a finished request is the delayed one, whose
\* slot is given back when its result comes.
ProcessLast(r) ==
  /\ phase[r] = "batch" /\ results[r] # <<>>
  /\ CacheFinished(r)
  /\ phase' = [phase EXCEPT ![r] = IF Len(results[r]) > 1 THEN "finished" ELSE "done"]
  /\ results' = [results EXCEPT ![r] = Tail(@)]
  /\ ids' = [ids EXCEPT ![r] = <<>>]
  /\ fill_len' = [fill_len EXCEPT ![r] = 0]
  /\ prompt_len' = [prompt_len EXCEPT ![r] = 0]
  /\ KVBecomes(kv)

ProcessPrefill(r, t) ==
  /\ phase[r] = "batch" /\ results[r] # <<>>
  /\ Head(results[r]).kind = "prefill"
  /\ MayContinue(r)
  /\ CacheUnfinished(r)
  /\ RewriteRow(r)
  /\ ids' = [ids EXCEPT ![r] = Append(@, t)]
  /\ results' = [results EXCEPT ![r] = Tail(@)]
  /\ UNCHANGED <<phase, prompt_len, fill_len>>
  /\ KVBecomes(Landed(r, t))

ProcessDecode(r, t) ==
  /\ phase[r] = "batch" /\ results[r] # <<>>
  /\ Head(results[r]).kind = "decode"
  /\ MayContinue(r)
  /\ ids' = [ids EXCEPT ![r] = Append(@, t)]
  /\ results' = [results EXCEPT ![r] = Tail(@)]
  /\ UNCHANGED <<cacheVars, free_slots, phase, prompt_len, fill_len, prefix_indices,
                 last_node, row>>
  /\ KVBecomes(Landed(r, t))

\* Mutant: the delayed slot is not given back.
DropDelayed(r) ==
  /\ phase[r] = "finished"
  /\ phase' = [phase EXCEPT ![r] = "done"]
  /\ results' = [results EXCEPT ![r] = <<>>]
  /\ UNCHANGED <<cacheVars, free_slots, prompt_len, ids, fill_len, prefix_indices, last_node,
                 row, kv>>

\* The result of the step that was in flight when r finished.
FreeDelayed(r) ==
  /\ phase[r] = "finished"
  /\ free_slots' = free_slots \cup {results[r][1].loc}
  /\ phase' = [phase EXCEPT ![r] = "done"]
  /\ results' = [results EXCEPT ![r] = <<>>]
  /\ UNCHANGED <<cacheVars, prompt_len, ids, fill_len, prefix_indices, last_node, row>>
  /\ KVBecomes(kv)
-----------------------------------------------------------------------------
(* Memory pressure.                                                        *)

\* check_decode_mem: room for one token of every request of the batch.
CheckDecodeMem ==
  LET n == Cardinality({r \in Reqs : phase[r] = "batch"})
  IN  /\ Cardinality(free_slots) < n
      /\ \E E \in Evictions(tree, n) :
           /\ tree' = Delete(tree, E)
           /\ free_slots' = free_slots \cup NodeSlots(tree, E)
           /\ evictable_size' = evictable_size - SizeOf(tree, E)
      /\ UNCHANGED <<protected_size, phase, prompt_len, ids, fill_len, prefix_indices,
                     last_node, row, results>>
      /\ KVBecomes(kv)

\* retract_decode on one request: what it wrote past its prefix is freed, its
\* lock released, and residual_size tokens are evicted for the others, which
\* need retract_decode_steps each.  Its unprocessed results are dropped
\* (is_retracted), and reset_for_retract forgets its prefix.
Retract(r, residual_size) ==
  LET unlocked == DecLock(tree, last_node[r])
      down == Toggled(tree, last_node[r], 1)
  IN  /\ phase[r] = "batch"
      /\ \E q \in Reqs \ {r} : phase[q] = "batch"
      /\ \E E \in Evictions(unlocked, residual_size) :
           /\ tree' = Delete(unlocked, E)
           /\ free_slots' = free_slots \cup Uncached(r) \cup NodeSlots(tree, E)
           /\ evictable_size' = evictable_size + down - SizeOf(tree, E)
      /\ protected_size' = protected_size - down
      /\ ReleaseRow(r)
      /\ results' = [results EXCEPT ![r] = <<>>]
      /\ fill_len' = [fill_len EXCEPT ![r] = 0]
      /\ phase' = [phase EXCEPT ![r] = "waiting"]
      /\ UNCHANGED <<prompt_len, ids>>
      /\ KVBecomes(kv)

\* flush_cache, when no request is in the system (its own test is weaker:
\* see Scheduler).
FlushCache ==
  /\ \A r \in Reqs : phase[r] \in {"idle", "done"}
  /\ tree' = EmptyTree /\ evictable_size' = 0 /\ protected_size' = 0
  /\ free_slots' = Slots
  /\ UNCHANGED <<phase, prompt_len, ids, fill_len, prefix_indices, last_node, row, results>>
  /\ KVBecomes(kv)
-----------------------------------------------------------------------------
Next ==
  \/ \E r \in Reqs :
       \/ \E prompt \in Prompts : Receive(r, prompt)
       \/ Peek(r)
       \/ \E n \in 1..ChunkSize : Admit(r, n) \/ AddChunked(r, n)
       \/ PrepareForExtend(r)
       \/ PrepareForDecode(r)
       \/ StashChunk(r)
       \/ ProcessLast(r)
       \/ \E t \in Tokens : ProcessPrefill(r, t) \/ ProcessDecode(r, t)
       \/ FreeDelayed(r)
       \/ \E n \in 0..NumSlots : Retract(r, n)
  \/ CheckDecodeMem
  \/ FlushCache

Spec == Init /\ [][Next]_vars
-----------------------------------------------------------------------------
(* Properties.                                                             *)

\* Every slot has exactly one of: a place in the free list, a place in one
\* node of the tree, a place past the prefix of one request.  A slot freed
\* twice, freed while used, or never freed breaks it (free in memory_pool.py
\* is a blind concatenation).
SlotsAccounted ==
  LET uses(s) == (IF s \in free_slots THEN 1 ELSE 0)
                 + Cardinality({x \in (DOMAIN tree) \X (1..NumSlots) :
                                  /\ x[2] <= Len(tree[x[1]].value)
                                  /\ tree[x[1]].value[x[2]] = s})
                 + Cardinality({r \in Reqs : s \in Uncached(r)})
  IN  \A s \in Slots : uses(s) = 1

\* What a request holding a lock reads as its prefix is the path to its
\* last_node, at every later split, insertion and eviction by others.
PrefixIsCached ==
  \A r \in Holders :
    /\ last_node[r] = <<>> \/ last_node[r] \in DOMAIN tree
    /\ prefix_indices[r] = PathSlots(tree, last_node[r])
    /\ IsPrefix(last_node[r], ids[r])
    /\ row[r] = <<>> \/ IsPrefix(prefix_indices[r], row[r])

\* lock_ref of a node counts the requests that hold a node below it: no lock
\* is leaked (memory lost for eviction) and none is released twice.
LockRefExact ==
  \A p \in DOMAIN tree :
    tree[p].lock_ref = Cardinality({r \in Holders : IsPrefix(p, last_node[r])})

\* The two counters the admission test and check_memory rely on are the
\* sizes of the unlocked and of the locked part of the tree.
SizesExact ==
  LET unlocked == {p \in DOMAIN tree : tree[p].lock_ref = 0}
  IN  /\ evictable_size = SizeOf(tree, unlocked)
      /\ protected_size = SizeOf(tree, DOMAIN tree \ unlocked)

\* The slots of a node hold the KV of the node's tokens after the tokens
\* above it; a running request's row holds the KV of its own tokens.
KVMatches ==
  /\ \A p \in DOMAIN tree : LET slots == PathSlots(tree, p)
       IN Len(slots) = Len(p) /\ \A i \in 1..Len(p) : kv[slots[i]] = SubSeq(p, 1, i)
  /\ \A r \in Reqs : \A i \in 1..Len(row[r]) :
       kv[row[r][i]] = IF i <= Len(ids[r]) THEN SubSeq(ids[r], 1, i) ELSE <<>>

\* check_memory: with no request in the system, all memory is free or
\* evictable, and nothing is locked.
IdleMemory ==
  (\A r \in Reqs : phase[r] \in {"idle", "waiting", "done"}) =>
    protected_size = 0 /\ Cardinality(free_slots) + evictable_size = NumSlots

Owner(s) == IF s \in free_slots THEN "free"
            ELSE IF s \in TreeSlots(tree) THEN "cache"
            ELSE CHOOSE r \in Reqs : s \in Uncached(r)

\* What the state is to KVOwnership.
owner == [s \in Slots |-> Owner(s)]
pinned == [r \in Reqs |-> IF r \in Holders THEN ToSet(prefix_indices[r]) ELSE {}]

KV == INSTANCE KVOwnership WITH Free <- "free", Cache <- "cache"

\* The cache, the allocator and the requests implement KVOwnership.
ImplementsKVOwnership == KV!Spec

\* What a request has matched stays in the tree while it runs: no slot it
\* reads is freed, evicted or written by another (the lock_ref protocol).
PinnedIsCached == KV!PinnedIsCached

\* A slot is given to a request only when it was free, or in the cache and
\* read by no other request; a slot read before and after a step stays where
\* it is (alloc and free of memory_pool.py, evict of radix_cache.py).
NoTheft == KV!NoTheft
=============================================================================
