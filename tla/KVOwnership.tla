----------------------------- MODULE KVOwnership -----------------------------
(***************************************************************************)
(* What the KV memory of the serving engine promises, without the tree:    *)
(* every slot is free, or belongs to the prefix cache, or belongs to the   *)
(* one request that is writing it; a request pins the cached slots its     *)
(* attention reads, and a pinned slot stays in the cache.                  *)
(* RadixCache implements this specification; RadixCache_proofs proves its  *)
(* properties, for any sets of slots and requests.                         *)
(***************************************************************************)
CONSTANTS Slots,   \* KV slots, 1..size of TokenToKVPoolAllocator
          Reqs,    \* requests
          Free,    \* owner of a slot in free_slots, no request
          Cache    \* owner of a slot held by the radix tree, no request

VARIABLES owner,   \* owner[s]: who holds slot s
          pinned   \* pinned[r]: the cached slots request r reads

vars == <<owner, pinned>>

Owners == Reqs \cup {Free, Cache}

TypeOK ==
  /\ owner \in [Slots -> Owners]
  /\ pinned \in [Reqs -> SUBSET Slots]

HeldBy(x) == {s \in Slots : owner[s] = x}

Unpinned == {s \in HeldBy(Cache) : \A r \in Reqs : s \notin pinned[r]}

Init ==
  /\ owner = [s \in Slots |-> Free]
  /\ pinned = [r \in Reqs |-> {}]

\* A request is matched against the cache and locks what it matched.
Pin(r) ==
  /\ pinned[r] = {}
  /\ HeldBy(r) = {}
  /\ \E P \in SUBSET HeldBy(Cache) : pinned' = [pinned EXCEPT ![r] = P]
  /\ UNCHANGED owner

\* Allocation for r, after evicting from the cache if memory was short.
Acquire(r) ==
  /\ owner' \in [Slots -> Owners]
  /\ \A s \in Slots : owner'[s] # owner[s] =>
       \/ owner[s] = Free /\ owner'[s] = r
       \/ s \in Unpinned /\ owner'[s] \in {r, Free}
  /\ UNCHANGED pinned

\* r hands slots to the cache or frees them (duplicates), and reads others.
Publish(r) ==
  /\ owner' \in [Slots -> Owners]
  /\ \A s \in Slots : owner'[s] # owner[s] => owner[s] = r /\ owner'[s] \in {Cache, Free}
  /\ \E P \in SUBSET {s \in Slots : owner'[s] = Cache} :
       pinned' = [pinned EXCEPT ![r] = P]

\* r gives up everything; the memory it unpins may be evicted at once.
Drop(r) ==
  /\ pinned' = [pinned EXCEPT ![r] = {}]
  /\ \E E \in SUBSET {s \in HeldBy(Cache) : \A q \in Reqs \ {r} : s \notin pinned[q]} :
       owner' = [s \in Slots |-> IF s \in E \cup HeldBy(r) THEN Free ELSE owner[s]]

Evict ==
  /\ \E E \in SUBSET Unpinned :
       owner' = [s \in Slots |-> IF s \in E THEN Free ELSE owner[s]]
  /\ UNCHANGED pinned

\* The cache is flushed only when no request holds or reads a slot.
Reset ==
  /\ \A r \in Reqs : pinned[r] = {} /\ HeldBy(r) = {}
  /\ owner' = [s \in Slots |-> Free]
  /\ UNCHANGED pinned

Next ==
  \/ \E r \in Reqs : Pin(r) \/ Acquire(r) \/ Publish(r) \/ Drop(r)
  \/ Evict
  \/ Reset

Spec == Init /\ [][Next]_vars

\* A slot that a request reads is in the cache: it is neither free nor being
\* written by a request (the lock_ref protocol of radix_cache.py).
PinnedIsCached == \A r \in Reqs : pinned[r] \subseteq HeldBy(Cache)

\* A slot passes to a request only from the free list, or from the cache
\* when no other request reads it; and a slot some request still reads does
\* not move (alloc and free of memory_pool.py, evict of radix_cache.py).
NoTheft ==
  [][\A s \in Slots :
       /\ owner'[s] # owner[s] /\ owner'[s] \in Reqs
            => owner[s] = Free \/ s \in Unpinned
       /\ \A r \in Reqs : s \in pinned[r] /\ s \in pinned'[r] => owner'[s] = owner[s]]_vars
=============================================================================
