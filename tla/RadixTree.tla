------------------------------ MODULE RadixTree ------------------------------
(***************************************************************************)
(* The prefix tree of the KV cache as a value, and its operations, from    *)
(* sglang/srt/mem_cache/radix_cache.py with page_size 1.                   *)
(*                                                                         *)
(* A node is named by the token sequence that leads to it from the root,   *)
(* so DOMAIN tree is a set of non-empty sequences, the parent of a node is *)
(* its longest strict prefix in the tree, and the root (<<>>) is implicit. *)
(* The name survives a split, as the Python node object does: the new      *)
(* upper node takes the shorter name and the old node keeps its own.       *)
(* tree[p].value holds the KV slots of the edge into p, tree[p].lock_ref   *)
(* the number of users below.  last_access_time is abstracted: evict may   *)
(* pop unlocked leaves in any order.                                       *)
(***************************************************************************)
EXTENDS TokenSums, Sequences, FiniteSetsExt, SequencesExt

EmptyTree == [p \in {} |-> 0]

Node(value, lock_ref) == [value |-> value, lock_ref |-> lock_ref]

Ancestors(tree, node) == {p \in DOMAIN tree : IsPrefix(p, node)}

Below(tree, node) == {p \in DOMAIN tree : IsPrefix(node, p)}

ParentLen(tree, node) ==
  Max({0} \cup {Len(p) : p \in Ancestors(tree, node) \ {node}})

\* Number of tokens (and KV slots) held by the nodes in S.
SizeOf(tree, S) == SumOver([p \in S |-> Len(tree[p].value)], S)

NodeSlots(tree, S) == UNION {ToSet(tree[p].value) : p \in S}

TreeSlots(tree) == NodeSlots(tree, DOMAIN tree)

\* key_match_fn: length of the common prefix of two token sequences.
KeyMatch(a, b) ==
  Max({n \in 0..Min({Len(a), Len(b)}) : SubSeq(a, 1, n) = SubSeq(b, 1, n)})

\* The walk of _match_prefix_helper and _insert_helper stops where no node
\* shares one more token with the key.
MatchLen(tree, key) == Max({0} \cup {KeyMatch(p, key) : p \in DOMAIN tree})

\* The node whose edge the position upper (a prefix of some node) lies on.
CutChild(tree, upper) ==
  CHOOSE p \in Below(tree, upper) : \A q \in Below(tree, upper) : Len(p) <= Len(q)

\* The slot of the last token of a position.
SlotOf(tree, position) ==
  LET node == CutChild(tree, position)
  IN  tree[node].value[Len(position) - ParentLen(tree, node)]

\* The slots on the path from the root to node: what match_prefix returns.
PathSlots(tree, node) == [i \in 1..Len(node) |-> SlotOf(tree, SubSeq(node, 1, i))]

Split(tree, upper, lock_ref) ==
  IF upper = <<>> \/ upper \in DOMAIN tree THEN tree
  ELSE LET child == CutChild(tree, upper)
           cut   == Len(upper) - ParentLen(tree, child)
           value == tree[child].value
       IN  [p \in DOMAIN tree \cup {upper} |->
              CASE p = upper -> Node(SubSeq(value, 1, cut), lock_ref)
                [] p = child -> Node(SubSeq(value, cut + 1, Len(value)), tree[child].lock_ref)
                [] OTHER     -> tree[p]]

\* Mutant: the new node of a split starts unlocked.
SplitUnlocked(tree, upper) == Split(tree, upper, 0)

\* _split_node: a node named upper cuts the edge it lies on; it starts with
\* the lock count of the node it cuts, since every user below is below both.
SplitNode(tree, upper) == Split(tree, upper, tree[CutChild(tree, upper)].lock_ref)

\* Mutant: after a split the last node is the lower half, not the new node.
MatchPrefixLowerHalf(tree, key) ==
  LET node == SubSeq(key, 1, MatchLen(tree, key))
      t    == SplitNode(tree, node)
  IN  [tree |-> t, value |-> PathSlots(t, node),
       node |-> IF node = <<>> \/ node \in DOMAIN tree THEN node ELSE CutChild(tree, node)]

\* match_prefix: the longest cached prefix, its slots and its last node.
MatchPrefix(tree, key) ==
  LET node == SubSeq(key, 1, MatchLen(tree, key))
      t    == SplitNode(tree, node)
  IN  [tree |-> t, node |-> node, value |-> PathSlots(t, node)]

\* insert: the part of key beyond the match becomes one unlocked leaf.
Insert(tree, key, value) ==
  LET n == MatchLen(tree, key)
      t == SplitNode(tree, SubSeq(key, 1, n))
  IN  [prefix_len |-> n,
       tree |-> IF n = Len(key) THEN t
                ELSE [p \in DOMAIN t \cup {key} |->
                        IF p = key THEN Node(SubSeq(value, n + 1, Len(key)), 0)
                        ELSE t[p]]]

\* inc_lock_ref and dec_lock_ref walk from node up to the root.
IncLock(tree, node) ==
  [p \in DOMAIN tree |->
     IF IsPrefix(p, node) THEN [tree[p] EXCEPT !.lock_ref = @ + 1] ELSE tree[p]]

DecLock(tree, node) ==
  [p \in DOMAIN tree |->
     IF IsPrefix(p, node) THEN [tree[p] EXCEPT !.lock_ref = @ - 1] ELSE tree[p]]

\* Mutant: the whole path is counted at every lock and unlock.
ToggledAlways(tree, node, lock_ref) == SizeOf(tree, Ancestors(tree, node))

\* Mutant: only the last node is counted.
ToggledLast(tree, node, lock_ref) ==
  SizeOf(tree, {p \in {node} \cap DOMAIN tree : tree[p].lock_ref = lock_ref})

\* The tokens that change side between evictable_size_ and protected_size_
\* when node is locked (their lock_ref is 0) or unlocked (it is 1).
Toggled(tree, node, lock_ref) ==
  SizeOf(tree, {p \in Ancestors(tree, node) : tree[p].lock_ref = lock_ref})

\* The closed-below subsets of poppable where the loop may stop: the last node
\* deleted was needed to reach num_tokens, or nothing is left to pop.
EvictionsAmong(tree, poppable, num_tokens) ==
  LET Deletable(E) == \A p \in E : Below(tree, p) \subseteq E
      IsLast(p, E) == \A q \in E : ~IsStrictPrefix(q, p)
  IN  {E \in SUBSET poppable :
         /\ Deletable(E)
         /\ SizeOf(tree, E) >= num_tokens \/ E = poppable
         /\ E # {} => \E p \in E : IsLast(p, E) /\ SizeOf(tree, E \ {p}) < num_tokens}

\* Mutant: a locked leaf is not skipped.
EvictionsLocked(tree, num_tokens) == EvictionsAmong(tree, DOMAIN tree, num_tokens)

\* evict(num_tokens): the sets of nodes one call may delete.  Leaves go first,
\* a parent follows once childless, a locked leaf is skipped.
Evictions(tree, num_tokens) ==
  EvictionsAmong(tree, {p \in DOMAIN tree : \A q \in Below(tree, p) : tree[q].lock_ref = 0},
                 num_tokens)

Delete(tree, E) == [p \in DOMAIN tree \ E |-> tree[p]]
=============================================================================
