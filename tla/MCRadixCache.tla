---------------------------- MODULE MCRadixCache ----------------------------
(* A small instance of RadixCache for TLC: two prompts that share their      *)
(* first token, so that the second request splits a node the first locked.   *)
EXTENDS RadixCache

CONSTANTS a, b

MCPrompts == {<<a, a>>, <<a, b>>}

Symmetry == Permutations(Reqs)
=============================================================================
