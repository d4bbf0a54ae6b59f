---------------------------- MODULE MCLatentBatch ----------------------------
(* A small instance of LatentBatch for TLC. *)
EXTENDS LatentBatch

CONSTANTS r1, r2, r3

\* The greedy request has the shorter input, so retraction keeps it before
\* earlier rows with as many output tokens.
MCInputLen == [r \in Reqs |-> IF r \in Greedy THEN 1 ELSE 2]

Symmetry == Permutations(Reqs \ Greedy)
=============================================================================
