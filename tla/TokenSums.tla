------------------------------ MODULE TokenSums ------------------------------
(***************************************************************************)
(* Sums of token counts.  A sum is the number of pairs <<x, k>> with       *)
(* k <= f[x]: no recursion, so that facts about it can be proved.          *)
(***************************************************************************)
EXTENDS Integers, FiniteSets

Pairs(f, S) == UNION {{x} \X (1..f[x]) : x \in S}

\* The sum of f over S, a negative f[x] counting as 0.
SumOver(f, S) == Cardinality(Pairs(f, S))
=============================================================================
