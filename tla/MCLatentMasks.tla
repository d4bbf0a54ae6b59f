----------------------------- MODULE MCLatentMasks -----------------------------
(* Batches of two examples for TLC. *)
EXTENDS LatentMasks

Tags == {"<think>", "</think>"}

Shapes(cots, markers) ==
  [prompt : 1..2, cot : cots, tags : {{}}, solution : {"cot"}, other : {0},
   answer : 1..2, marker : markers]

Pairs(first, second) == {<<x, y>> : x \in first, y \in second}

Clean == {"none"}
Long == Shapes(0..5, Clean)
Short == Shapes({1, 4}, Clean)

\* What the fields cot and solution may hold.
Texts(solutions) ==
  [prompt : {1}, cot : {1, 4}, tags : SUBSET Tags, solution : solutions, other : {0, 3},
   answer : {1}, marker : Clean]

\* The text has no end marker, except where the code looks for it.
MCBatches ==
  [family : {"qwen"}, k : 1..3, endLen : {1}, eosIsPad : BOOLEAN, examples : Pairs(Long, Short)]
  \cup
  [family : {"llama"}, k : {2}, endLen : {3}, eosIsPad : {FALSE}, examples : Pairs(Long, Short)]
  \cup
  [family : {"llama"}, k : {2}, endLen : {2}, eosIsPad : {FALSE},
   examples : Pairs(Texts({"absent", "cot", "other"}), Texts({"cot"}))]
  \cup
  [family : {"deepseek"}, k : {2}, endLen : {1}, eosIsPad : BOOLEAN,
   examples : Pairs(Shapes({3}, {"none", "problem", "cot_answer"}), Short)]

\* README.md's training format: problem, cot and cot_answer.
MCTrainingBatches ==
  [family : {"qwen"}, k : 1..2, endLen : {1}, eosIsPad : {FALSE},
   examples : Pairs(Texts({"absent"}), Texts({"absent"}))]
=============================================================================
