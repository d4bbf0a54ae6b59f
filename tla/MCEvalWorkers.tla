---------------------------- MODULE MCEvalWorkers ----------------------------
(* A small instance of EvalWorkers for TLC. *)
EXTENDS EvalWorkers

\* Ascending ids, as in the default "0,1,2,...".
MCGpuLists == {<<0, 1, 2>>, <<1, 3>>}
=============================================================================
