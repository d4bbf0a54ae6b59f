----------------------------- MODULE MCScheduler -----------------------------
(* Small instances of Scheduler for TLC: three requests that fit together    *)
(* only if they stop early, so that decoding fills memory and retracts.      *)
EXTENDS Scheduler

CONSTANTS r1, r2, r3

\* With these a retracted request always fits again: its input, its outputs
\* and a full max_new_tokens stay below MaxTotal.
SmallInput == (r1 :> 1) @@ (r2 :> 1) @@ (r3 :> 3)
SmallNew == (r1 :> 4) @@ (r2 :> 4) @@ (r3 :> 4)

\* With these a request retracted after two outputs does not.
LargeInput == (r1 :> 3) @@ (r2 :> 1)
LargeNew == (r1 :> 4) @@ (r2 :> 6)
=============================================================================
