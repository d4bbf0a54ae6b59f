----------------------------- MODULE SoftLabelJob -----------------------------
(***************************************************************************)
(* What generating the latent soft labels promises to stage 2: either      *)
(* training starts with the label of every example at the index of the     *)
(* example, or it does not start.  SoftLabelGen implements it.             *)
(***************************************************************************)
EXTENDS Naturals, Sequences

CONSTANT NumExamples   \* len(data)

VARIABLES state,   \* running, training, failed
          labels   \* latent_states of the Stage2Dataset; <<>> before

vars == <<state, labels>>

\* The label computed for the example at index i is written i.
InOrder == [i \in 1..NumExamples |-> i]

Init == state = "running" /\ labels = <<>>

Train == state = "running" /\ state' = "training" /\ labels' = InOrder

Fail == state = "running" /\ state' = "failed" /\ UNCHANGED labels

Next == Train \/ Fail

Spec == Init /\ [][Next]_vars
=============================================================================
