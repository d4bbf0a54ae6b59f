------------------------- MODULE CheckpointRetention -------------------------
(***************************************************************************)
(* Which training checkpoints survive: Trainer._save_checkpoint, then      *)
(* validation, which writes the accuracy into the checkpoint, then         *)
(* rotation (src/checkpointing.py), with crashes between any two of these  *)
(* steps and restarts from a checkpoint.                                   *)
(*                                                                         *)
(* log_history is abstracted to the last validation accuracy in it, which  *)
(* is all _read_checkpoint_metric reads: every entry a checkpoint holds    *)
(* was logged at its own step or before.                                   *)
(***************************************************************************)
EXTENDS Naturals, FiniteSets, FiniteSetsExt

CONSTANTS MaxStep,      \* bound: number of saves of a whole training
          Accuracies,   \* the values validation may measure
          NoMetric,     \* None
          BestLimit,    \* save_best_total_limit
          RecentLimit,  \* save_recent_total_limit
          Restarts      \* "newest": resume from the newest checkpoint,
                        \* "scratch": start again with --overwrite_output_dir

ASSUME AccuraciesAssumption == Accuracies \subseteq Nat /\ NoMetric \notin Nat
ASSUME LimitsAssumption == {MaxStep, BestLimit, RecentLimit} \subseteq Nat
ASSUME RestartsAssumption == Restarts \subseteq {"newest", "scratch"}

VARIABLES pc,           \* train, save, validate, rotate, delete, down
          global_step,  \* trainer.state.global_step, in saves
          logged,       \* last validation_accuracy in trainer.state.log_history
          dirs,         \* the checkpoint-<step> directories
          doomed        \* the directories rotation has still to delete
vars == <<pc, global_step, logged, dirs, doomed>>

\* A directory: the accuracy its trainer_state.json shows, whether all its
\* files are there, and the accuracy its weights really have once validated.
Dir(metric, whole, measured) == [metric |-> metric, whole |-> whole, measured |-> measured]

Metrics == Accuracies \cup {NoMetric}

TypeOK ==
  /\ pc \in {"train", "save", "validate", "rotate", "delete", "down"}
  /\ global_step \in 0..MaxStep
  /\ logged \in Metrics
  /\ DOMAIN dirs \subseteq 1..MaxStep
  /\ \A s \in DOMAIN dirs : dirs[s] \in [metric : Metrics, whole : BOOLEAN, measured : Metrics]
  /\ doomed \subseteq DOMAIN dirs

Init ==
  /\ pc = "train" /\ global_step = 0 /\ logged = NoMetric
  /\ dirs = [s \in {} |-> Dir(NoMetric, FALSE, NoMetric)]
  /\ doomed = {}

With(s, d) == [q \in DOMAIN dirs \cup {s} |-> IF q = s THEN d ELSE dirs[q]]

Without(s) == [q \in DOMAIN dirs \ {s} |-> dirs[q]]
-----------------------------------------------------------------------------
(* Trainer._save_checkpoint: the weights, then trainer_state.json; what an *)
(* earlier run left in the directory stays until it is overwritten.        *)

BeginSave ==
  /\ pc = "train" /\ global_step < MaxStep
  /\ global_step' = global_step + 1
  /\ dirs' = With(global_step', Dir(IF global_step' \in DOMAIN dirs THEN dirs[global_step'].metric
                                    ELSE NoMetric, FALSE, NoMetric))
  /\ pc' = "save"
  /\ UNCHANGED <<logged, doomed>>

EndSave ==
  /\ pc = "save"
  /\ dirs' = With(global_step, Dir(logged, TRUE, NoMetric))
  /\ pc' = "validate"
  /\ UNCHANGED <<global_step, logged, doomed>>

\* update_checkpoint_validation_accuracy up to the rotation.
Validate(accuracy) ==
  /\ pc = "validate"
  /\ logged' = accuracy
  /\ dirs' = With(global_step, Dir(accuracy, dirs[global_step].whole, accuracy))
  /\ pc' = "rotate"
  /\ UNCHANGED <<global_step, doomed>>
-----------------------------------------------------------------------------
(* rotate_best_and_recent_checkpoints.                                     *)

\* Mutant: checkpoints[:recent_total_limit].
RecentOldest == {s \in DOMAIN dirs : Cardinality({q \in DOMAIN dirs : q < s}) < RecentLimit}

Recent == {s \in DOMAIN dirs : Cardinality({q \in DOMAIN dirs : q > s}) < RecentLimit}

\* Mutant: sorted without reverse.
RanksBeforeAscending(q, s) ==
  \/ dirs[q].metric < dirs[s].metric
  \/ dirs[q].metric = dirs[s].metric /\ q < s

\* The order of metric_checkpoints, sorted in reverse (greater_is_better).
RanksBefore(q, s) ==
  \/ dirs[q].metric > dirs[s].metric
  \/ dirs[q].metric = dirs[s].metric /\ q > s

Best ==
  LET ranked == {s \in DOMAIN dirs : dirs[s].metric # NoMetric}
  IN  {s \in ranked : Cardinality({q \in ranked : RanksBefore(q, s)}) < BestLimit}

\* Mutant: only the worst directory is deleted, as a rotation by one would.
SelectOne ==
  /\ pc = "rotate"
  /\ doomed' = LET out == DOMAIN dirs \ (Recent \cup Best)
               IN  IF out = {} THEN {} ELSE {Max(out)}
  /\ pc' = "delete"
  /\ UNCHANGED <<global_step, logged, dirs>>

Select ==
  /\ pc = "rotate"
  /\ doomed' = DOMAIN dirs \ (Recent \cup Best)
  /\ pc' = "delete"
  /\ UNCHANGED <<global_step, logged, dirs>>

\* Mutant: the directory stays on the list.
DeleteKeepsList ==
  /\ pc = "delete" /\ doomed # {}
  /\ dirs' = Without(Min(doomed))
  /\ UNCHANGED <<pc, global_step, logged, doomed>>

\* rmtree, in the order of the steps.
DeleteNext ==
  /\ pc = "delete" /\ doomed # {}
  /\ dirs' = Without(Min(doomed))
  /\ doomed' = doomed \ {Min(doomed)}
  /\ UNCHANGED <<pc, global_step, logged>>

EndRotation ==
  /\ pc = "delete" /\ doomed = {}
  /\ pc' = "train"
  /\ UNCHANGED <<global_step, logged, dirs, doomed>>
-----------------------------------------------------------------------------
(* Crashes and restarts.                                                   *)

\* rmtree may have removed any part of the directory it was at.
Crash ==
  /\ pc # "down"
  /\ pc' = "down"
  /\ doomed' = {}
  /\ \/ dirs' = dirs
     \/ /\ doomed # {}
        /\ \E metric \in {dirs[Min(doomed)].metric, NoMetric} :
             dirs' = With(Min(doomed), [dirs[Min(doomed)] EXCEPT !.metric = metric, !.whole = FALSE])
  /\ UNCHANGED <<global_step, logged>>

Resumable(s) == s \in DOMAIN dirs /\ dirs[s].whole

\* --resume_from_checkpoint: the trainer state is read back.
Resume(s) ==
  /\ pc = "down" /\ "newest" \in Restarts
  /\ Resumable(s) /\ \A q \in DOMAIN dirs : Resumable(q) => q <= s
  /\ global_step' = s
  /\ logged' = dirs[s].metric
  /\ pc' = "train"
  /\ UNCHANGED <<dirs, doomed>>

\* A new training in the same output_dir, or the first one crashed at once.
Scratch ==
  /\ pc = "down"
  /\ "scratch" \in Restarts \/ \A s \in DOMAIN dirs : ~Resumable(s)
  /\ global_step' = 0
  /\ logged' = NoMetric
  /\ pc' = "train"
  /\ UNCHANGED <<dirs, doomed>>

Next ==
  \/ BeginSave \/ EndSave
  \/ \E accuracy \in Accuracies : Validate(accuracy)
  \/ Select \/ DeleteNext \/ EndRotation
  \/ Crash
  \/ \E s \in 1..MaxStep : Resume(s)
  \/ Scratch

Spec == Init /\ [][Next]_vars
-----------------------------------------------------------------------------
(* Properties.                                                             *)

\* While it trains, the run can be resumed from the step it has reached: its
\* own last checkpoint is whole and was not rotated away, whatever crashes
\* and half-finished saves and deletions came before.
LastSaveResumable == pc = "train" /\ global_step > 0 => Resumable(global_step)

\* What a completed rotation leaves is whole: no directory that an earlier
\* crash left half saved or half deleted is ever kept as best or recent, and
\* the limits of arguments.py (l.64 and l.67) bound what is left.
KeptAreWhole ==
  pc = "delete" /\ doomed = {} =>
    /\ \A s \in DOMAIN dirs : dirs[s].whole
    /\ Cardinality(DOMAIN dirs) <= BestLimit + RecentLimit

\* A directory is deleted only when save_best_total_limit others that stay
\* show an accuracy at least as high.
KeepsBestShown ==
  [][\A s \in DOMAIN dirs \ DOMAIN dirs' :
       dirs[s].metric # NoMetric =>
         Cardinality({q \in DOMAIN dirs' : dirs'[q].metric # NoMetric
                                           /\ dirs'[q].metric >= dirs[s].metric}) >= BestLimit]_vars

\* save_best_total_limit (arguments.py l.64): the best validation-accuracy
\* checkpoints are kept.  As above, of the accuracies really measured.
KeepsBestMeasured ==
  [][\A s \in DOMAIN dirs \ DOMAIN dirs' :
       dirs[s].measured # NoMetric =>
         Cardinality({q \in DOMAIN dirs' : dirs'[q].measured # NoMetric
                                           /\ dirs'[q].measured >= dirs[s].measured}) >= BestLimit]_vars
=============================================================================
