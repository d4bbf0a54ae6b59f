------------------------ MODULE MCCheckpointRetention ------------------------
(* Small instances of CheckpointRetention for TLC. *)
EXTENDS CheckpointRetention
=============================================================================
