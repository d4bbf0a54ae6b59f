---------------------------- MODULE MCSoftLabelGen ----------------------------
(* A small instance of SoftLabelGen for TLC. *)
EXTENDS SoftLabelGen
=============================================================================
