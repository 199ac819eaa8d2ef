-------------------------- MODULE MCExperimentRun --------------------------
(* Instances of ExperimentRun for TLC. *)
EXTENDS ExperimentRun, TLC
=============================================================================
