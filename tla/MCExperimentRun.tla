-------------------------- MODULE MCExperimentRun --------------------------
(***************************************************************************)
(* Instances of ExperimentRun for TLC: a dataset of two batches.           *)
(***************************************************************************)
EXTENDS ExperimentRun

CONSTANTS s1, s2

TwoBatches == <<{s1}, {s2}>>
=============================================================================
