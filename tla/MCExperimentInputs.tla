------------------------- MODULE MCExperimentInputs -------------------------
(***************************************************************************)
(* An instance of ExperimentInputs for TLC: the file of one upload has up  *)
(* to two batches, that of the other up to one.  Requests are alike.       *)
(***************************************************************************)
EXTENDS ExperimentInputs, TLC

CONSTANTS u1, u2

TwoAndOne == [u \in Uploads |-> IF u = u1 THEN 2 ELSE 1]

Symmetry == Permutations(Clients)
=============================================================================
