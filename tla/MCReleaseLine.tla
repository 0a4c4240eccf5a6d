---------------------------- MODULE MCReleaseLine ----------------------------
(***************************************************************************)
(* Instances of ReleaseLine for TLC.  No definition tells one version or   *)
(* one client from another.                                                *)
(***************************************************************************)
EXTENDS ReleaseLine, TLC

Symmetry == Permutations(Versions) \cup Permutations(Clients)
=============================================================================
