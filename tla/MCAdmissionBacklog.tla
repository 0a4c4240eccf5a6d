------------------------- MODULE MCAdmissionBacklog -------------------------
(***************************************************************************)
(* Instances of AdmissionBacklog for TLC: two jobs of one key or three of  *)
(* two keys, owned by one or two workflows.                                *)
(***************************************************************************)
EXTENDS AdmissionBacklog

CONSTANTS j1, j2, j3, k1, k2, w1, w2

TwoJobs == {j1, j2}
ThreeJobs == {j1, j2, j3}
OneKeyOf == [j \in Jobs |-> k1]
TwoKeysOf == [j \in Jobs |-> IF j = j3 THEN k2 ELSE k1]
OneOwner == [j \in Jobs |-> w1]
OwnerEach == [j \in Jobs |-> IF j = j1 THEN w1 ELSE w2]
=============================================================================
