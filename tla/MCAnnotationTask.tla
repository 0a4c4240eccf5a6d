-------------------------- MODULE MCAnnotationTask --------------------------
(***************************************************************************)
(* An instance of AnnotationTask for TLC: ann submits from two tabs, bob   *)
(* claims and walks away.  A cleanup is for the whole version or for r1.   *)
(***************************************************************************)
EXTENDS AnnotationTask, TLC

CONSTANTS ann, bob, r1, r2

TabOwner == [tab \in Tabs |-> ann]
OldOrAll == {{r1}, Results}
=============================================================================
