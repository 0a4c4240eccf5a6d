------------------------ MODULE ExperimentLifecycle ------------------------
(***************************************************************************)
(* What an experiment promises its users (24-experiments.md, section 5):   *)
(* its status moves only along created -> running -> success | failed |    *)
(* stopped and back to running when it is resumed or retried; results are  *)
(* append-only, success means a result for every sample, and a stopped or  *)
(* successful experiment produces no more of them.  Once a failure has     *)
(* made the row and the run lose each other the status may go astray, but  *)
(* the experiment and its results stay.                                    *)
(***************************************************************************)
EXTENDS Naturals

CONSTANT Samples

VARIABLES
    status,     \* "none" before the experiment exists
    settled,    \* the samples that have a result
    astray      \* the row and the run have lost each other

vars == <<status, settled, astray>>

Init == status = "none" /\ settled = {} /\ astray = FALSE

Create == status = "none" /\ status' = "running" /\ UNCHANGED <<settled, astray>>

\* Jobs that a failed run left in the queue may still finish.
Settle ==
    /\ status \in {"running", "failed"}
    /\ \E S \in SUBSET (Samples \ settled) : settled' = settled \cup S
    /\ UNCHANGED <<status, astray>>

End ==
    /\ status = "running"
    /\ status' \in {"failed", "stopped"}
                     \cup {s \in {"success"} : settled = Samples}
    /\ UNCHANGED <<settled, astray>>

RunAgain ==
    /\ status \in {"stopped", "failed"}
    /\ status' = "running"
    /\ UNCHANGED <<settled, astray>>

Stray ==
    /\ astray' = TRUE
    /\ status' \in {status, "running", "success", "failed", "stopped"}
    /\ \E S \in SUBSET (Samples \ settled) : settled' = settled \cup S

Next == Create \/ Settle \/ End \/ RunAgain \/ Stray

Spec == Init /\ [][Next]_vars
=============================================================================
