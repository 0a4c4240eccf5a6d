------------------------- MODULE MCOptimizationLoop -------------------------
(***************************************************************************)
(* An instance of OptimizationLoop for TLC.  The starting points differ    *)
(* until the baseline has ended: two of them have the faults that matter   *)
(* there, the third, whose baseline has ended before, has all of them.     *)
(***************************************************************************)
EXTENDS OptimizationLoop, TLC

LoopFaults ==
    [m \in Modes |->
       CASE m = "from_experiment" -> FaultKinds
         [] m = "from_prompt_version" -> {"childstop", "link"}
         [] m = "from_dataset_only" -> {"launch"}]
=============================================================================
