--------------------------- MODULE MCReleaseRunner ---------------------------
(***************************************************************************)
(* Instances of ReleaseRunner for TLC.                                     *)
(***************************************************************************)
EXTENDS ReleaseRunner, TLC

\* Every event selects another message.
OtherHits == [e \in 1..2 |-> {e}]

\* A canary in split mode and two consumer groups make the most states, a
\* stream tells no more than Kafka about a pause, and what synchronous calls
\* add needs no faults.
Kind(d, m, lane) ==
    [driver |-> d, mode |-> m, laneOf |-> [e \in 1..2 |-> IF e = 1 THEN "production" ELSE lane]]
TestedFailures ==
    Kind("kafka", "split", "production") :> FailureKinds
    @@ Kind("kafka", "split", "canary") :> {"crash"}
    @@ Kind("kafka", "dual_run", "canary") :> {}
    @@ Kind("stream", "dual_run", "canary") :> FailureKinds \ {"pause"}
    @@ Kind("async", "split", "production") :> FailureKinds
    @@ Kind("sync", "split", "production") :> {}
TestedLines == DOMAIN TestedFailures
SynchronousCalls == {Kind("sync", "split", "canary")}
NoFailures == [l \in Lines |-> {}]
=============================================================================
