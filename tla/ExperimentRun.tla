--------------------------- MODULE ExperimentRun ---------------------------
(***************************************************************************)
(* One experiment: API requests that create, stop, resume and retry it,    *)
(* the DBOS workflows that run it, the `llm` jobs of its samples, and the  *)
(* recovery that looks for experiments without a workflow after a restart. *)
(*                                                                         *)
(* A DBOS step, an UPDATE and a BullMQ call are one step each; what the    *)
(* code does between two of them can interleave with every other process.  *)
(* A step in progress starts over when the server restarts, a finished one *)
(* is not repeated.  `queued` stands for the pending backlog and for every *)
(* removable BullMQ state: AdmissionBacklog models what is between them.   *)
(***************************************************************************)
EXTENDS Naturals, Sequences, FiniteSets

CONSTANTS
    Batches,        \* the dataset: a sequence of disjoint sets of samples
    Workflows,      \* workflow ids (exp:<id>:<kind>:<ms>, never used twice)
    Clients,        \* API requests that may be under way at the same time
    Actions,        \* which of the control actions the clients send
    Faults,         \* what may go wrong, of FaultKinds
    MaxFaults,      \* bound: how many of them in one behaviour
    None            \* "no workflow"

Samples == UNION {Batches[i] : i \in DOMAIN Batches}
Recovery == "recovery"
Requests == Clients \cup {Recovery}

\* DBOS.startWorkflow throws; setDbosWorkflowId throws after it; a workflow
\* step throws; a job ends without its row; a batch outlasts its timeout; the
\* server restarts between requests, or in the middle of one, or comes up and
\* cannot look up workflows.
FaultKinds == {"launch", "setid", "step", "lose", "timeout", "restart", "crash", "lookup"}

ASSUME ExperimentAssumption ==
    /\ Batches \in Seq(SUBSET Samples) /\ IsFiniteSet(Samples)
    /\ \A i, k \in DOMAIN Batches : i # k => Batches[i] \cap Batches[k] = {}
    /\ \A i \in DOMAIN Batches : Batches[i] # {}
    /\ IsFiniteSet(Workflows) /\ None \notin Workflows
    /\ Recovery \notin Clients
    /\ Actions \subseteq {"stop", "cancel", "resume", "retry"}
    /\ Faults \subseteq FaultKinds /\ MaxFaults \in Nat

VARIABLES
    status,     \* experiments.status, "none" while there is no row
    control,    \* experiments.control_state
    wfId,       \* experiments.dbos_workflow_id
    processed,  \* experiments.processed_samples, the last snapshot
    job,        \* the sample's `llm` job
    row,        \* the sample's run result
    req,        \* the requests being handled, and the recovery
    wf,         \* the workflows: program counter and locals
    happened    \* history: the faults so far, and "twin", "retry"

expVars == <<status, control, wfId, processed>>
vars == <<expVars, job, row, req, wf, happened>>

IdleRequest == [pc |-> "idle", action |-> "none", new |-> None]
NewWorkflow == [pc |-> "none", batch |-> 1, pending |-> {}, stop |-> FALSE,
                counted |-> {}, todo |-> {}, dropped |-> {}, lost |-> {},
                target |-> {}, kind |-> "none"]

Init ==
    /\ status = "none" /\ control = "none" /\ wfId = None /\ processed = 0
    /\ job = [s \in Samples |-> "absent"]
    /\ row = [s \in Samples |-> "none"]
    /\ req = [c \in Requests |-> IdleRequest]
    /\ wf = [w \in Workflows |-> NewWorkflow]
    /\ happened = {}

Fault(kind) ==
    /\ kind \in Faults \ happened
    /\ Cardinality(happened \cap FaultKinds) < MaxFaults
    /\ happened' = happened \cup {kind}

HasRow == {s \in Samples : row[s] # "none"}

-----------------------------------------------------------------------------
(* ExperimentService and ExperimentLauncher.                                *)

Launches(action) == action \in {"start", "resume", "retry"}

\* Bound: a request that starts a workflow finds an unused id.
CanLaunch ==
    Cardinality({w \in Workflows : wf[w].pc = "none"})
       > Cardinality({c \in Requests : /\ req[c].pc \in {"patch", "launch"}
                                       /\ Launches(req[c].action)})

\* The server listens for requests when its bootstrap, the recovery included,
\* has ended.
Listening == req[Recovery].pc = "idle"

\* createExperiment: the row is running from its first moment.
Create(c) ==
    /\ status = "none"
    /\ req[c].pc = "idle" /\ Listening
    /\ CanLaunch
    /\ status' = "running"
    /\ req' = [req EXCEPT ![c] = [pc |-> "launch", action |-> "start", new |-> None]]
    /\ UNCHANGED <<control, wfId, processed, job, row, wf, happened>>

\* getControlPatch: the statuses an action is accepted in.  A cancel of a
\* running experiment is the same patch as a stop.
AllowedIn(action) ==
    CASE action = "stop" -> {"running"}
      [] action = "cancel" -> {"stopped"}
      [] action = "resume" -> {"stopped"}
      [] action = "retry" -> {"failed", "stopped"}

\* findExperimentById and the check; the UPDATE comes later, without one.
Request(c) ==
    /\ req[c].pc = "idle" /\ Listening
    /\ \E a \in Actions :
         /\ Launches(a) => CanLaunch
         /\ status \in AllowedIn(a)
         /\ req' = [req EXCEPT ![c] = [pc |-> "patch", action |-> a, new |-> None]]
    /\ UNCHANGED <<expVars, job, row, wf, happened>>

StatusPatchedAtOnce(a) == IF a = "stop" THEN "stopped" ELSE "running"
StatusPatched(a) == IF Launches(a) THEN "running" ELSE status

Patch(c) ==
    LET a == req[c].action IN
    /\ req[c].pc = "patch"
    /\ status' = StatusPatched(a)
    /\ control' = IF a \in {"stop", "resume"} THEN a ELSE "none"
    /\ processed' = IF a = "retry" THEN 0 ELSE processed
    /\ req' = [req EXCEPT ![c] = IF Launches(a) THEN [@ EXCEPT !.pc = "launch"] ELSE IdleRequest]
    /\ happened' = happened \cup ({a} \cap {"retry"})
    /\ UNCHANGED <<wfId, job, row, wf>>

Live(w) == wf[w].pc \notin {"none", "done"}

\* DBOS.startWorkflow.
Launch(c) ==
    /\ req[c].pc = "launch"
    /\ \E w \in Workflows :
         /\ wf[w].pc = "none"
         /\ wf' = [wf EXCEPT ![w].pc = "load"]
         /\ req' = [req EXCEPT ![c] = [@ EXCEPT !.pc = "setid", !.new = w]]
    /\ happened' = happened \cup {"twin" : w \in {v \in Workflows : Live(v)}}
    /\ UNCHANGED <<expVars, job, row>>

SetWorkflowId(c) ==
    /\ req[c].pc = "setid"
    /\ wfId' = req[c].new
    /\ req' = [req EXCEPT ![c] = IdleRequest]
    /\ UNCHANGED <<status, control, processed, job, row, wf, happened>>

\* The launcher throws, before or after the workflow was started.  The service
\* writes `failed`, the recovery only logs.
LaunchFails(c) ==
    /\ req[c].pc \in {"launch", "setid"}
    /\ Fault(req[c].pc)
    /\ status' = IF c = Recovery THEN status ELSE "failed"
    /\ control' = IF c = Recovery THEN control ELSE "none"
    /\ req' = [req EXCEPT ![c] = IdleRequest]
    /\ UNCHANGED <<wfId, processed, job, row, wf>>

-----------------------------------------------------------------------------
(* ExperimentWorkflowRegistrar.                                             *)

InStep(w, pc) == wf[w].pc = pc
Locals(w, r) == wf' = [wf EXCEPT ![w] = r]
Goto(w, pc) == Locals(w, [wf[w] EXCEPT !.pc = pc])
Finalizing(w, kind) == Locals(w, [NewWorkflow EXCEPT !.pc = "final", !.kind = kind])

LoadPlan(w) ==
    /\ InStep(w, "load")
    /\ Goto(w, "mark")
    /\ UNCHANGED <<expVars, job, row, req, happened>>

MarkStarted(w) ==
    /\ InStep(w, "mark")
    /\ status' = "running"
    /\ Goto(w, "loop")
    /\ UNCHANGED <<control, wfId, processed, job, row, req, happened>>

AllFailed(w) == wf[w].counted # {} /\ \A s \in wf[w].counted : row[s] = "bad"

\* while (processed < totalSamples): readControlState, or the end of the loop.
NextBatch(w) ==
    /\ InStep(w, "loop")
    /\ \/ /\ wf[w].batch > Len(Batches)
          /\ Finalizing(w, IF AllFailed(w) THEN "failed" ELSE "success")
       \/ /\ wf[w].batch <= Len(Batches) /\ control = "stop"
          /\ Finalizing(w, "stopped")
       \/ /\ wf[w].batch <= Len(Batches) /\ control # "stop"
          /\ Goto(w, IF control = "resume" THEN "clear" ELSE "enqueue")
    /\ UNCHANGED <<expVars, job, row, req, happened>>

\* UPDATE ... WHERE control_state = 'resume'.
ClearAnyControl == TRUE
ClearsControl == control = "resume"

ClearResume(w) ==
    /\ InStep(w, "clear")
    /\ \/ ClearsControl /\ control' = "none" /\ status' = "running"
       \/ ~ClearsControl /\ UNCHANGED <<control, status>>
    /\ Goto(w, "enqueue")
    /\ UNCHANGED <<wfId, processed, job, row, req, happened>>

\* enqueueLlmJob for one sample: a no-op while the backlog's dedupe key or a
\* BullMQ job, finished ones included, has its id.
EnqueueSample(w) ==
    LET left == Batches[wf[w].batch] \ wf[w].pending IN
    /\ InStep(w, "enqueue")
    /\ \/ /\ left # {}
          /\ \E s \in left :
               /\ job' = [job EXCEPT ![s] = IF @ = "absent" THEN "queued" ELSE @]
               /\ Locals(w, [wf[w] EXCEPT !.pending = @ \cup {s}])
       \/ /\ left = {}
          /\ Goto(w, "poll")
          /\ UNCHANGED job
    /\ UNCHANGED <<expVars, row, req, happened>>

\* countBatchTerminal >= pendingRunResultIds.length.
SettledBatch(P) == P \subseteq HasRow

\* The step returns with the counts of the ids that it still awaits, S of
\* which have a row.
StepResult(w, S) == [wf[w] EXCEPT !.pc = "aggregate", !.counted = @ \cup S]

\* A round of the poll loop begins: everything is settled, or time is up.
PollCount(w) ==
    LET P == wf[w].pending IN
    /\ InStep(w, "poll")
    /\ \/ SettledBatch(P) /\ Locals(w, StepResult(w, P \cap HasRow)) /\ UNCHANGED happened
       \/ ~SettledBatch(P) /\ Goto(w, "reconcile") /\ UNCHANGED happened
       \/ Fault("timeout") /\ Locals(w, StepResult(w, P \cap HasRow))
    /\ UNCHANGED <<expVars, job, row, req>>

\* reconcileTerminalBatchJobs: a failed row for each job that BullMQ finished
\* without one.
NothingLost(P) == {}
LostRows(P) == {s \in P : job[s] = "done" /\ row[s] = "none"}

WriteFailed(S) == row' = [s \in Samples |-> IF s \in S /\ row[s] = "none" THEN "bad" ELSE row[s]]

\* When it wrote something, the batch is counted again.
Reconcile(w) ==
    LET P == wf[w].pending
        lost == LostRows(P) IN
    /\ InStep(w, "reconcile")
    /\ WriteFailed(lost)
    /\ Locals(w, IF lost # {} /\ SettledBatch(P \ lost) THEN StepResult(w, P)
                 ELSE [wf[w] EXCEPT !.pc = "control"])
    /\ UNCHANGED <<expVars, job, req, happened>>

\* readControlState; once seen, a stop is remembered for the rest of the step.
AfterControlAtOnce(stop) == IF stop THEN "aggregate" ELSE "poll"
AfterControl(stop) == IF stop THEN "filter" ELSE "poll"

ReadControl(w) ==
    LET stop == wf[w].stop \/ control = "stop" IN
    /\ InStep(w, "control")
    /\ Locals(w, [wf[w] EXCEPT !.stop = stop, !.pc = AfterControl(stop)])
    /\ UNCHANGED <<expVars, job, row, req, happened>>

\* cleanupStoppedBatchJobs: findBatchTerminalIds decides what is cleaned up.
FilterBatch(w) ==
    /\ InStep(w, "filter")
    /\ Locals(w, [wf[w] EXCEPT !.pc = "clean", !.todo = wf[w].pending \ HasRow])
    /\ UNCHANGED <<expVars, job, row, req, happened>>

\* cleanupStoppedLlmJobs, job by job: getState.
InspectJob(w) ==
    /\ InStep(w, "clean")
    /\ \E s \in wf[w].todo :
         LET l == [wf[w] EXCEPT !.todo = @ \ {s}] IN
         Locals(w, CASE job[s] = "absent" -> [l EXCEPT !.dropped = @ \cup {s}]
                     [] job[s] = "active" -> l
                     [] job[s] = "queued" -> [l EXCEPT !.pc = "remove", !.target = {s}]
                     [] job[s] = "done" -> [l EXCEPT !.pc = "remove", !.target = {s},
                                                     !.lost = @ \cup {s}])
    /\ UNCHANGED <<expVars, job, row, req, happened>>

\* ... then job.remove(), which a worker's lock refuses, and the dedupe key.
RemoveJob(w) ==
    /\ InStep(w, "remove")
    /\ \E s \in wf[w].target :
         LET l == [wf[w] EXCEPT !.pc = "clean", !.target = {}] IN
         \/ /\ job[s] = "active"
            /\ Locals(w, l)
            /\ UNCHANGED job
         \/ /\ job[s] # "active"
            /\ job' = [job EXCEPT ![s] = "absent"]
            /\ Locals(w, IF s \in wf[w].lost THEN l ELSE [l EXCEPT !.dropped = @ \cup {s}])
    /\ UNCHANGED <<expVars, row, req, happened>>

\* The control that the step returns after a cleanup that leaves P awaited.
StopReturned(w, P) == wf[w].stop

\* The rows of the terminal jobs are written when all jobs have been looked
\* at, and the dropped ones are no longer awaited.
EndCleanup(w) ==
    LET P == wf[w].pending \ wf[w].dropped IN
    /\ InStep(w, "clean")
    /\ wf[w].todo = {}
    /\ WriteFailed(wf[w].lost)
    /\ Locals(w, [wf[w] EXCEPT !.pc = IF P = {} THEN "aggregate" ELSE "poll",
                               !.stop = StopReturned(w, P),
                               !.pending = P, !.dropped = {}, !.lost = {}])
    /\ UNCHANGED <<expVars, job, req, happened>>

\* aggregateMetrics writes the snapshot, then the loop decides.
SnapshotOfAnswers == Cardinality({s \in Samples : row[s] = "good"})
Snapshot == Cardinality(HasRow)

Aggregate(w) ==
    /\ InStep(w, "aggregate")
    /\ processed' = Snapshot
    /\ \/ wf[w].stop /\ Finalizing(w, "stopped")
       \/ ~wf[w].stop /\ Locals(w, [wf[w] EXCEPT !.pc = "loop", !.pending = {},
                                                 !.batch = @ + 1])
    /\ UNCHANGED <<status, control, wfId, job, row, req, happened>>

Finalize(w) ==
    /\ InStep(w, "final")
    /\ status' = wf[w].kind
    /\ control' = "none"
    /\ Locals(w, [NewWorkflow EXCEPT !.pc = "done"])
    /\ UNCHANGED <<wfId, processed, job, row, req, happened>>

\* A step throws: the catch block finalizes `failed`.
WorkflowError(w) ==
    /\ wf[w].pc \notin {"none", "final", "done"}
    /\ Fault("step")
    /\ Finalizing(w, "failed")
    /\ UNCHANGED <<expVars, job, row, req>>

-----------------------------------------------------------------------------
(* Workers and restarts.                                                    *)

StartJob(s) ==
    /\ job[s] = "queued"
    /\ job' = [job EXCEPT ![s] = "active"]
    /\ UNCHANGED <<expVars, row, req, wf, happened>>

\* The job is answered, or has used up its attempts; the first row stands.
EndJob(s) ==
    /\ job[s] = "active"
    /\ job' = [job EXCEPT ![s] = "done"]
    /\ row' \in {[row EXCEPT ![s] = IF @ = "none" THEN r ELSE @] : r \in {"good", "bad"}}
    /\ UNCHANGED <<expVars, req, wf, happened>>

\* Another attempt, or a rate limit.
RequeueJob(s) ==
    /\ job[s] = "active"
    /\ job' = [job EXCEPT ![s] = "queued"]
    /\ UNCHANGED <<expVars, row, req, wf, happened>>

\* The final 'failed' event is missed, or its row could not be written.
LoseResult(s) ==
    /\ job[s] = "active"
    /\ Fault("lose")
    /\ job' = [job EXCEPT ![s] = "done"]
    /\ UNCHANGED <<expVars, row, req, wf>>

\* The step in progress starts over with its inputs.
Replayed(l) ==
    IF l.pc \in {"none", "load", "mark", "loop", "clear", "aggregate", "final", "done"} THEN l
    ELSE IF l.pc = "enqueue" THEN [l EXCEPT !.pending = {}]
    ELSE [l EXCEPT !.pc = "poll", !.pending = Batches[l.batch], !.stop = FALSE,
                   !.todo = {}, !.dropped = {}, !.lost = {}, !.target = {}]

\* The server restarts: requests are lost, DBOS takes up the workflows that
\* have not ended, and the recovery begins.
Restart ==
    /\ \/ (Fault("restart") \/ Fault("lookup")) /\ \A c \in Requests : req[c].pc = "idle"
       \/ Fault("crash") /\ \E c \in Requests : req[c].pc # "idle"
    /\ req' = [c \in Requests |->
                 IF c = Recovery THEN [IdleRequest EXCEPT !.pc = "scan"] ELSE IdleRequest]
    /\ wf' = [w \in Workflows |-> Replayed(wf[w])]
    /\ UNCHANGED <<expVars, job, row>>

\* recoverActiveExperiments: a running row whose workflow DBOS has finished
\* with, or does not tell, gets a new one; a row without a workflow id is not
\* looked at.
Orphaned ==
    /\ status = "running" /\ wfId # None
    /\ wf[wfId].pc = "done" \/ "lookup" \in happened

Recover ==
    /\ req[Recovery].pc = "scan"
    /\ \/ /\ Orphaned /\ CanLaunch
          /\ req' = [req EXCEPT ![Recovery] = [@ EXCEPT !.pc = "launch", !.action = "resume"]]
       \/ ~Orphaned /\ req' = [req EXCEPT ![Recovery] = IdleRequest]
    /\ UNCHANGED <<expVars, job, row, wf, happened>>

-----------------------------------------------------------------------------
Serve(c) == Patch(c) \/ Launch(c) \/ SetWorkflowId(c)

Poll(w) ==
    \/ PollCount(w) \/ Reconcile(w) \/ ReadControl(w)
    \/ FilterBatch(w) \/ InspectJob(w) \/ RemoveJob(w) \/ EndCleanup(w)

Run(w) ==
    \/ LoadPlan(w) \/ MarkStarted(w) \/ NextBatch(w) \/ ClearResume(w)
    \/ EnqueueSample(w) \/ Poll(w) \/ Aggregate(w) \/ Finalize(w)

Next ==
    \/ \E c \in Clients : Create(c) \/ Request(c)
    \/ \E c \in Requests : Serve(c) \/ LaunchFails(c)
    \/ \E w \in Workflows : Run(w) \/ WorkflowError(w)
    \/ \E s \in Samples : StartJob(s) \/ EndJob(s) \/ RequeueJob(s) \/ LoseResult(s)
    \/ Restart \/ Recover

Spec == Init /\ [][Next]_vars

\* Requests, workflows, workers and the recovery keep going; a job is answered
\* or runs out of attempts sooner or later.
Fairness ==
    /\ \A c \in Requests : WF_vars(Serve(c))
    /\ \A w \in Workflows : WF_vars(Run(w))
    /\ \A s \in Samples : WF_vars(StartJob(s)) /\ SF_vars(EndJob(s))
    /\ WF_vars(Recover)

FairSpec == Spec /\ Fairness

-----------------------------------------------------------------------------
(* Properties.                                                              *)

Pcs == {"none", "load", "mark", "loop", "clear", "enqueue", "poll", "reconcile",
        "control", "filter", "clean", "remove", "aggregate", "final", "done"}

RequestType ==
    [pc : {"idle", "patch", "launch", "setid", "scan"},
     action : {"none", "start", "stop", "cancel", "resume", "retry"}, new : Workflows \cup {None}]
WorkflowType ==
    [pc : Pcs, batch : 1..(Len(Batches) + 1), pending : SUBSET Samples, stop : BOOLEAN,
     counted : SUBSET Samples, todo : SUBSET Samples, dropped : SUBSET Samples,
     lost : SUBSET Samples, target : SUBSET Samples,
     kind : {"none", "success", "failed", "stopped"}]

\* The shape of the experiment's row, of its requests and of its workflows.
TypeOK ==
    /\ status \in {"none", "running", "success", "failed", "stopped"}
    /\ control \in {"none", "stop", "resume"}
    /\ wfId \in Workflows \cup {None}
    /\ processed \in 0..Cardinality(Samples)
    /\ job \in [Samples -> {"absent", "queued", "active", "done"}]
    /\ row \in [Samples -> {"none", "good", "bad"}]
    /\ req \in [Requests -> RequestType]
    /\ wf \in [Workflows -> WorkflowType]
    /\ happened \subseteq FaultKinds \cup {"twin", "retry"}

\* 24-experiments.md, section 7: a stop removes what has not started and waits
\* for what has, so no result is still to come once the status is stopped; and
\* no two workflows run the experiment, also not around a stop.  A batch
\* that was left behind by a timeout or a failed step has jobs that are still to
\* run; a second workflow is started when the first one's id was not stored, or
\* could not be looked up.
StoppedIsSettled ==
    /\ status = "stopped" /\ happened \cap {"timeout", "step", "setid", "twin"} = {} =>
          \A s \in Samples : job[s] \in {"queued", "active"} => row[s] # "none"
    /\ happened \cap {"setid", "crash", "lookup"} = {} =>
          \A v, w \in Workflows : Live(v) /\ Live(w) => v = w

\* 24-experiments.md, section 4: the stopped progress snapshot counts every
\* completed or failed sample, unless a batch was left behind by a timeout or
\* a failed step, the row says failed while its workflow goes on, two
\* workflows met, or a retry began the count anew.  And an experiment that
\* reports success has a result for every sample, unless a batch outlasted its
\* timeout: none was dropped with a removed job, skipped by a resume, or lost
\* with its event, after a crash and with two workflows at work all the same.
SnapshotExact ==
    /\ status \in {"stopped", "success"}
          /\ happened \cap {"timeout", "step", "setid", "twin", "retry"} = {}
       => processed = Cardinality(HasRow)
    /\ status = "success" /\ "timeout" \notin happened => HasRow = Samples

\* A stop that was accepted while the experiment runs is never wiped out by
\* anything but the end of the run, unless two workflows met.
StopIsHeard ==
    [][status = "running" /\ control = "stop" /\ control' # "stop" /\ "twin" \notin happened
         => status' # "running"]_vars

\* The status and the rows behave as the life cycle of ExperimentLifecycle.
LostEachOther == happened \cap {"timeout", "step", "setid", "crash", "lookup"} # {}
Lifecycle == INSTANCE ExperimentLifecycle WITH settled <- HasRow, astray <- LostEachOther

ImplementsLifecycle == Lifecycle!Spec

\* An experiment that runs comes to an end, also when it is stopped, when rows
\* get lost, or when a step fails; a server that crashes before it has stored
\* the workflow id leaves a row behind that nobody runs.
RunningEnds == status = "running" ~> (status # "running" \/ "crash" \in happened)
=============================================================================
