------------------------ MODULE ExperimentRunProofs ------------------------
(***************************************************************************)
(* Proofs about ExperimentRun, for any dataset and any number of workflow  *)
(* ids, clients and faults.                                                *)
(***************************************************************************)
EXTENDS ExperimentRun, SequenceTheorems, FiniteSetTheorems, TLAPS

-----------------------------------------------------------------------------
(* Where a workflow is in its batch.                                        *)

Polling == {"poll", "reconcile", "control", "filter", "clean", "remove"}
Busy == Polling \cup {"enqueue", "aggregate"}

\* The samples whose jobs the step in progress has enqueued, or will, and whose
\* rows it waits for.
Awaits(l) ==
    IF l.pc = "enqueue" THEN Batches[l.batch]
    ELSE IF l.pc \in Polling THEN l.pending ELSE {}

\* The locals of a workflow fit its program counter: a batch is polled whole
\* until a stop is seen, and what a cleanup handles belongs to the batch.
Fit(l) ==
    /\ l.pc \in {"none", "load", "mark"} => l.batch = 1
    /\ l.pc \in {"none", "load", "mark", "loop", "clear", "final", "done"} => l.pending = {}
    /\ l.pc \in {"none", "load", "mark", "loop", "clear", "enqueue"} => ~l.stop
    /\ l.pc \in Busy \cup {"clear"} => l.batch <= Len(Batches) /\ l.pending \subseteq Batches[l.batch]
    /\ l.pc \in {"poll", "reconcile", "control"} /\ ~l.stop => l.pending = Batches[l.batch]
    /\ l.pc \in {"filter", "clean", "remove"} => l.stop
    /\ l.todo \cup l.target \cup l.lost \cup l.dropped \subseteq l.pending
    /\ l.pc # "remove" => l.target = {}
    /\ l.pc \notin {"clean", "remove"} => l.todo = {} /\ l.lost = {} /\ l.dropped = {}
    /\ l.pc = "final" => l.kind # "none"

Fits == \A w \in Workflows : Fit(wf[w])

Shape == TypeOK /\ Fits

\* Every batch before the one in progress has its rows.
Covers(l) ==
    /\ \A i \in 1..(l.batch - 1) : Batches[i] \subseteq HasRow
    /\ l.pc = "aggregate" /\ ~l.stop => Batches[l.batch] \subseteq HasRow
    /\ l.pc = "final" /\ l.kind = "success" => HasRow = Samples

LEMMA BatchFacts ==
  /\ Len(Batches) \in Nat
  /\ \A i \in 1..Len(Batches) : Batches[i] \subseteq Samples
  /\ \A s \in Samples : \E i \in 1..Len(Batches) : s \in Batches[i]
<1>1. Batches \in Seq(SUBSET Samples)
  BY ExperimentAssumption
<1>2. Len(Batches) \in Nat /\ DOMAIN Batches = 1..Len(Batches)
  BY <1>1, LenProperties
<1>3. \A i \in 1..Len(Batches) : Batches[i] \in SUBSET Samples
  BY <1>1, ElementOfSeq
<1> QED BY <1>2, <1>3 DEF Samples

LEMMA Counts == Cardinality(HasRow) \in 0..Cardinality(Samples)
<1>1. HasRow \in SUBSET Samples
  BY DEF HasRow
<1>2. /\ Cardinality(HasRow) \in Nat /\ Cardinality(Samples) \in Nat
      /\ Cardinality(HasRow) <= Cardinality(Samples)
  BY <1>1, ExperimentAssumption, FS_Subset, FS_CardinalityType
<1> QED BY <1>2

\* What every step of a workflow w does, r being the locals it leaves.
Turn(w, r) ==
    /\ r \in WorkflowType /\ Fit(r) /\ Locals(w, r) /\ Live(w)
    /\ UNCHANGED <<wfId, req>>
    /\ r.pc # "none"
    /\ wf[w].pc = "load" => r.pc \in {"mark", "final"}
    /\ r.pc = "load" => FALSE
    /\ r.pc = "mark" => wf[w].pc = "load"
    /\ wf[w].pc = "mark" => (r.pc = "final" /\ UNCHANGED status) \/ status' = "running"
    /\ wf[w].pc = "final" <=> r.pc = "done"
    \* the row of the experiment
    /\ \/ UNCHANGED <<status, control>>
       \/ wf[w].pc = "mark" /\ status' = "running" /\ UNCHANGED control
       \/ wf[w].pc = "clear" /\ control = "resume" /\ control' = "none" /\ status' = "running"
       \/ wf[w].pc = "final" /\ status' = wf[w].kind /\ control' = "none"
    /\ wf[w].pc = "final" => status' = wf[w].kind /\ control' = "none"
    \* the rows of the results stand; new ones are written while it polls
    /\ row' \in [Samples -> {"none", "good", "bad"}]
    /\ \A s \in Samples : row[s] # "none" => row'[s] # "none"
    /\ wf[w].pc \in Polling \/ UNCHANGED row
    /\ happened' \in {happened, happened \cup {"timeout"}, happened \cup {"step"}}
    \* no sample is forgotten, if the jobs to be dropped are gone
    /\ /\ happened' \cap {"timeout", "step"} = {}
       /\ \A s \in wf[w].dropped : job[s] = "absent"
       => \A s \in Awaits(wf[w]) : s \in Awaits(r) \/ row'[s] # "none" \/ job'[s] = "absent"
    /\ job' \in [Samples -> {"absent", "queued", "active", "done"}]
    /\ \A s \in Samples : \/ job'[s] = job[s] \/ job'[s] = "absent"
                          \/ job[s] = "absent" /\ s \in Awaits(r) /\ r.dropped = {}
    /\ (\A s \in wf[w].dropped : job[s] = "absent") => \A s \in r.dropped : job'[s] = "absent"
    /\ "timeout" \notin happened' /\ Covers(wf[w]) => Covers(r)'
    \* the snapshot
    /\ \/ processed' = Cardinality(HasRow) /\ UNCHANGED row
       \/ UNCHANGED processed /\ (wf[w].pc \in Busy => r.pc \in Busy \/ "step" \in happened')

LEMMA Grows ==
  ASSUME \A s \in Samples : row[s] # "none" => row'[s] # "none"
  PROVE  HasRow \subseteq HasRow'
BY DEF HasRow

LEMMA CoversStays ==
  ASSUME \A s \in Samples : row[s] # "none" => row'[s] # "none", NEW l, Covers(l),
         \A i \in 1..Len(Batches) : Batches[i] \subseteq Samples
  PROVE  Covers(l)'
BY Grows DEF Covers, HasRow

\* Going on to another place in the code, and to the end.
LEMMA Goes ==
  ASSUME Shape, NEW w \in Workflows, NEW p \in Pcs
  PROVE  LET r == [wf[w] EXCEPT !.pc = p] IN
         /\ r \in WorkflowType /\ r.pc = p /\ r.batch = wf[w].batch /\ r.pending = wf[w].pending
         /\ r.stop = wf[w].stop /\ r.todo = wf[w].todo /\ r.target = wf[w].target
         /\ r.lost = wf[w].lost /\ r.dropped = wf[w].dropped /\ r.kind = wf[w].kind
<1>1. wf[w] \in WorkflowType
  BY DEF Shape, TypeOK
<1> QED BY <1>1 DEF WorkflowType

LEMMA NewFacts ==
  /\ NewWorkflow \in WorkflowType /\ NewWorkflow.pc = "none" /\ NewWorkflow.batch = 1
  /\ NewWorkflow.pending = {} /\ NewWorkflow.stop = FALSE /\ NewWorkflow.todo = {}
  /\ NewWorkflow.target = {} /\ NewWorkflow.lost = {} /\ NewWorkflow.dropped = {}
<1>1. 1 \in 1..(Len(Batches) + 1)
  BY BatchFacts
<1> QED BY <1>1 DEF NewWorkflow, WorkflowType, Pcs

LEMMA Ends ==
  ASSUME NEW p \in {"final", "done"}, NEW k \in {"none", "success", "failed", "stopped"}
  PROVE  LET r == [NewWorkflow EXCEPT !.pc = p, !.kind = k] IN
         /\ r \in WorkflowType /\ r.pc = p /\ r.kind = k /\ r.batch = 1 /\ r.pending = {}
         /\ r.stop = FALSE /\ r.todo = {} /\ r.target = {} /\ r.lost = {} /\ r.dropped = {}
<1>1. 1 \in 1..(Len(Batches) + 1)
  BY BatchFacts
<1> QED BY <1>1 DEF NewWorkflow, WorkflowType, Pcs

LEMMA InitShape == Init => Shape
<1> SUFFICES ASSUME Init PROVE Shape
  OBVIOUS
<1>1. Fit(NewWorkflow)
  BY NewFacts DEF Fit, Busy, Polling
<1>2. Fits
  BY <1>1 DEF Init, Fits
<1>3. 0 \in 0..Cardinality(Samples)
  BY ExperimentAssumption, FS_CardinalityType
<1>4. req \in [Requests -> RequestType]
  <2>1. IdleRequest \in RequestType
    BY DEF IdleRequest, RequestType
  <2> QED BY <2>1 DEF Init
<1>5. TypeOK
  BY <1>3, <1>4, NewFacts DEF Init, TypeOK
<1> QED BY <1>2, <1>5 DEF Shape

\* The part that the steps share which write no row, job or snapshot.
LEMMA PlainTurn ==
  ASSUME Shape, NEW w \in Workflows, NEW r \in WorkflowType, Fit(r), Locals(w, r), Live(w),
         UNCHANGED <<wfId, req, processed, job, row>>,
         happened' \in {happened, happened \cup {"step"}},
         r.pc \notin {"none", "load"}, r.pc = "mark" => wf[w].pc = "load",
         wf[w].pc = "load" => r.pc \in {"mark", "final"}, wf[w].pc = "final" <=> r.pc = "done",
         wf[w].pc = "mark" => (r.pc = "final" /\ UNCHANGED status) \/ status' = "running",
         \/ UNCHANGED <<status, control>>
         \/ wf[w].pc = "mark" /\ status' = "running" /\ UNCHANGED control
         \/ wf[w].pc = "clear" /\ control = "resume" /\ control' = "none" /\ status' = "running"
         \/ wf[w].pc = "final" /\ status' = wf[w].kind /\ control' = "none",
         wf[w].pc = "final" => status' = wf[w].kind /\ control' = "none",
         "step" \notin happened' => \A s \in Awaits(wf[w]) : s \in Awaits(r),
         \A s \in r.dropped : s \in wf[w].dropped \/ job[s] = "absent",
         "timeout" \notin happened' /\ Covers(wf[w]) => Covers(r),
         wf[w].pc \in Busy => r.pc \in Busy \/ "step" \in happened'
  PROVE  Turn(w, r)
<1>1. job' \in [Samples -> {"absent", "queued", "active", "done"}] /\ row' \in [Samples -> {"none", "good", "bad"}]
  BY DEF Shape, TypeOK
<1>2. Covers(r)' <=> Covers(r)
  BY DEF Covers, HasRow
<1> QED BY <1>1, <1>2 DEF Turn

LEMMA PlainSteps ==
  ASSUME Shape, NEW w \in Workflows,
         LoadPlan(w) \/ MarkStarted(w) \/ NextBatch(w) \/ ClearResume(w) \/ ReadControl(w)
  PROVE  \E r : Turn(w, r)
<1>0. wf[w] \in WorkflowType /\ Fit(wf[w])
  BY DEF Shape, TypeOK, Fits
<1>1. CASE LoadPlan(w)
  <2> DEFINE r == [wf[w] EXCEPT !.pc = "mark"]
  <2>1. /\ r \in WorkflowType /\ r.pc = "mark" /\ r.batch = wf[w].batch /\ r.pending = wf[w].pending
        /\ r.stop = wf[w].stop /\ r.todo = wf[w].todo /\ r.target = wf[w].target
        /\ r.lost = wf[w].lost /\ r.dropped = wf[w].dropped /\ r.kind = wf[w].kind
    BY Goes DEF Pcs
  <2>2. Locals(w, r) /\ wf[w].pc = "load"
    BY <1>1 DEF LoadPlan, Goto, InStep
  <2> HIDE DEF r
  <2>3. Fit(r)
    BY <1>0, <2>1, <2>2 DEF Fit, Busy, Polling
  <2>4. Awaits(r) = Awaits(wf[w]) /\ (Covers(wf[w]) => Covers(r))
    BY <2>1, <2>2 DEF Awaits, Polling, Covers
  <2> QED BY <1>1, <2>1, <2>2, <2>3, <2>4, PlainTurn DEF LoadPlan, expVars, Live, Busy, Polling
<1>2. CASE MarkStarted(w)
  <2> DEFINE r == [wf[w] EXCEPT !.pc = "loop"]
  <2>1. /\ r \in WorkflowType /\ r.pc = "loop" /\ r.batch = wf[w].batch /\ r.pending = wf[w].pending
        /\ r.stop = wf[w].stop /\ r.todo = wf[w].todo /\ r.target = wf[w].target
        /\ r.lost = wf[w].lost /\ r.dropped = wf[w].dropped /\ r.kind = wf[w].kind
    BY Goes DEF Pcs
  <2>2. Locals(w, r) /\ wf[w].pc = "mark"
    BY <1>2 DEF MarkStarted, Goto, InStep
  <2> HIDE DEF r
  <2>3. Fit(r)
    BY <1>0, <2>1, <2>2 DEF Fit, Busy, Polling
  <2>4. Awaits(r) = Awaits(wf[w]) /\ (Covers(wf[w]) => Covers(r))
    BY <2>1, <2>2 DEF Awaits, Polling, Covers
  <2> QED BY <1>2, <2>1, <2>2, <2>3, <2>4, PlainTurn DEF MarkStarted, Live, Busy, Polling
<1>3. CASE NextBatch(w)
  <2>0. wf[w].pc = "loop" /\ UNCHANGED <<expVars, job, row, req, happened>>
    BY <1>3 DEF NextBatch, InStep
  <2>1. CASE \E k \in {"success", "failed", "stopped"} :
               Finalizing(w, k) /\ (k = "success" => wf[w].batch > Len(Batches))
    <3>1. PICK k \in {"success", "failed", "stopped"} :
               Finalizing(w, k) /\ (k = "success" => wf[w].batch > Len(Batches))
      BY <2>1
    <3> DEFINE r == [NewWorkflow EXCEPT !.pc = "final", !.kind = k]
    <3>2. /\ r \in WorkflowType /\ r.pc = "final" /\ r.kind = k /\ r.batch = 1 /\ r.pending = {}
          /\ r.stop = FALSE /\ r.todo = {} /\ r.target = {} /\ r.lost = {} /\ r.dropped = {}
      BY <3>1, NewFacts DEF WorkflowType, Pcs
    <3>3. Locals(w, r)
      BY <3>1 DEF Finalizing
    <3> HIDE DEF r
    <3>4. Fit(r)
      BY <3>2 DEF Fit, Busy, Polling
    <3>5. Awaits(r) = {} /\ Awaits(wf[w]) = {}
      BY <2>0, <3>2 DEF Awaits, Polling
    <3>6. Covers(wf[w]) => Covers(r)
      <4> SUFFICES ASSUME Covers(wf[w]), k = "success" PROVE HasRow = Samples
        BY <3>2 DEF Covers
      <4>1. \A i \in 1..Len(Batches) : i \in 1..(wf[w].batch - 1)
        BY <1>0, <3>1, BatchFacts DEF WorkflowType
      <4> QED BY <4>1, BatchFacts DEF Covers, HasRow
    <3> QED BY <2>0, <3>2, <3>3, <3>4, <3>5, <3>6, PlainTurn DEF expVars, Live, Busy, Polling
  <2>2. CASE \E p \in {"clear", "enqueue"} : Goto(w, p) /\ wf[w].batch <= Len(Batches)
    <3>1. PICK p \in {"clear", "enqueue"} : Goto(w, p) /\ wf[w].batch <= Len(Batches)
      BY <2>2
    <3> DEFINE r == [wf[w] EXCEPT !.pc = p]
    <3>2. /\ r \in WorkflowType /\ r.pc = p /\ r.batch = wf[w].batch /\ r.pending = wf[w].pending
          /\ r.stop = wf[w].stop /\ r.todo = wf[w].todo /\ r.target = wf[w].target
          /\ r.lost = wf[w].lost /\ r.dropped = wf[w].dropped /\ r.kind = wf[w].kind
      BY <1>0, <3>1 DEF WorkflowType, Pcs
    <3>3. Locals(w, r)
      BY <3>1 DEF Goto
    <3> HIDE DEF r
    <3>4. Fit(r)
      BY <1>0, <2>0, <3>1, <3>2 DEF Fit, Busy, Polling
    <3>5. Awaits(wf[w]) = {} /\ (Covers(wf[w]) => Covers(r))
      BY <2>0, <3>2 DEF Awaits, Polling, Covers
    <3> QED BY <2>0, <3>2, <3>3, <3>4, <3>5, PlainTurn DEF expVars, Live, Busy, Polling
  <2>3. wf[w].batch \in Nat /\ Len(Batches) \in Nat
    BY <1>0, BatchFacts DEF WorkflowType
  <2> QED BY <1>3, <2>1, <2>2, <2>3 DEF NextBatch
<1>4. CASE ClearResume(w)
  <2> DEFINE r == [wf[w] EXCEPT !.pc = "enqueue"]
  <2>1. /\ r \in WorkflowType /\ r.pc = "enqueue" /\ r.batch = wf[w].batch /\ r.pending = wf[w].pending
        /\ r.stop = wf[w].stop /\ r.todo = wf[w].todo /\ r.target = wf[w].target
        /\ r.lost = wf[w].lost /\ r.dropped = wf[w].dropped /\ r.kind = wf[w].kind
    BY Goes DEF Pcs
  <2>2. Locals(w, r) /\ wf[w].pc = "clear"
    BY <1>4 DEF ClearResume, Goto, InStep
  <2> HIDE DEF r
  <2>3. Fit(r)
    BY <1>0, <2>1, <2>2 DEF Fit, Busy, Polling
  <2>4. Awaits(wf[w]) = {} /\ (Covers(wf[w]) => Covers(r))
    BY <2>1, <2>2 DEF Awaits, Polling, Covers
  <2> QED BY <1>4, <2>1, <2>2, <2>3, <2>4, PlainTurn DEF ClearResume, ClearsControl, Live, Busy, Polling
<1>5. CASE ReadControl(w)
  <2> DEFINE stop == wf[w].stop \/ control = "stop"
             r == [wf[w] EXCEPT !.stop = stop, !.pc = AfterControl(stop)]
  <2>1. /\ r \in WorkflowType /\ r.pc = (IF stop THEN "filter" ELSE "poll")
        /\ r.batch = wf[w].batch /\ r.pending = wf[w].pending
        /\ r.stop = stop /\ r.todo = wf[w].todo /\ r.target = wf[w].target
        /\ r.lost = wf[w].lost /\ r.dropped = wf[w].dropped /\ r.kind = wf[w].kind
    BY <1>0 DEF WorkflowType, AfterControl, Pcs
  <2>2. Locals(w, r) /\ wf[w].pc = "control"
    BY <1>5 DEF ReadControl, InStep
  <2> HIDE DEF r
  <2>3. Fit(r)
    BY <1>0, <2>1, <2>2 DEF Fit, Busy, Polling
  <2>4. Awaits(r) = Awaits(wf[w]) /\ (Covers(wf[w]) => Covers(r))
    BY <2>1, <2>2 DEF Awaits, Polling, Covers
  <2> HIDE DEF stop
  <2> QED BY <1>5, <2>1, <2>2, <2>3, <2>4, PlainTurn DEF ReadControl, expVars, Live, Busy, Polling
<1> QED BY <1>1, <1>2, <1>3, <1>4, <1>5

LEMMA CleanSteps ==
  ASSUME Shape, NEW w \in Workflows,
         FilterBatch(w) \/ InspectJob(w) \/ Finalize(w) \/ WorkflowError(w)
  PROVE  \E r : Turn(w, r)
<1>0. wf[w] \in WorkflowType /\ Fit(wf[w])
  BY DEF Shape, TypeOK, Fits
<1>1. CASE FilterBatch(w)
  <2> DEFINE r == [wf[w] EXCEPT !.pc = "clean", !.todo = wf[w].pending \ HasRow]
  <2>1. /\ r \in WorkflowType /\ r.pc = "clean" /\ r.batch = wf[w].batch /\ r.pending = wf[w].pending
        /\ r.stop = wf[w].stop /\ r.todo = wf[w].pending \ HasRow /\ r.target = wf[w].target
        /\ r.lost = wf[w].lost /\ r.dropped = wf[w].dropped /\ r.kind = wf[w].kind
    BY <1>0 DEF WorkflowType, Pcs
  <2>2. Locals(w, r) /\ wf[w].pc = "filter"
    BY <1>1 DEF FilterBatch, InStep
  <2> HIDE DEF r
  <2>3. Fit(r)
    BY <1>0, <2>1, <2>2 DEF Fit, Busy, Polling
  <2>4. Awaits(r) = Awaits(wf[w]) /\ (Covers(wf[w]) => Covers(r))
    BY <2>1, <2>2 DEF Awaits, Polling, Covers
  <2> QED BY <1>1, <2>1, <2>2, <2>3, <2>4, PlainTurn DEF FilterBatch, expVars, Live, Busy, Polling
<1>2. CASE InspectJob(w)
  <2> DEFINE l(s) == [wf[w] EXCEPT !.todo = @ \ {s}]
             r(s) == CASE job[s] = "absent" -> [l(s) EXCEPT !.dropped = @ \cup {s}]
                       [] job[s] = "active" -> l(s)
                       [] job[s] = "queued" -> [l(s) EXCEPT !.pc = "remove", !.target = {s}]
                       [] job[s] = "done" -> [l(s) EXCEPT !.pc = "remove", !.target = {s},
                                                          !.lost = @ \cup {s}]
  <2>1. PICK s \in wf[w].todo : Locals(w, r(s))
    BY <1>2 DEF InspectJob
  <2>2. s \in Samples /\ s \in wf[w].pending /\ job[s] \in {"absent", "queued", "active", "done"} /\ wf[w].pc = "clean"
    BY <1>0, <1>2 DEF WorkflowType, Fit, Shape, TypeOK, InspectJob, InStep
  <2>3. /\ l(s) \in WorkflowType /\ l(s).pc = "clean" /\ l(s).batch = wf[w].batch
        /\ l(s).pending = wf[w].pending /\ l(s).stop = wf[w].stop
        /\ l(s).todo = wf[w].todo \ {s} /\ l(s).target = wf[w].target
        /\ l(s).lost = wf[w].lost /\ l(s).dropped = wf[w].dropped
    BY <1>0, <2>2 DEF WorkflowType
  <2> HIDE DEF l
  <2>4. /\ r(s) \in WorkflowType /\ r(s).pc \in {"clean", "remove"} /\ r(s).batch = wf[w].batch
        /\ r(s).pending = wf[w].pending /\ r(s).stop = wf[w].stop /\ r(s).todo \subseteq wf[w].todo
        /\ r(s).target \subseteq wf[w].target \cup {s} /\ r(s).lost \subseteq wf[w].lost \cup {s}
        /\ r(s).dropped \subseteq wf[w].dropped \cup {s}
        /\ r(s).dropped = wf[w].dropped \/ job[s] = "absent"
        /\ r(s).pc = "clean" => r(s).target = wf[w].target
    <3>1. CASE job[s] = "absent"
      <4>1. r(s) = [l(s) EXCEPT !.dropped = @ \cup {s}]
        BY <3>1
      <4> HIDE DEF r
      <4> QED BY <2>2, <2>3, <3>1, <4>1 DEF WorkflowType
    <3>2. CASE job[s] = "active"
      BY <2>3, <3>2
    <3>3. CASE job[s] = "queued"
      <4>0. "remove" \in Pcs /\ {s} \in SUBSET Samples /\ l(s).lost \cup {s} \in SUBSET Samples
        BY <2>2, <2>3 DEF WorkflowType, Pcs
      <4>1. r(s) = [l(s) EXCEPT !.pc = "remove", !.target = {s}]
        BY <3>3
      <4> HIDE DEF r
      <4>2. r(s) \in WorkflowType
        BY <2>3, <4>0, <4>1 DEF WorkflowType
      <4>3. r(s).pc = "remove" /\ r(s).target = {s} /\ r(s).lost \subseteq wf[w].lost \cup {s}
        BY <2>3, <4>1 DEF WorkflowType
      <4>4. /\ r(s).batch = wf[w].batch /\ r(s).pending = wf[w].pending /\ r(s).stop = wf[w].stop
            /\ r(s).todo \subseteq wf[w].todo /\ r(s).dropped = wf[w].dropped
        BY <2>3, <4>1 DEF WorkflowType
      <4> QED BY <4>2, <4>3, <4>4
    <3>4. CASE job[s] = "done"
      <4>0. "remove" \in Pcs /\ {s} \in SUBSET Samples /\ l(s).lost \cup {s} \in SUBSET Samples
        BY <2>2, <2>3 DEF WorkflowType, Pcs
      <4>1. r(s) = [l(s) EXCEPT !.pc = "remove", !.target = {s}, !.lost = @ \cup {s}]
        BY <3>4
      <4> HIDE DEF r
      <4>2. r(s) \in WorkflowType
        BY <2>3, <4>0, <4>1 DEF WorkflowType
      <4>3. r(s).pc = "remove" /\ r(s).target = {s} /\ r(s).lost \subseteq wf[w].lost \cup {s}
        BY <2>3, <4>1 DEF WorkflowType
      <4>4. /\ r(s).batch = wf[w].batch /\ r(s).pending = wf[w].pending /\ r(s).stop = wf[w].stop
            /\ r(s).todo \subseteq wf[w].todo /\ r(s).dropped = wf[w].dropped
        BY <2>3, <4>1 DEF WorkflowType
      <4> QED BY <4>2, <4>3, <4>4
    <3> QED BY <2>2, <3>1, <3>2, <3>3, <3>4
  <2> HIDE DEF r
  <2>5. Fit(r(s))
    BY <1>0, <2>2, <2>4 DEF Fit, Busy, Polling
  <2>6. Awaits(r(s)) = Awaits(wf[w]) /\ (Covers(wf[w]) => Covers(r(s)))
    BY <2>2, <2>4 DEF Awaits, Polling, Covers
  <2>7. \A i \in r(s).dropped : i \in wf[w].dropped \/ job[i] = "absent"
    BY <2>4
  <2> QED BY <1>2, <2>1, <2>2, <2>4, <2>5, <2>6, <2>7, PlainTurn DEF InspectJob, expVars, Live, Busy, Polling
<1>3. CASE Finalize(w)
  <2> DEFINE r == [NewWorkflow EXCEPT !.pc = "done"]
  <2>1. /\ r \in WorkflowType /\ r.pc = "done" /\ r.batch = 1 /\ r.pending = {}
        /\ r.stop = FALSE /\ r.todo = {} /\ r.target = {} /\ r.lost = {} /\ r.dropped = {}
    BY NewFacts DEF WorkflowType, Pcs
  <2>2. Locals(w, r) /\ wf[w].pc = "final"
    BY <1>3 DEF Finalize, InStep
  <2> HIDE DEF r
  <2>3. Fit(r)
    BY <2>1 DEF Fit, Busy, Polling
  <2>4. Awaits(wf[w]) = {} /\ Covers(r)
    BY <2>1, <2>2 DEF Awaits, Polling, Covers
  <2> QED BY <1>3, <2>1, <2>2, <2>3, <2>4, PlainTurn DEF Finalize, Live, Busy, Polling
<1>4. CASE WorkflowError(w)
  <2> DEFINE r == [NewWorkflow EXCEPT !.pc = "final", !.kind = "failed"]
  <2>1. /\ r \in WorkflowType /\ r.pc = "final" /\ r.kind = "failed" /\ r.batch = 1 /\ r.pending = {}
        /\ r.stop = FALSE /\ r.todo = {} /\ r.target = {} /\ r.lost = {} /\ r.dropped = {}
    BY Ends
  <2>2. /\ Locals(w, r) /\ wf[w].pc \notin {"none", "final", "done"}
        /\ happened' = happened \cup {"step"}
    BY <1>4 DEF WorkflowError, Finalizing, Fault
  <2> HIDE DEF r
  <2>3. Fit(r)
    BY <2>1 DEF Fit, Busy, Polling
  <2>4. Covers(r)
    BY <2>1 DEF Covers
  <2> QED BY <1>4, <2>1, <2>2, <2>3, <2>4, PlainTurn DEF WorkflowError, expVars, Live
<1> QED BY <1>1, <1>2, <1>3, <1>4

LEMMA EnqueueStep ==
  ASSUME Shape, NEW w \in Workflows, EnqueueSample(w)
  PROVE  \E r : Turn(w, r)
<1> DEFINE B == Batches[wf[w].batch]
<1>0. /\ TypeOK /\ wf[w] \in WorkflowType /\ Fit(wf[w]) /\ wf[w].pc = "enqueue" /\ B \subseteq Samples
      /\ wf[w].pending \subseteq B
  <2>1. wf[w] \in WorkflowType /\ Fit(wf[w]) /\ wf[w].pc = "enqueue"
    BY DEF Shape, TypeOK, Fits, EnqueueSample, InStep
  <2>2. wf[w].batch \in 1..Len(Batches) /\ wf[w].pending \subseteq B
    BY <2>1, BatchFacts DEF WorkflowType, Fit, Busy
  <2> QED BY <2>1, <2>2, BatchFacts DEF Shape
<1>1. Awaits(wf[w]) = B
  BY <1>0 DEF Awaits
<1>2. CASE B \ wf[w].pending = {}
  <2> DEFINE r == [wf[w] EXCEPT !.pc = "poll"]
  <2>1. /\ r \in WorkflowType /\ r.pc = "poll" /\ r.batch = wf[w].batch /\ r.pending = wf[w].pending
        /\ r.stop = wf[w].stop /\ r.todo = wf[w].todo /\ r.target = wf[w].target
        /\ r.lost = wf[w].lost /\ r.dropped = wf[w].dropped /\ r.kind = wf[w].kind
    BY <1>0 DEF WorkflowType, Pcs
  <2>2. Locals(w, r) /\ UNCHANGED job
    BY <1>2 DEF EnqueueSample, Goto
  <2>3. wf[w].pending = B
    BY <1>0, <1>2
  <2> HIDE DEF r
  <2>4. Fit(r)
    BY <1>0, <2>1, <2>3 DEF Fit, Busy, Polling
  <2>5. Awaits(r) = Awaits(wf[w]) /\ (Covers(wf[w]) => Covers(r))
    BY <1>0, <1>1, <2>1, <2>3 DEF Awaits, Polling, Covers
  <2> QED BY <1>0, <2>1, <2>2, <2>4, <2>5, PlainTurn DEF EnqueueSample, expVars, Live, Busy, Polling
<1>3. CASE B \ wf[w].pending # {}
  <2>1. PICK s \in B \ wf[w].pending :
           /\ job' = [job EXCEPT ![s] = IF @ = "absent" THEN "queued" ELSE @]
           /\ Locals(w, [wf[w] EXCEPT !.pending = @ \cup {s}])
    BY <1>3 DEF EnqueueSample
  <2>2. s \in Samples
    BY <1>0
  <2>r. PICK r : r = [wf[w] EXCEPT !.pending = @ \cup {s}]
    OBVIOUS
  <2>3. /\ r \in WorkflowType /\ r.pc = "enqueue" /\ r.batch = wf[w].batch
        /\ r.pending = wf[w].pending \cup {s}
        /\ r.stop = wf[w].stop /\ r.todo = wf[w].todo /\ r.target = wf[w].target
        /\ r.lost = wf[w].lost /\ r.dropped = wf[w].dropped /\ r.kind = wf[w].kind
    BY <1>0, <2>2, <2>r DEF WorkflowType
  <2>4. Locals(w, r)
    BY <2>1, <2>r
  <2>5. Fit(r)
    BY <1>0, <2>1, <2>3 DEF Fit, Busy, Polling
  <2>6. Awaits(r) = B /\ r.dropped = {} /\ (Covers(wf[w]) => Covers(r)')
    <3>1. UNCHANGED row
      BY DEF EnqueueSample
    <3> QED BY <1>0, <2>3, <2>5, <3>1 DEF Awaits, Fit, Covers, HasRow
  <2>7. \A i \in Samples : job'[i] = IF i = s /\ job[i] = "absent" THEN "queued" ELSE job[i]
    BY <1>0, <2>1 DEF TypeOK
  <2>8. job' \in [Samples -> {"absent", "queued", "active", "done"}] /\ row' \in [Samples -> {"none", "good", "bad"}]
    BY <1>0, <2>1 DEF TypeOK, EnqueueSample
  <2> QED BY <1>0, <1>1, <2>1, <2>3, <2>4, <2>5, <2>6, <2>7, <2>8
          DEF Turn, EnqueueSample, expVars, Live, Busy, Polling
<1> QED BY <1>2, <1>3

LEMMA PollStep ==
  ASSUME Shape, NEW w \in Workflows, PollCount(w)
  PROVE  \E r : Turn(w, r)
<1> DEFINE P == wf[w].pending
           q == [wf[w] EXCEPT !.pc = "aggregate", !.counted = @ \cup (P \cap HasRow)]
           g == [wf[w] EXCEPT !.pc = "reconcile"]
<1>0. TypeOK /\ wf[w] \in WorkflowType /\ Fit(wf[w]) /\ wf[w].pc = "poll" /\ Awaits(wf[w]) = P
  BY DEF Shape, TypeOK, Fits, PollCount, InStep, Awaits, Polling
<1>1. PICK r \in {q, g} :
         /\ Locals(w, r)
         /\ \/ r = q /\ P \subseteq HasRow /\ UNCHANGED happened
            \/ r = g /\ UNCHANGED happened
            \/ r = q /\ happened' = happened \cup {"timeout"}
  BY DEF PollCount, StepResult, SettledBatch, Goto, Fault
<1>2. /\ r \in WorkflowType
      /\ (r = q /\ r # g /\ r.pc = "aggregate") \/ (r = g /\ r # q /\ r.pc = "reconcile")
      /\ r.batch = wf[w].batch /\ r.pending = P /\ r.stop = wf[w].stop /\ r.todo = wf[w].todo
      /\ r.target = wf[w].target /\ r.lost = wf[w].lost /\ r.dropped = wf[w].dropped
  <2>1. q \in WorkflowType /\ q.pc = "aggregate" /\ q.batch = wf[w].batch /\ q.pending = P
        /\ q.stop = wf[w].stop /\ q.todo = wf[w].todo
        /\ q.target = wf[w].target /\ q.lost = wf[w].lost /\ q.dropped = wf[w].dropped
    BY <1>0 DEF WorkflowType, Pcs
  <2>2. g \in WorkflowType /\ g.pc = "reconcile" /\ g.batch = wf[w].batch /\ g.pending = P
        /\ g.stop = wf[w].stop /\ g.todo = wf[w].todo
        /\ g.target = wf[w].target /\ g.lost = wf[w].lost /\ g.dropped = wf[w].dropped
    BY <1>0 DEF WorkflowType, Pcs
  <2> HIDE DEF q, g
  <2>3. q # g
    BY <2>1, <2>2
  <2>4. CASE r = q
    BY <2>1, <2>3, <2>4
  <2>5. CASE r = g
    BY <2>2, <2>3, <2>5
  <2> QED BY <2>4, <2>5
<1>3. Fit(r)
  BY <1>0, <1>2 DEF Fit, Busy, Polling
<1>4. /\ UNCHANGED <<expVars, job, row, req>>
      /\ job' \in [Samples -> {"absent", "queued", "active", "done"}]
      /\ row' \in [Samples -> {"none", "good", "bad"}]
  BY <1>0 DEF PollCount, TypeOK
<1> HIDE DEF q, g
<1>5. "timeout" \notin happened' /\ r = q => P \subseteq HasRow
  <2> SUFFICES ASSUME "timeout" \notin happened', r = q PROVE P \subseteq HasRow
    OBVIOUS
  <2>1. r # g
    BY <1>2
  <2> HIDE DEF P
  <2> QED BY <1>1, <2>1
<1>6. "timeout" \notin happened' => \A s \in P : s \in Awaits(r) \/ row'[s] # "none"
  <2>1. CASE r = q
    <3>1. row' = row
      BY <1>4
    <3> HIDE DEF P
    <3> QED BY <1>5, <2>1, <3>1 DEF HasRow
  <2>2. CASE r = g
    BY <1>2, <2>2 DEF Awaits, Polling
  <2> QED BY <2>1, <2>2
<1>7. "timeout" \notin happened' /\ Covers(wf[w]) => Covers(r)'
  <2> SUFFICES ASSUME "timeout" \notin happened', Covers(wf[w]) PROVE Covers(r)'
    OBVIOUS
  <2>1. ~r.stop => P = Batches[r.batch]
    BY <1>0, <1>2 DEF Fit
  <2>2. HasRow' = HasRow
    BY <1>4 DEF HasRow
  <2>3. r.pc = "aggregate" => r = q
    BY <1>2
  <2> QED BY <1>2, <1>5, <2>1, <2>2, <2>3 DEF Covers
<1>8. happened' \in {happened, happened \cup {"timeout"}}
  BY <1>1
<1> QED BY <1>0, <1>1, <1>2, <1>3, <1>4, <1>6, <1>7, <1>8 DEF Turn, expVars, Live, Busy, Polling

LEMMA WrittenRows ==
  ASSUME TypeOK, NEW S \in SUBSET Samples, WriteFailed(S)
  PROVE  /\ row' \in [Samples -> {"none", "good", "bad"}]
         /\ \A s \in Samples : (row'[s] # "none") <=> (row[s] # "none" \/ s \in S)
         /\ HasRow' = HasRow \cup S
<1>1. row' \in [Samples -> {"none", "good", "bad"}]
  BY DEF WriteFailed, TypeOK
<1>2. \A s \in Samples : (row'[s] # "none") <=> (row[s] # "none" \/ s \in S)
  BY DEF WriteFailed, TypeOK
<1> QED BY <1>1, <1>2 DEF HasRow

LEMMA ReconcileStep ==
  ASSUME Shape, NEW w \in Workflows, Reconcile(w)
  PROVE  \E r : Turn(w, r)
<1> DEFINE P == wf[w].pending
           lost == LostRows(P)
           q == [wf[w] EXCEPT !.pc = "aggregate", !.counted = @ \cup P]
           g == [wf[w] EXCEPT !.pc = "control"]
<1>0. TypeOK /\ wf[w] \in WorkflowType /\ Fit(wf[w]) /\ wf[w].pc = "reconcile" /\ Awaits(wf[w]) = P
      /\ P \subseteq Samples
  BY DEF Shape, TypeOK, Fits, Reconcile, InStep, Awaits, Polling, WorkflowType
<1>1. PICK r \in {q, g} : Locals(w, r) /\ (r = q => (P \ lost) \subseteq HasRow)
  <2>1. CASE lost # {} /\ SettledBatch(P \ lost)
    <3>1. Locals(w, q)
      BY <2>1 DEF Reconcile, StepResult, Locals
    <3> QED BY <2>1, <3>1 DEF SettledBatch
  <2>2. CASE ~(lost # {} /\ SettledBatch(P \ lost))
    <3>1. Locals(w, g)
      BY <2>2 DEF Reconcile, Locals
    <3>2. g # q
      <4>1. g.pc = "control" /\ q.pc = "aggregate"
        BY <1>0 DEF WorkflowType
      <4> QED BY <4>1
    <3> QED BY <3>1, <3>2
  <2> QED BY <2>1, <2>2
<1>2. /\ r \in WorkflowType /\ r.pc = (IF r = q THEN "aggregate" ELSE "control")
      /\ r.batch = wf[w].batch /\ r.pending = P /\ r.stop = wf[w].stop /\ r.todo = wf[w].todo
      /\ r.target = wf[w].target /\ r.lost = wf[w].lost /\ r.dropped = wf[w].dropped
  <2>1. q \in WorkflowType /\ q.pc = "aggregate" /\ q.batch = wf[w].batch /\ q.pending = P
        /\ q.stop = wf[w].stop /\ q.todo = wf[w].todo
        /\ q.target = wf[w].target /\ q.lost = wf[w].lost /\ q.dropped = wf[w].dropped
    BY <1>0 DEF WorkflowType, Pcs
  <2>2. g \in WorkflowType /\ g.pc = "control" /\ g.batch = wf[w].batch /\ g.pending = P
        /\ g.stop = wf[w].stop /\ g.todo = wf[w].todo
        /\ g.target = wf[w].target /\ g.lost = wf[w].lost /\ g.dropped = wf[w].dropped
    BY <1>0 DEF WorkflowType, Pcs
  <2> HIDE DEF q, g
  <2> QED BY <2>1, <2>2
<1> HIDE DEF q, g
<1>3. Fit(r)
  BY <1>0, <1>2 DEF Fit, Busy, Polling
<1>4. /\ row' \in [Samples -> {"none", "good", "bad"}] /\ HasRow' = HasRow \cup lost
      /\ \A s \in Samples : (row'[s] # "none") <=> (row[s] # "none" \/ s \in lost)
  <2>1. lost \in SUBSET Samples
    BY <1>0 DEF LostRows
  <2> QED BY <1>0, <2>1, WrittenRows DEF Reconcile
<1>5. r = q => P \subseteq HasRow'
  BY <1>1, <1>4
<1>6. \A s \in P : s \in Awaits(r) \/ row'[s] # "none"
  BY <1>0, <1>2, <1>5 DEF Awaits, Polling, HasRow
<1>7. Covers(wf[w]) => Covers(r)'
  <2> SUFFICES ASSUME Covers(wf[w]) PROVE Covers(r)'
    OBVIOUS
  <2>1. r = q /\ ~r.stop => P = Batches[r.batch]
    BY <1>0, <1>2 DEF Fit
  <2> QED BY <1>2, <1>4, <1>5, <2>1 DEF Covers
<1> HIDE DEF lost
<1> QED BY <1>0, <1>1, <1>2, <1>3, <1>4, <1>6, <1>7 DEF Turn, Reconcile, expVars, Live, Busy, Polling, TypeOK

LEMMA RemoveStep ==
  ASSUME Shape, NEW w \in Workflows, RemoveJob(w)
  PROVE  \E r : Turn(w, r)
<1> DEFINE l == [wf[w] EXCEPT !.pc = "clean", !.target = {}]
<1>0. /\ TypeOK /\ wf[w] \in WorkflowType /\ Fit(wf[w]) /\ wf[w].pc = "remove"
      /\ Awaits(wf[w]) = wf[w].pending /\ wf[w].pending \subseteq Samples
  BY DEF Shape, TypeOK, Fits, RemoveJob, InStep, Awaits, Polling, WorkflowType
<1>1. PICK s \in wf[w].target :
         \/ job[s] = "active" /\ Locals(w, l) /\ UNCHANGED job
         \/ /\ job[s] # "active" /\ job' = [job EXCEPT ![s] = "absent"]
            /\ Locals(w, IF s \in wf[w].lost THEN l ELSE [l EXCEPT !.dropped = @ \cup {s}])
  BY DEF RemoveJob
<1>2. s \in Samples /\ s \in wf[w].pending
  BY <1>0 DEF Fit
<1>3. /\ l \in WorkflowType /\ l.pc = "clean" /\ l.batch = wf[w].batch /\ l.pending = wf[w].pending
      /\ l.stop = wf[w].stop /\ l.todo = wf[w].todo /\ l.target = {} /\ l.lost = wf[w].lost
      /\ l.dropped = wf[w].dropped
  BY <1>0 DEF WorkflowType, Pcs
<1> HIDE DEF l
<1>4. PICK r : /\ Locals(w, r)
               /\ \/ r = l
                  \/ r = [l EXCEPT !.dropped = @ \cup {s}] /\ job' = [job EXCEPT ![s] = "absent"]
  <2>1. CASE Locals(w, l)
    BY <2>1
  <2>2. CASE /\ job' = [job EXCEPT ![s] = "absent"]
             /\ Locals(w, [l EXCEPT !.dropped = @ \cup {s}])
    BY <2>2
  <2> QED BY <1>1, <2>1, <2>2
<1>5. /\ r \in WorkflowType /\ r.pc = "clean" /\ r.batch = wf[w].batch /\ r.pending = wf[w].pending
      /\ r.stop = wf[w].stop /\ r.todo = wf[w].todo /\ r.target = {} /\ r.lost = wf[w].lost
  BY <1>2, <1>3, <1>4 DEF WorkflowType
<1>6. \/ r.dropped = wf[w].dropped
      \/ r.dropped = wf[w].dropped \cup {s} /\ job' = [job EXCEPT ![s] = "absent"]
  BY <1>3, <1>4 DEF WorkflowType
<1>7. Fit(r)
  BY <1>0, <1>2, <1>5, <1>6 DEF Fit, Busy, Polling
<1>8. /\ UNCHANGED <<expVars, row, req, happened>>
      /\ row' \in [Samples -> {"none", "good", "bad"}]
      /\ job' \in [Samples -> {"absent", "queued", "active", "done"}]
      /\ \A i \in Samples : job'[i] = job[i] \/ job'[i] = "absent"
  <2>1. UNCHANGED <<expVars, row, req, happened>> /\ row' \in [Samples -> {"none", "good", "bad"}]
    BY <1>0 DEF RemoveJob, TypeOK
  <2>2. job \in [Samples -> {"absent", "queued", "active", "done"}]
    BY <1>0 DEF TypeOK
  <2> QED BY <1>1, <2>1, <2>2
<1>9. Awaits(r) = wf[w].pending /\ (Covers(wf[w]) => Covers(r)')
  BY <1>0, <1>5, <1>8 DEF Awaits, Polling, Covers, HasRow
<1>10. (\A i \in wf[w].dropped : job[i] = "absent") => \A i \in r.dropped : job'[i] = "absent"
  <2>1. \A i \in wf[w].dropped \cup {s} : i \in Samples
    BY <1>0, <1>2 DEF WorkflowType
  <2>2. CASE r.dropped = wf[w].dropped
    BY <1>8, <2>1, <2>2
  <2>3. CASE r.dropped = wf[w].dropped \cup {s} /\ job' = [job EXCEPT ![s] = "absent"]
    BY <1>0, <1>2, <2>1, <2>3 DEF TypeOK
  <2> QED BY <1>6, <2>2, <2>3
<1> QED BY <1>0, <1>4, <1>5, <1>7, <1>8, <1>9, <1>10 DEF Turn, expVars, Live, Busy, Polling

LEMMA CleanupEnds ==
  ASSUME Shape, NEW w \in Workflows, EndCleanup(w)
  PROVE  \E r : Turn(w, r)
<1> DEFINE P == wf[w].pending \ wf[w].dropped
<1>0. /\ TypeOK /\ wf[w] \in WorkflowType /\ Fit(wf[w]) /\ wf[w].pc = "clean" /\ wf[w].stop = TRUE
      /\ Awaits(wf[w]) = wf[w].pending /\ wf[w].pending \subseteq Samples /\ wf[w].todo = {}
      /\ wf[w].lost \subseteq wf[w].pending
  BY DEF Shape, TypeOK, Fits, Fit, EndCleanup, InStep, Awaits, Polling, WorkflowType
<1>1. PICK r : r = [wf[w] EXCEPT !.pc = IF P = {} THEN "aggregate" ELSE "poll",
                                 !.stop = StopReturned(w, P),
                                 !.pending = P, !.dropped = {}, !.lost = {}]
  OBVIOUS
<1>2. Locals(w, r) /\ WriteFailed(wf[w].lost) /\ UNCHANGED <<expVars, job, req, happened>>
  BY <1>1 DEF EndCleanup
<1>3. r \in WorkflowType /\ r.pc = (IF P = {} THEN "aggregate" ELSE "poll")
  BY <1>0, <1>1 DEF WorkflowType, StopReturned, Pcs
<1>4. /\ r.batch = wf[w].batch /\ r.pending = P /\ r.stop = TRUE /\ r.todo = {} /\ r.dropped = {}
      /\ r.lost = {} /\ r.target = {}
  BY <1>0, <1>1 DEF WorkflowType, StopReturned, Fit
<1>5. Fit(r)
  BY <1>0, <1>3, <1>4 DEF Fit, Busy, Polling
<1>6. /\ row' \in [Samples -> {"none", "good", "bad"}] /\ HasRow' = HasRow \cup wf[w].lost
      /\ \A s \in Samples : (row'[s] # "none") <=> (row[s] # "none" \/ s \in wf[w].lost)
  <2>1. wf[w].lost \in SUBSET Samples
    BY <1>0
  <2> QED BY <1>0, <1>2, <2>1, WrittenRows
<1>7. (\A s \in wf[w].dropped : job[s] = "absent") => \A s \in wf[w].pending : s \in Awaits(r) \/ job'[s] = "absent"
  BY <1>2, <1>3, <1>4 DEF Awaits, Polling
<1>8. Covers(wf[w]) => Covers(r)'
  BY <1>0, <1>3, <1>4, <1>6 DEF Covers
<1>9. job' \in [Samples -> {"absent", "queued", "active", "done"}] /\ job' = job
  BY <1>0, <1>2 DEF TypeOK
<1> HIDE DEF P
<1> QED BY <1>0, <1>2, <1>3, <1>4, <1>5, <1>6, <1>7, <1>8, <1>9 DEF Turn, expVars, Live, Busy, Polling

LEMMA AggregateStep ==
  ASSUME Shape, NEW w \in Workflows, Aggregate(w)
  PROVE  \E r : Turn(w, r)
<1>0. /\ TypeOK /\ wf[w] \in WorkflowType /\ Fit(wf[w]) /\ wf[w].pc = "aggregate" /\ Awaits(wf[w]) = {}
      /\ processed' = Cardinality(HasRow) /\ UNCHANGED <<status, control, wfId, job, row, req, happened>>
  BY DEF Shape, TypeOK, Fits, Aggregate, InStep, Awaits, Polling, Snapshot
<1>1. /\ row' \in [Samples -> {"none", "good", "bad"}]
      /\ job' \in [Samples -> {"absent", "queued", "active", "done"}]
  BY <1>0 DEF TypeOK
<1>2. CASE wf[w].stop /\ Finalizing(w, "stopped")
  <2>1. PICK r : r = [NewWorkflow EXCEPT !.pc = "final", !.kind = "stopped"]
    OBVIOUS
  <2>2. /\ r \in WorkflowType /\ r.pc = "final" /\ r.kind = "stopped" /\ r.batch = 1 /\ r.pending = {}
        /\ r.stop = FALSE /\ r.todo = {} /\ r.target = {} /\ r.lost = {} /\ r.dropped = {}
    BY <2>1, Ends
  <2>3. Locals(w, r)
    BY <1>2, <2>1 DEF Finalizing
  <2>4. Fit(r)
    BY <2>2 DEF Fit, Busy, Polling
  <2>5. Covers(r)'
    BY <2>2 DEF Covers
  <2> QED BY <1>0, <1>1, <2>2, <2>3, <2>4, <2>5 DEF Turn, Live, Busy, Polling
<1>3. CASE ~wf[w].stop /\ Locals(w, [wf[w] EXCEPT !.pc = "loop", !.pending = {}, !.batch = @ + 1])
  <2>1. PICK r : r = [wf[w] EXCEPT !.pc = "loop", !.pending = {}, !.batch = @ + 1]
    OBVIOUS
  <2>2. wf[w].batch \in 1..Len(Batches) /\ wf[w].batch + 1 \in 1..(Len(Batches) + 1)
    BY <1>0, BatchFacts DEF WorkflowType, Fit, Busy
  <2>3. r \in WorkflowType /\ r.pc = "loop" /\ r.pending = {} /\ r.batch = wf[w].batch + 1
    BY <1>0, <2>1, <2>2 DEF WorkflowType, Pcs
  <2>4. /\ r.stop = wf[w].stop /\ r.todo = wf[w].todo /\ r.target = wf[w].target
        /\ r.lost = wf[w].lost /\ r.dropped = wf[w].dropped
    BY <1>0, <2>1 DEF WorkflowType
  <2>5. Fit(r)
    BY <1>0, <1>3, <2>3, <2>4 DEF Fit, Busy, Polling
  <2>6. Covers(wf[w]) => Covers(r)'
    <3> SUFFICES ASSUME Covers(wf[w]) PROVE Covers(r)'
      OBVIOUS
    <3>1. HasRow' = HasRow
      BY <1>0 DEF HasRow
    <3>2. \A i \in 1..wf[w].batch : Batches[i] \subseteq HasRow
      BY <1>0, <1>3, <2>2 DEF Covers
    <3>3. r.batch - 1 = wf[w].batch
      BY <2>2, <2>3
    <3> QED BY <2>3, <3>1, <3>2, <3>3 DEF Covers
  <2>7. Locals(w, r)
    BY <1>3, <2>1
  <2> QED BY <1>0, <1>1, <2>3, <2>5, <2>6, <2>7, <2>4 DEF Turn, Live, Busy, Polling, Fit
<1> QED BY <1>2, <1>3 DEF Aggregate

\* Every step of a workflow is a turn.
LEMMA TurnTaken ==
  ASSUME Shape, NEW w \in Workflows, Run(w) \/ WorkflowError(w)
  PROVE  \E r : Turn(w, r)
BY PlainSteps, CleanSteps, EnqueueStep, PollStep, ReconcileStep, RemoveStep, CleanupEnds, AggregateStep
   DEF Run, Poll

-----------------------------------------------------------------------------
(* What the other steps do to the workflows, the jobs and the rows.         *)

\* Every step of a request but the launch, and every step of the recovery.
LEMMA RequestSteps ==
  ASSUME Shape,
         \/ \E c \in Clients : Create(c) \/ Request(c)
         \/ \E c \in Requests : Patch(c) \/ SetWorkflowId(c) \/ LaunchFails(c)
         \/ Recover
  PROVE  /\ UNCHANGED <<job, row, wf>>
         /\ req' \in [Requests -> RequestType]
         /\ status' \in {status, "running", "failed"}
         /\ control' \in {control, "none", "stop", "resume"}
         /\ wfId' \in Workflows \cup {None}
         /\ UNCHANGED processed \/ (processed' = 0 /\ "retry" \in happened')
         /\ happened \subseteq happened' /\ happened' \subseteq happened \cup FaultKinds \cup {"retry"}
<1>0. TypeOK /\ req \in [Requests -> RequestType]
  BY DEF Shape, TypeOK
<1>1. CASE \E c \in Clients : Create(c)
  <2>1. PICK c \in Clients : Create(c)
    BY <1>1
  <2>2. [pc |-> "launch", action |-> "start", new |-> None] \in RequestType
    BY DEF RequestType
  <2> QED BY <1>0, <2>1, <2>2 DEF Create, TypeOK
<1>2. CASE \E c \in Clients : Request(c)
  <2>1. PICK c \in Clients, a \in Actions :
           /\ Request(c)
           /\ req' = [req EXCEPT ![c] = [pc |-> "patch", action |-> a, new |-> None]]
    BY <1>2 DEF Request
  <2>2. [pc |-> "patch", action |-> a, new |-> None] \in RequestType
    BY ExperimentAssumption DEF RequestType
  <2>3. req' \in [Requests -> RequestType]
    BY <1>0, <2>1, <2>2
  <2> QED BY <1>0, <2>1, <2>3 DEF Request, TypeOK, expVars
<1>3. CASE \E c \in Requests : Patch(c)
  <2>1. PICK c \in Requests : Patch(c)
    BY <1>3
  <2>2. [req[c] EXCEPT !.pc = "launch"] \in RequestType /\ IdleRequest \in RequestType
    BY <1>0, <2>1 DEF RequestType, IdleRequest
  <2>3. req' \in [Requests -> RequestType]
    BY <1>0, <2>1, <2>2 DEF Patch
  <2> QED BY <1>0, <2>1, <2>3 DEF Patch, TypeOK, StatusPatched
<1>4. CASE \E c \in Requests : SetWorkflowId(c)
  <2>1. PICK c \in Requests : SetWorkflowId(c)
    BY <1>4
  <2>2. IdleRequest \in RequestType /\ req[c].new \in Workflows \cup {None}
    BY <1>0, <2>1 DEF RequestType, IdleRequest
  <2> QED BY <1>0, <2>1, <2>2 DEF SetWorkflowId, TypeOK
<1>5. CASE \E c \in Requests : LaunchFails(c)
  <2>1. PICK c \in Requests : LaunchFails(c)
    BY <1>5
  <2>2. IdleRequest \in RequestType
    BY DEF RequestType, IdleRequest
  <2>3. happened' = happened \cup {req[c].pc} /\ req[c].pc \in FaultKinds
    BY <2>1 DEF LaunchFails, Fault, FaultKinds
  <2> QED BY <1>0, <2>1, <2>2, <2>3 DEF LaunchFails, TypeOK
<1>6. CASE Recover
  <2>1. Recovery \in Requests /\ IdleRequest \in RequestType
    BY DEF Requests, RequestType, IdleRequest
  <2>2. [req[Recovery] EXCEPT !.pc = "launch", !.action = "resume"] \in RequestType
    BY <1>0, <2>1 DEF RequestType
  <2>3. req' \in [Requests -> RequestType]
    BY <1>0, <1>6, <2>1, <2>2 DEF Recover
  <2> QED BY <1>0, <1>6, <2>3 DEF Recover, TypeOK, expVars
<1> QED BY <1>1, <1>2, <1>3, <1>4, <1>5, <1>6

\* A launch starts a workflow at its beginning.
LEMMA LaunchStep ==
  ASSUME Shape, NEW c \in Requests, Launch(c)
  PROVE  \E w \in Workflows, r \in WorkflowType :
           /\ wf[w].pc = "none" /\ r.pc = "load" /\ Fit(r) /\ Locals(w, r)
           /\ req' = [req EXCEPT ![c] = [req[c] EXCEPT !.pc = "setid", !.new = w]]
           /\ req' \in [Requests -> RequestType]
           /\ r.dropped = {} /\ r.batch = 1
           /\ UNCHANGED <<expVars, job, row>>
           /\ happened' \in {happened, happened \cup {"twin"}}
           /\ "twin" \notin happened' => \A v \in Workflows : ~Live(v)
<1>0. /\ req \in [Requests -> RequestType]
      /\ \A w \in Workflows : wf[w] \in WorkflowType /\ Fit(wf[w])
  BY DEF Shape, TypeOK, Fits
<1>1. PICK w \in Workflows : /\ wf[w].pc = "none" /\ wf' = [wf EXCEPT ![w].pc = "load"]
                            /\ req' = [req EXCEPT ![c] = [@ EXCEPT !.pc = "setid", !.new = w]]
  BY DEF Launch
<1>2. PICK r : r = [wf[w] EXCEPT !.pc = "load"]
  OBVIOUS
<1>3. /\ r \in WorkflowType /\ r.pc = "load" /\ r.batch = wf[w].batch /\ r.pending = wf[w].pending
      /\ r.stop = wf[w].stop /\ r.todo = wf[w].todo /\ r.target = wf[w].target
      /\ r.lost = wf[w].lost /\ r.dropped = wf[w].dropped /\ r.kind = wf[w].kind
  BY <1>0, <1>2 DEF WorkflowType, Pcs
<1>4. Fit(r) /\ r.dropped = {} /\ r.batch = 1
  BY <1>0, <1>1, <1>3 DEF Fit, Busy, Polling
<1>5. [req[c] EXCEPT !.pc = "setid", !.new = w] \in RequestType
  BY <1>0 DEF RequestType
<1>6. req' \in [Requests -> RequestType]
  BY <1>0, <1>1, <1>5
<1>7. Locals(w, r)
  BY <1>1, <1>2 DEF Locals
<1>8. /\ happened' \in {happened, happened \cup {"twin"}}
      /\ "twin" \notin happened' => \A v \in Workflows : ~Live(v)
  BY DEF Launch
<1> QED BY <1>1, <1>3, <1>4, <1>6, <1>7, <1>8 DEF Launch

LEMMA JobSteps ==
  ASSUME Shape, NEW s \in Samples, StartJob(s) \/ EndJob(s) \/ RequeueJob(s) \/ LoseResult(s)
  PROVE  /\ UNCHANGED <<expVars, req, wf>>
         /\ job' \in [Samples -> {"absent", "queued", "active", "done"}]
         /\ row' \in [Samples -> {"none", "good", "bad"}]
         /\ happened \subseteq happened' /\ happened' \subseteq happened \cup {"lose"}
         /\ \A i \in Samples : (job'[i] = "absent") <=> (job[i] = "absent")
         /\ \A i \in Samples : row[i] # "none" => row'[i] # "none"
         /\ UNCHANGED row \/ (job[s] = "active" /\ \A i \in Samples \ {s} : row'[i] = row[i])
<1>0. /\ job \in [Samples -> {"absent", "queued", "active", "done"}]
      /\ row \in [Samples -> {"none", "good", "bad"}]
  BY DEF Shape, TypeOK
<1>1. CASE StartJob(s)
  BY <1>0, <1>1 DEF StartJob
<1>2. CASE EndJob(s)
  <2>1. PICK r \in {"good", "bad"} : row' = [row EXCEPT ![s] = IF @ = "none" THEN r ELSE @]
    BY <1>2 DEF EndJob
  <2> QED BY <1>0, <1>2, <2>1 DEF EndJob
<1>3. CASE RequeueJob(s)
  BY <1>0, <1>3 DEF RequeueJob
<1>4. CASE LoseResult(s)
  BY <1>0, <1>4 DEF LoseResult, Fault
<1> QED BY <1>1, <1>2, <1>3, <1>4

\* A step that starts over awaits at least what it awaited.
LEMMA ReplayFacts ==
  ASSUME NEW l \in WorkflowType, Fit(l)
  PROVE  LET r == Replayed(l) IN
         /\ r \in WorkflowType /\ Fit(r) /\ r.batch = l.batch /\ r.kind = l.kind
         /\ r.pc = l.pc \/ (r.pc = "poll" /\ l.pc \in Polling)
         /\ Awaits(l) \subseteq Awaits(r)
         /\ Covers(l) => Covers(r)
         /\ r.dropped = {}
         /\ (r.pc \in Busy) <=> (l.pc \in Busy)
<1> DEFINE r == Replayed(l)
<1>1. CASE l.pc \in {"none", "load", "mark", "loop", "clear", "aggregate", "final", "done"}
  <2>1. r = l
    BY <1>1 DEF Replayed
  <2>2. l.dropped = {}
    BY <1>1 DEF Fit
  <2> QED BY <2>1, <2>2
<1>2. CASE l.pc = "enqueue"
  <2>1. r = [l EXCEPT !.pending = {}]
    BY <1>2 DEF Replayed
  <2> HIDE DEF r
  <2>2. /\ r \in WorkflowType /\ r.pc = "enqueue" /\ r.batch = l.batch /\ r.pending = {}
        /\ r.stop = l.stop /\ r.todo = l.todo /\ r.target = l.target
        /\ r.lost = l.lost /\ r.dropped = l.dropped /\ r.kind = l.kind
    BY <1>2, <2>1 DEF WorkflowType
  <2>3. Fit(r) /\ l.dropped = {}
    BY <1>2, <2>2 DEF Fit, Busy, Polling
  <2> QED BY <1>2, <2>2, <2>3 DEF r, Awaits, Covers, Busy, Polling
<1>3. CASE l.pc \in Polling
  <2>1. r = [l EXCEPT !.pc = "poll", !.pending = Batches[l.batch], !.stop = FALSE,
                   !.todo = {}, !.dropped = {}, !.lost = {}, !.target = {}]
    BY <1>3 DEF Replayed, Polling
  <2>2. l.batch \in 1..Len(Batches) /\ Batches[l.batch] \in SUBSET Samples /\ l.pending \subseteq Batches[l.batch]
    BY <1>3, BatchFacts DEF Fit, Busy, WorkflowType
  <2> HIDE DEF r
  <2>3. r \in WorkflowType
    BY <2>1, <2>2 DEF WorkflowType, Pcs
  <2>4. /\ r.pc = "poll" /\ r.batch = l.batch /\ r.pending = Batches[l.batch] /\ r.stop = FALSE
        /\ r.todo = {} /\ r.target = {} /\ r.lost = {} /\ r.dropped = {} /\ r.kind = l.kind
    BY <2>1 DEF WorkflowType
  <2>5. Fit(r)
    BY <2>2, <2>4 DEF Fit, Busy, Polling
  <2> QED BY <1>3, <2>2, <2>3, <2>4, <2>5 DEF r, Awaits, Covers, Busy, Polling
<1> QED BY <1>1, <1>2, <1>3 DEF WorkflowType, Pcs, Polling

LEMMA RestartStep ==
  ASSUME Shape, Restart
  PROVE  /\ UNCHANGED <<expVars, job, row>>
         /\ \E k \in {"restart", "lookup", "crash"} : happened' = happened \cup {k}
         /\ req' \in [Requests -> RequestType]
         /\ \A c \in Requests : req'[c].pc = IF c = Recovery THEN "scan" ELSE "idle"
         /\ wf' \in [Workflows -> WorkflowType]
         /\ \A w \in Workflows : wf'[w] = Replayed(wf[w])
<1>1. /\ wf' = [w \in Workflows |-> Replayed(wf[w])]
      /\ \A w \in Workflows : Replayed(wf[w]) \in WorkflowType
  BY ReplayFacts DEF Restart, Shape, TypeOK, Fits
<1>2. IdleRequest \in RequestType /\ [IdleRequest EXCEPT !.pc = "scan"] \in RequestType
  BY DEF IdleRequest, RequestType
<1>3. /\ req' \in [Requests -> RequestType]
      /\ \A c \in Requests : req'[c].pc = IF c = Recovery THEN "scan" ELSE "idle"
  BY <1>2 DEF Restart, IdleRequest
<1>4. \E k \in {"restart", "lookup", "crash"} : happened' = happened \cup {k}
  BY DEF Restart, Fault
<1> QED BY <1>1, <1>3, <1>4 DEF Restart

\* The kinds of steps there are.
LEMMA StepKinds ==
  ASSUME Next
  PROVE  \/ \/ \E c \in Clients : Create(c) \/ Request(c)
            \/ \E c \in Requests : Patch(c) \/ SetWorkflowId(c) \/ LaunchFails(c)
            \/ Recover
         \/ \E c \in Requests : Launch(c)
         \/ \E w \in Workflows : Run(w) \/ WorkflowError(w)
         \/ \E s \in Samples : StartJob(s) \/ EndJob(s) \/ RequeueJob(s) \/ LoseResult(s)
         \/ Restart
BY DEF Next, Serve

-----------------------------------------------------------------------------
(* Types.                                                                   *)

LEMMA ShapeStep == Shape /\ [Next]_vars => Shape'
<1> SUFFICES ASSUME Shape, [Next]_vars PROVE Shape'
  OBVIOUS
<1>0. TypeOK /\ \A w \in Workflows : Fit(wf[w])
  BY DEF Shape, Fits
<1>1. CASE UNCHANGED vars
  BY <1>1 DEF Shape, TypeOK, Fits, vars, expVars
<1>2. CASE \/ \E c \in Clients : Create(c) \/ Request(c)
           \/ \E c \in Requests : Patch(c) \/ SetWorkflowId(c) \/ LaunchFails(c)
           \/ Recover
  <2>1. /\ UNCHANGED <<job, row, wf>>
        /\ req' \in [Requests -> RequestType]
        /\ status' \in {status, "running", "failed"}
        /\ control' \in {control, "none", "stop", "resume"}
        /\ wfId' \in Workflows \cup {None}
        /\ UNCHANGED processed \/ (processed' = 0 /\ "retry" \in happened')
        /\ happened \subseteq happened' /\ happened' \subseteq happened \cup FaultKinds \cup {"retry"}
    BY <1>2, RequestSteps
  <2>2. 0 \in 0..Cardinality(Samples)
    BY ExperimentAssumption, FS_CardinalityType
  <2> QED BY <1>0, <2>1, <2>2 DEF Shape, TypeOK, Fits
<1>3. CASE \E c \in Requests : Launch(c)
  <2>1. PICK w \in Workflows, r \in WorkflowType :
           /\ Fit(r) /\ Locals(w, r) /\ req' \in [Requests -> RequestType]
           /\ UNCHANGED <<expVars, job, row>> /\ happened' \in {happened, happened \cup {"twin"}}
    BY <1>3, LaunchStep
  <2> QED BY <1>0, <2>1 DEF Shape, TypeOK, Fits, Locals, expVars
<1>4. CASE \E w \in Workflows : Run(w) \/ WorkflowError(w)
  <2>0. PICK w \in Workflows : \E r : Turn(w, r)
    BY <1>4, TurnTaken
  <2>1. PICK r : Turn(w, r)
    BY <2>0
  <2>2. r \in WorkflowType /\ Fit(r) /\ wf' = [wf EXCEPT ![w] = r] /\ UNCHANGED <<wfId, req>>
    BY <2>1 DEF Turn, Locals
  <2>3. /\ row' \in [Samples -> {"none", "good", "bad"}]
        /\ job' \in [Samples -> {"absent", "queued", "active", "done"}]
        /\ happened' \in {happened, happened \cup {"timeout"}, happened \cup {"step"}}
    BY <2>1 DEF Turn
  <2>4. processed' \in 0..Cardinality(Samples)
    <3>1. processed' = Cardinality(HasRow) \/ processed' = processed
      BY <2>1 DEF Turn
    <3> QED BY <1>0, <3>1, Counts DEF TypeOK
  <2>5. /\ status' \in {"none", "running", "success", "failed", "stopped"}
        /\ control' \in {"none", "stop", "resume"}
    <3>1. wf[w].pc = "final" => wf[w].kind \in {"success", "failed", "stopped"}
      BY <1>0 DEF TypeOK, WorkflowType, Fit
    <3>2. \/ UNCHANGED <<status, control>>
          \/ status' = "running" /\ control' \in {control, "none"}
          \/ wf[w].pc = "final" /\ status' = wf[w].kind /\ control' = "none"
      BY <2>1 DEF Turn
    <3> QED BY <1>0, <3>1, <3>2 DEF TypeOK
  <2>6. wf' \in [Workflows -> WorkflowType] /\ \A v \in Workflows : Fit(wf'[v])
    BY <1>0, <2>2 DEF TypeOK
  <2> QED BY <1>0, <2>2, <2>3, <2>4, <2>5, <2>6 DEF Shape, TypeOK, Fits, FaultKinds
<1>5. CASE \E s \in Samples : StartJob(s) \/ EndJob(s) \/ RequeueJob(s) \/ LoseResult(s)
  <2>1. /\ UNCHANGED <<expVars, req, wf>>
        /\ job' \in [Samples -> {"absent", "queued", "active", "done"}]
        /\ row' \in [Samples -> {"none", "good", "bad"}]
        /\ happened' \subseteq happened \cup {"lose"}
    BY <1>5, JobSteps
  <2> QED BY <1>0, <2>1 DEF Shape, TypeOK, Fits, expVars, FaultKinds
<1>6. CASE Restart
  <2>1. /\ UNCHANGED <<expVars, job, row>>
        /\ \E k \in {"restart", "lookup", "crash"} : happened' = happened \cup {k}
        /\ req' \in [Requests -> RequestType] /\ wf' \in [Workflows -> WorkflowType]
        /\ \A w \in Workflows : wf'[w] = Replayed(wf[w])
    BY <1>6, RestartStep
  <2>2. \A w \in Workflows : Fit(wf'[w])
    BY <1>0, <2>1, ReplayFacts DEF TypeOK
  <2> QED BY <1>0, <2>1, <2>2 DEF Shape, TypeOK, Fits, expVars, FaultKinds
<1> QED BY <1>1, <1>2, <1>3, <1>4, <1>5, <1>6, StepKinds

\* Every variable keeps its type, the locals of the workflows included.
THEOREM TypeCorrect == Spec => []TypeOK
<1>1. Spec => []Shape
  BY InitShape, ShapeStep, PTL DEF Spec
<1>2. Shape => TypeOK
  BY DEF Shape
<1> QED BY <1>1, <1>2, PTL

-----------------------------------------------------------------------------
(* The snapshot.                                                            *)

\* Unless a batch outlasted its timeout, no sample of a finished batch is
\* without its row.
Covered ==
    "timeout" \notin happened =>
        /\ \A w \in Workflows : Covers(wf[w])
        /\ status = "success" => HasRow = Samples

\* Unless two workflows met, one at most is at work, it is at its ends when the
\* experiment is not running, and nobody brings back a job it drops.
Alone ==
    "twin" \notin happened =>
        /\ \A v, w \in Workflows : Live(v) /\ Live(w) => v = w
        /\ status \in {"stopped", "success"} =>
              \A w \in Workflows : Live(w) => wf[w].pc \in {"load", "mark", "final"}
        /\ \A w \in Workflows : \A s \in wf[w].dropped : job[s] = "absent"

\* A job whose row is still to come belongs to a batch that is waited for.
Attended ==
    happened \cap {"timeout", "step", "twin"} = {} =>
        \A s \in Samples : job[s] # "absent" /\ row[s] = "none" =>
            \E w \in Workflows : s \in Awaits(wf[w])

\* Between two batches the snapshot counts every row.
Counted ==
    happened \cap {"timeout", "step", "twin", "retry"} = {} =>
        (\E w \in Workflows : wf[w].pc \in Busy) \/ processed = Cardinality(HasRow)

Free == Covered /\ Alone /\ Attended /\ Counted

LEMMA InitFree == Init => Free
<1> SUFFICES ASSUME Init PROVE Free
  OBVIOUS
<1>1. \A w \in Workflows : wf[w].pc = "none" /\ wf[w].batch = 1 /\ wf[w].dropped = {}
  BY NewFacts DEF Init
<1>2. HasRow = {}
  BY DEF Init, HasRow
<1>3. Cardinality(HasRow) = 0
  BY <1>2, FS_EmptySet
<1> QED BY <1>1, <1>3 DEF Init, Free, Covered, Covers, Alone, Attended, Counted, Live

LEMMA FreeRequest ==
  ASSUME Shape, Free, UNCHANGED <<job, row, wf>>, status' \in {status, "running", "failed"},
         UNCHANGED processed \/ (processed' = 0 /\ "retry" \in happened'),
         happened \subseteq happened'
  PROVE  Free'
<1>0. UNCHANGED HasRow /\ \A w \in Workflows : (Covers(wf[w]) => Covers(wf[w])') /\ (Live(w)' <=> Live(w))
  BY DEF HasRow, Covers, Live
<1>1. Covered'
  BY <1>0 DEF Free, Covered
<1>2. Alone'
  BY <1>0 DEF Free, Alone
<1>3. Attended'
  BY DEF Free, Attended, Awaits
<1>4. Counted'
  BY <1>0 DEF Free, Counted
<1> QED BY <1>1, <1>2, <1>3, <1>4 DEF Free

LEMMA FreeLaunch ==
  ASSUME Shape, Free, NEW c \in Requests, Launch(c)
  PROVE  Free'
<1>1. PICK w \in Workflows, r \in WorkflowType :
           /\ wf[w].pc = "none" /\ r.pc = "load" /\ Fit(r) /\ Locals(w, r)
           /\ r.dropped = {} /\ r.batch = 1
           /\ UNCHANGED <<expVars, job, row>>
           /\ happened' \in {happened, happened \cup {"twin"}}
           /\ "twin" \notin happened' => \A v \in Workflows : ~Live(v)
  BY LaunchStep
<1>2. /\ \A v \in Workflows : wf'[v] = IF v = w THEN r ELSE wf[v]
      /\ UNCHANGED <<HasRow, status, processed>>
  BY <1>1 DEF Locals, Shape, TypeOK, HasRow, expVars
<1>3. Covered'
  <2>1. Covers(r)'
    BY <1>1 DEF Covers
  <2>2. \A v \in Workflows : Covers(wf[v]) => Covers(wf[v])'
    BY <1>2, <2>1 DEF Covers
  <2> QED BY <1>1, <1>2, <2>2 DEF Free, Covered
<1>4. Alone'
  <2>1. "twin" \notin happened' => \A v \in Workflows : Live(v)' => v = w
    BY <1>1, <1>2 DEF Live
  <2> QED BY <1>1, <1>2, <2>1 DEF Free, Alone
<1>5. Attended'
  <2>1. \A v \in Workflows : \A s : s \in Awaits(wf[v]) => s \in Awaits(wf[v])'
    BY <1>1, <1>2 DEF Awaits, Polling
  <2> QED BY <1>1, <2>1 DEF Free, Attended
<1>6. Counted'
  <2>1. \A v \in Workflows : wf[v].pc \in Busy => wf'[v].pc \in Busy
    BY <1>1, <1>2 DEF Busy, Polling
  <2> QED BY <1>1, <1>2, <2>1 DEF Free, Counted
<1> QED BY <1>3, <1>4, <1>5, <1>6 DEF Free

LEMMA FreeTurn ==
  ASSUME Shape, Free, NEW w \in Workflows, NEW r, Turn(w, r)
  PROVE  Free'
<1>1. /\ \A v \in Workflows : wf'[v] = IF v = w THEN r ELSE wf[v]
      /\ r \in WorkflowType /\ Fit(r) /\ Live(w) /\ r.pc # "none"
      /\ happened \subseteq happened'
      /\ \A s \in Samples : row[s] # "none" => row'[s] # "none"
  BY DEF Turn, Locals, Shape, TypeOK
<1>2. \A v \in Workflows : v # w => (Live(v)' <=> Live(v))
  BY <1>1 DEF Live
<1>3. Live(w)' => wf[w].pc # "final"
  BY <1>1 DEF Turn, Live
<1>4. "twin" \notin happened =>
          /\ \A v \in Workflows : v # w => ~Live(v) /\ wf[v].dropped = {}
          /\ \A s \in wf[w].dropped : job[s] = "absent"
  <2>1. \A v \in Workflows : ~Live(v) => wf[v].dropped = {}
    BY DEF Shape, Fits, Fit, Live
  <2> QED BY <1>1, <2>1 DEF Free, Alone
<1>5. Covered'
  <2> SUFFICES ASSUME "timeout" \notin happened'
               PROVE  (\A v \in Workflows : Covers(wf[v])') /\ (status' = "success" => HasRow' = Samples)
    BY DEF Covered
  <2>1. (\A v \in Workflows : Covers(wf[v])) /\ (status = "success" => HasRow = Samples)
    BY <1>1 DEF Free, Covered
  <2>2. ASSUME NEW v \in Workflows PROVE Covers(wf[v])'
    <3>1. CASE v = w
      <4>1. Covers(r)'
        BY <2>1 DEF Turn
      <4> QED BY <1>1, <3>1, <4>1 DEF Covers
    <3>2. CASE v # w
      <4>1. PICK l : l = wf[v]
        OBVIOUS
      <4>2. Covers(l)'
        BY <1>1, <2>1, <4>1, CoversStays, BatchFacts
      <4> QED BY <1>1, <3>2, <4>1, <4>2 DEF Covers
    <3> QED BY <3>1, <3>2
  <2>3. ASSUME status' = "success" PROVE HasRow' = Samples
    <3>1. HasRow = Samples
      <4>1. status = "success" \/ (wf[w].pc = "final" /\ wf[w].kind = "success")
        BY <2>3 DEF Turn
      <4> QED BY <2>1, <4>1 DEF Covers
    <3> QED BY <1>1, <3>1 DEF HasRow
  <2> QED BY <2>2, <2>3
<1>6. Alone'
  <2> SUFFICES ASSUME "twin" \notin happened'
               PROVE  /\ \A u, v \in Workflows : Live(u)' /\ Live(v)' => u = v
                      /\ status' \in {"stopped", "success"} =>
                           \A v \in Workflows : Live(v)' => wf'[v].pc \in {"load", "mark", "final"}
                      /\ \A v \in Workflows : \A s \in wf'[v].dropped : job'[s] = "absent"
    BY DEF Alone
  <2>1. "twin" \notin happened
    BY <1>1
  <2>2. \A v \in Workflows : Live(v)' => v = w
    BY <1>2, <1>4, <2>1
  <2>3. ASSUME status' \in {"stopped", "success"}, Live(w)' PROVE r.pc \in {"load", "mark", "final"}
    <3>1. wf[w].pc # "final"
      BY <1>3, <2>3
    <3>2. status' = status
      BY <2>3, <3>1 DEF Turn
    <3>3. wf[w].pc \in {"load", "mark"}
      BY <1>1, <2>1, <2>3, <3>1, <3>2 DEF Free, Alone
    <3> QED BY <2>3, <3>3 DEF Turn
  <2>4. \A s \in r.dropped : job'[s] = "absent"
    BY <1>4, <2>1 DEF Turn
  <2> QED BY <1>1, <1>4, <2>1, <2>2, <2>3, <2>4
<1>7. Attended'
  <2> SUFFICES ASSUME happened' \cap {"timeout", "step", "twin"} = {},
                      NEW s \in Samples, job'[s] # "absent", row'[s] = "none"
               PROVE  \E v \in Workflows : s \in Awaits(wf'[v])
    BY DEF Attended, Awaits
  <2>1. happened \cap {"timeout", "step", "twin"} = {} /\ row[s] = "none"
    BY <1>1
  <2>2. CASE job[s] = "absent"
    BY <1>1, <2>2 DEF Turn
  <2>3. CASE job[s] # "absent"
    <3>1. PICK v \in Workflows : s \in Awaits(wf[v])
      BY <2>1, <2>3 DEF Free, Attended
    <3>2. CASE v = w
      <4>1. s \in Awaits(r)
        BY <1>4, <2>1, <3>1, <3>2 DEF Turn
      <4> QED BY <1>1, <4>1
    <3>3. CASE v # w
      BY <1>1, <3>1, <3>3
    <3> QED BY <3>2, <3>3
  <2> QED BY <2>2, <2>3
<1>8. Counted'
  <2> SUFFICES ASSUME happened' \cap {"timeout", "step", "twin", "retry"} = {}
               PROVE  (\E v \in Workflows : wf'[v].pc \in Busy) \/ processed' = Cardinality(HasRow')
    BY DEF Counted
  <2>1. CASE processed' = Cardinality(HasRow) /\ UNCHANGED row
    BY <2>1 DEF HasRow
  <2>2. CASE UNCHANGED processed /\ (wf[w].pc \in Busy => r.pc \in Busy \/ "step" \in happened')
    <3>1. CASE wf[w].pc \in Busy
      BY <1>1, <2>2, <3>1
    <3>2. CASE wf[w].pc \notin Busy
      <4>1. UNCHANGED HasRow
        BY <3>2 DEF Turn, Busy, HasRow
      <4>2. (\E v \in Workflows : wf[v].pc \in Busy) \/ processed = Cardinality(HasRow)
        BY <1>1 DEF Free, Counted
      <4> QED BY <1>1, <2>2, <3>2, <4>1, <4>2
    <3> QED BY <3>1, <3>2
  <2> QED BY <2>1, <2>2 DEF Turn
<1> QED BY <1>5, <1>6, <1>7, <1>8 DEF Free

LEMMA FreeJob ==
  ASSUME Shape, Free, NEW s \in Samples, StartJob(s) \/ EndJob(s) \/ RequeueJob(s) \/ LoseResult(s)
  PROVE  Free'
<1>1. /\ UNCHANGED <<expVars, wf>> /\ happened \subseteq happened'
      /\ \A i \in Samples : (job'[i] = "absent") <=> (job[i] = "absent")
      /\ \A i \in Samples : row[i] # "none" => row'[i] # "none"
      /\ UNCHANGED row \/ (job[s] = "active" /\ \A i \in Samples \ {s} : row'[i] = row[i])
  BY JobSteps
<1>2. UNCHANGED <<status, processed>> /\ \A w \in Workflows : Live(w)' <=> Live(w)
  BY <1>1 DEF expVars, Live
<1>3. Covered'
  <2>1. \A w \in Workflows : Covers(wf[w]) => Covers(wf[w])'
    <3> SUFFICES ASSUME NEW w \in Workflows, Covers(wf[w]) PROVE Covers(wf[w])'
      OBVIOUS
    <3>1. PICK l : l = wf[w]
      OBVIOUS
    <3>2. Covers(l)'
      BY <1>1, <3>1, CoversStays, BatchFacts
    <3> QED BY <1>1, <3>1, <3>2 DEF Covers
  <2> QED BY <1>1, <1>2, <2>1 DEF Free, Covered, HasRow
<1>4. Alone'
  <2>1. \A w \in Workflows : wf[w].dropped \subseteq Samples
    BY DEF Shape, TypeOK, WorkflowType
  <2> QED BY <1>1, <1>2, <2>1 DEF Free, Alone
<1>5. Attended'
  BY <1>1 DEF Free, Attended, Awaits
<1>6. Counted'
  <2> SUFFICES ASSUME happened' \cap {"timeout", "step", "twin", "retry"} = {}
               PROVE  (\E v \in Workflows : wf'[v].pc \in Busy) \/ processed' = Cardinality(HasRow')
    BY DEF Counted
  <2>1. CASE UNCHANGED HasRow
    BY <1>1, <1>2, <2>1 DEF Free, Counted
  <2>2. CASE HasRow' # HasRow
    <3>1. job[s] = "active" /\ row[s] = "none"
      BY <1>1, <2>2 DEF HasRow
    <3>2. PICK w \in Workflows : s \in Awaits(wf[w])
      BY <1>1, <3>1 DEF Free, Attended
    <3> QED BY <1>1, <3>2 DEF Awaits, Busy
  <2> QED BY <2>1, <2>2
<1> QED BY <1>3, <1>4, <1>5, <1>6 DEF Free

LEMMA FreeRestart ==
  ASSUME Shape, Free, Restart
  PROVE  Free'
<1>1. /\ UNCHANGED <<expVars, job, row>> /\ happened \subseteq happened'
      /\ \A w \in Workflows : wf'[w] = Replayed(wf[w])
  BY RestartStep
<1>2. \A w \in Workflows :
         /\ wf'[w].pc = wf[w].pc \/ (wf'[w].pc = "poll" /\ wf[w].pc \in Polling)
         /\ Awaits(wf[w]) \subseteq Awaits(wf'[w])
         /\ Covers(wf[w]) => Covers(wf'[w])
         /\ wf'[w].dropped = {}
         /\ (wf'[w].pc \in Busy) <=> (wf[w].pc \in Busy)
  BY <1>1, ReplayFacts DEF Shape, TypeOK, Fits
<1>3. UNCHANGED <<status, processed, HasRow>> /\ \A w \in Workflows : Live(w)' <=> Live(w)
  BY <1>1, <1>2 DEF expVars, Live, HasRow, Polling
<1>4. Covered'
  <2>1. \A w \in Workflows : Covers(wf[w]) => Covers(wf[w])'
    BY <1>2, <1>3 DEF Covers
  <2> QED BY <1>1, <1>3, <2>1 DEF Free, Covered
<1>5. Alone'
  BY <1>1, <1>2, <1>3 DEF Free, Alone, Polling
<1>6. Attended'
  <2>1. \A w \in Workflows : \A s : s \in Awaits(wf[w]) => s \in Awaits(wf[w])'
    BY <1>2 DEF Awaits
  <2> QED BY <1>1, <2>1 DEF Free, Attended
<1>7. Counted'
  BY <1>1, <1>2, <1>3 DEF Free, Counted
<1> QED BY <1>4, <1>5, <1>6, <1>7 DEF Free

LEMMA FreeStep == Shape /\ Free /\ [Next]_vars => Free'
<1> SUFFICES ASSUME Shape, Free, [Next]_vars PROVE Free'
  OBVIOUS
<1>1. CASE UNCHANGED vars
  BY <1>1, FreeRequest DEF vars, expVars
<1>2. CASE \/ \E c \in Clients : Create(c) \/ Request(c)
           \/ \E c \in Requests : Patch(c) \/ SetWorkflowId(c) \/ LaunchFails(c)
           \/ Recover
  BY <1>2, RequestSteps, FreeRequest
<1>3. CASE \E c \in Requests : Launch(c)
  BY <1>3, FreeLaunch
<1>4. CASE \E w \in Workflows : Run(w) \/ WorkflowError(w)
  BY <1>4, TurnTaken, FreeTurn
<1>5. CASE \E s \in Samples : StartJob(s) \/ EndJob(s) \/ RequeueJob(s) \/ LoseResult(s)
  BY <1>5, FreeJob
<1>6. CASE Restart
  BY <1>6, FreeRestart
<1> QED BY <1>1, <1>2, <1>3, <1>4, <1>5, <1>6, StepKinds

\* For any dataset, number of clients and workflows and any faults: a stopped or
\* successful experiment's progress counts every result, and a success has a
\* result for every sample, whatever requests, recoveries and workflows overlap.
THEOREM SnapshotIsExact == Spec => []SnapshotExact
<1>1. Spec => [](Shape /\ Free)
  BY InitShape, ShapeStep, InitFree, FreeStep, PTL DEF Spec
<1>2. Shape /\ Free => SnapshotExact
  <2> SUFFICES ASSUME Shape, Free PROVE SnapshotExact
    OBVIOUS
  <2>1. ASSUME status \in {"stopped", "success"},
               happened \cap {"timeout", "step", "setid", "twin", "retry"} = {}
        PROVE  processed = Cardinality(HasRow)
    <3>1. \A w \in Workflows : wf[w].pc \notin Busy
      BY <2>1 DEF Free, Alone, Live, Busy, Polling
    <3> QED BY <2>1, <3>1 DEF Free, Counted
  <2> QED BY <2>1 DEF Free, Covered, SnapshotExact
<1> QED BY <1>1, <1>2, PTL

-----------------------------------------------------------------------------
(* Requests that come one after the other.                                  *)

\* What the guarantees about a stop need of the users: whoever controls the
\* experiment waits for the answer before the next request.
OneRequest == \A c, d \in Clients : req[c].pc # "idle" /\ req[d].pc # "idle" => c = d

\* No request is handled before the recovery is done, and the recovery acts on
\* an experiment that exists.
RequestsFit ==
    /\ req[Recovery].pc # "idle" => \A c \in Clients : req[c].pc = "idle"
    /\ req[Recovery].pc # "patch" /\ \A c \in Clients : req[c].pc # "scan"
    /\ \A c \in Clients : req[c].pc = "patch" => req[c].action \in Actions
    /\ status = "none" => /\ \A w \in Workflows : wf[w].pc = "none"
                          /\ \A c \in Clients : req[c].pc = "idle"
                          /\ req[Recovery].pc \in {"idle", "scan"}

\* No failure made the row and its workflow lose each other.
InTouch == happened \cap {"setid", "crash", "lookup"} = {}

\* Then the experiment is running exactly while a workflow is at work or about
\* to start, and the row knows that workflow.
Serial ==
    InTouch =>
        /\ "twin" \notin happened
        /\ \A w \in Workflows : Live(w) =>
              /\ status = "running"
              /\ \/ \E c \in Clients : req[c].pc = "setid" /\ req[c].new = w
                 \/ wfId = w /\ \A c \in Clients : req[c].pc # "setid"
        /\ status = "running" =>
              (\E w \in Workflows : Live(w)) \/ (\E c \in Clients : req[c].pc = "launch")
        /\ req[Recovery].pc \in {"idle", "scan"}
        /\ \A c \in Clients :
              /\ req[c].pc = "launch" => status = "running" /\ \A w \in Workflows : ~Live(w)
              /\ req[c].pc = "patch" /\ Launches(req[c].action) => status \in {"stopped", "failed"}

\* A request that would overwrite a stop was checked when there was none, and a
\* workflow starts when there is none.
Heard ==
    "twin" \notin happened =>
        /\ \A c \in Clients :
              /\ req[c].pc = "patch" /\ req[c].action # "stop" => ~(status = "running" /\ control = "stop")
              /\ req[c].pc = "patch" /\ req[c].action = "stop" =>
                    status = "running" \/ \A w \in Workflows : ~Live(w)
        /\ \A c \in Requests : req[c].pc = "launch" => status = "running" \/ control # "stop"
        /\ status # "running" /\ control = "stop" => \A w \in Workflows : wf[w].pc \notin {"load", "mark"}

Ordered == RequestsFit /\ Serial /\ Heard

LEMMA InitOrdered == Init => Ordered
<1> SUFFICES ASSUME Init PROVE Ordered
  OBVIOUS
<1>1. \A c \in Requests : req[c].pc = "idle"
  BY DEF Init, IdleRequest
<1>2. Recovery \in Requests /\ Clients \subseteq Requests
  BY DEF Requests
<1>3. \A w \in Workflows : wf[w].pc = "none"
  BY NewFacts DEF Init
<1> QED BY <1>1, <1>2, <1>3 DEF Init, Ordered, RequestsFit, Serial, Heard, Live

LEMMA RequestFacts ==
  /\ Recovery \in Requests /\ Recovery \notin Clients
  /\ \A c \in Clients : c \in Requests /\ c # Recovery
  /\ \A c \in Requests : c \in Clients \/ c = Recovery
BY ExperimentAssumption DEF Requests

\* A client's request that moves on while no other is handled.
LEMMA OneMoves ==
  ASSUME Shape, RequestsFit, OneRequest, NEW c \in Clients, req[c].pc # "idle", NEW q,
         req' = [req EXCEPT ![c] = q]
  PROVE  /\ req'[c] = q
         /\ \A d \in Requests : d # c => req[d].pc = "idle" /\ req'[d].pc = "idle"
<1>1. req \in [Requests -> RequestType]
  BY DEF Shape, TypeOK
<1>2. req[Recovery].pc = "idle"
  BY DEF RequestsFit
<1>3. \A d \in Clients : d # c => req[d].pc = "idle"
  BY DEF OneRequest
<1> QED BY <1>1, <1>2, <1>3, RequestFacts

LEMMA OrderedCreate ==
  ASSUME Shape, Free, Ordered, NEW c \in Clients, Create(c)
  PROVE  Ordered'
<1>1. /\ \A d \in Requests : d # c => req'[d] = req[d]
      /\ req'[c].pc = "launch" /\ status = "none" /\ status' = "running" /\ req[Recovery].pc = "idle"
      /\ UNCHANGED <<control, wfId, wf, happened>>
  BY RequestFacts DEF Create, Listening, Shape, TypeOK
<1>2. /\ \A w \in Workflows : wf[w].pc = "none" /\ wf'[w].pc = "none"
      /\ \A d \in Clients : req[d].pc = "idle"
  BY <1>1 DEF Ordered, RequestsFit
<1>3. RequestsFit'
  BY <1>1, <1>2, RequestFacts DEF RequestsFit
<1>4. Serial'
  BY <1>1, <1>2, RequestFacts DEF Ordered, Serial, InTouch, Live
<1>5. Heard'
  BY <1>1, <1>2, RequestFacts DEF Heard
<1> QED BY <1>3, <1>4, <1>5 DEF Ordered

LEMMA OrderedRequest ==
  ASSUME Shape, Free, Ordered, NEW c \in Clients, Request(c)
  PROVE  Ordered'
<1>0. req[Recovery].pc = "idle" /\ UNCHANGED <<status, control, wfId, wf, happened>> /\ req[c].pc = "idle"
  BY DEF Request, Listening, expVars
<1>1. PICK a \in Actions :
         /\ status \in AllowedIn(a)
         /\ req' = [req EXCEPT ![c] = [pc |-> "patch", action |-> a, new |-> None]]
  BY DEF Request
<1>2. /\ \A d \in Requests : d # c => req'[d] = req[d]
      /\ req'[c].pc = "patch" /\ req'[c].action = a
  BY <1>1, RequestFacts DEF Shape, TypeOK
<1>3. a \in {"stop", "cancel", "resume", "retry"}
  BY ExperimentAssumption
<1>4. /\ a = "stop" => status = "running"
      /\ a # "stop" => status \in {"stopped", "failed"}
  BY <1>1, <1>3 DEF AllowedIn
<1>5. RequestsFit'
  BY <1>0, <1>2, <1>3, <1>4, RequestFacts DEF Ordered, RequestsFit
<1>6. Serial'
  BY <1>0, <1>2, <1>3, <1>4, RequestFacts DEF Ordered, Serial, InTouch, Live, Launches
<1>7. Heard'
  BY <1>0, <1>2, <1>3, <1>4, RequestFacts DEF Ordered, Heard, Live
<1> QED BY <1>5, <1>6, <1>7 DEF Ordered

LEMMA OrderedPatch ==
  ASSUME Shape, Free, Ordered, OneRequest, NEW c \in Requests, Patch(c)
  PROVE  Ordered'
<1>0. /\ c \in Clients /\ req[c].pc = "patch" /\ UNCHANGED <<wfId, wf>>
      /\ happened \subseteq happened' /\ happened' \subseteq happened \cup {"retry"}
  BY RequestFacts DEF Patch, Ordered, RequestsFit
<1>1. PICK a : a = req[c].action
  OBVIOUS
<1>2. PICK q : q = IF Launches(a) THEN [req[c] EXCEPT !.pc = "launch"] ELSE IdleRequest
  OBVIOUS
<1>3. /\ req' = [req EXCEPT ![c] = q]
      /\ status' = (IF Launches(a) THEN "running" ELSE status)
      /\ control' = IF a \in {"stop", "resume"} THEN a ELSE "none"
  BY <1>1, <1>2 DEF Patch, StatusPatched
<1>4. q.pc = (IF Launches(a) THEN "launch" ELSE "idle")
  BY <1>0, <1>2 DEF Shape, TypeOK, RequestType, IdleRequest
<1>5. /\ req'[c] = q
      /\ \A d \in Requests : d # c => req[d].pc = "idle" /\ req'[d].pc = "idle"
  BY <1>0, <1>3, OneMoves DEF Ordered
<1>6. status # "none"
  BY <1>0 DEF Ordered, RequestsFit
<1>7. RequestsFit'
  BY <1>0, <1>3, <1>4, <1>5, <1>6, RequestFacts DEF RequestsFit
<1>8. Serial'
  <2> SUFFICES ASSUME InTouch' PROVE Serial'
    BY DEF Serial
  <2>1. InTouch /\ "twin" \notin happened /\ "twin" \notin happened'
    BY <1>0 DEF InTouch, Ordered, Serial
  <2>2. CASE Launches(a)
    <3>1. \A w \in Workflows : ~Live(w) /\ ~Live(w)'
      BY <1>0, <1>1, <2>1, <2>2 DEF Ordered, Serial, Live
    <3> QED BY <1>0, <1>3, <1>4, <1>5, <2>1, <2>2, <3>1, RequestFacts DEF Serial
  <2>3. CASE ~Launches(a)
    <3>1. \A w \in Workflows : Live(w)' <=> Live(w)
      BY <1>0 DEF Live
    <3>2. \A d \in Clients : req[d].pc \notin {"setid", "launch"} /\ req'[d].pc = "idle"
      BY <1>0, <1>4, <1>5, <2>3, RequestFacts
    <3>3. status' = status /\ wfId' = wfId /\ req'[Recovery].pc = "idle"
      BY <1>0, <1>3, <1>5, <2>3, RequestFacts
    <3>4. \A w \in Workflows : Live(w) => status = "running" /\ wfId = w
      BY <2>1, <3>2 DEF Ordered, Serial
    <3>5. status = "running" => \E w \in Workflows : Live(w)
      BY <2>1, <3>2 DEF Ordered, Serial
    <3> QED BY <2>1, <3>1, <3>2, <3>3, <3>4, <3>5 DEF Serial
  <2> QED BY <2>2, <2>3
<1>9. Heard'
  <2> SUFFICES ASSUME "twin" \notin happened' PROVE Heard'
    BY DEF Heard
  <2>1. "twin" \notin happened
    BY <1>0
  <2>2. \A d \in Requests : /\ req'[d].pc # "patch"
                            /\ req'[d].pc = "launch" => d = c /\ status' = "running"
    BY <1>3, <1>4, <1>5
  <2>3. ASSUME status' # "running", control' = "stop"
        PROVE  \A w \in Workflows : wf'[w].pc \notin {"load", "mark"}
    <3>1. a = "stop" /\ status # "running"
      BY <1>3, <2>3
    <3>2. \A w \in Workflows : ~Live(w)
      BY <1>0, <1>1, <2>1, <3>1 DEF Ordered, Heard
    <3> QED BY <1>0, <3>2 DEF Live
  <2> QED BY <2>2, <2>3, RequestFacts DEF Heard
<1> QED BY <1>7, <1>8, <1>9 DEF Ordered

LEMMA OrderedLaunch ==
  ASSUME Shape, Free, Ordered, OneRequest, NEW c \in Requests, Launch(c)
  PROVE  Ordered'
<1>1. PICK w \in Workflows, r \in WorkflowType :
           /\ wf[w].pc = "none" /\ r.pc = "load" /\ Fit(r) /\ Locals(w, r)
           /\ req' = [req EXCEPT ![c] = [req[c] EXCEPT !.pc = "setid", !.new = w]]
           /\ UNCHANGED <<expVars, job, row>>
           /\ happened' \in {happened, happened \cup {"twin"}}
           /\ "twin" \notin happened' => \A v \in Workflows : ~Live(v)
  BY LaunchStep
<1>2. PICK q : q = [req[c] EXCEPT !.pc = "setid", !.new = w]
  OBVIOUS
<1>3. q.pc = "setid" /\ q.new = w /\ req[c].pc = "launch"
  BY <1>2 DEF Shape, TypeOK, RequestType, Launch
<1>4. req'[c] = q /\ \A d \in Requests : d # c => req'[d] = req[d]
  BY <1>1, <1>2 DEF Shape, TypeOK
<1>5. \A d \in Clients : d # c => req[d].pc = "idle"
  BY <1>3, RequestFacts DEF Ordered, RequestsFit, OneRequest
<1>6. UNCHANGED <<status, control, wfId>> /\ \A v \in Workflows : wf'[v] = IF v = w THEN r ELSE wf[v]
  BY <1>1 DEF expVars, Locals, Shape, TypeOK
<1>7. status # "none"
  BY <1>3, RequestFacts DEF Ordered, RequestsFit
<1>8. RequestsFit'
  BY <1>3, <1>4, <1>5, <1>6, <1>7, RequestFacts DEF Ordered, RequestsFit
<1>9. Serial'
  <2> SUFFICES ASSUME InTouch' PROVE Serial'
    BY DEF Serial
  <2>1. InTouch /\ "twin" \notin happened
    BY <1>1 DEF InTouch, Ordered, Serial
  <2>2. c \in Clients /\ status = "running" /\ \A v \in Workflows : ~Live(v)
    BY <1>3, <2>1, RequestFacts DEF Ordered, Serial
  <2>3. "twin" \notin happened'
    <3>1. \A v \in Workflows : ~Live(v)
      BY <2>2
    <3>2. {"twin" : v \in {v \in Workflows : Live(v)}} = {}
      BY <3>1
    <3>3. happened' = happened \cup {"twin" : v \in {v \in Workflows : Live(v)}}
      BY DEF Launch
    <3> QED BY <2>1, <3>2, <3>3
  <2>4. \A v \in Workflows : Live(v)' <=> v = w
    BY <1>1, <1>6, <2>2 DEF Live
  <2>5. req'[Recovery].pc \in {"idle", "scan"}
    BY <1>4, <2>1, <2>2, RequestFacts DEF Ordered, Serial
  <2> QED BY <1>3, <1>4, <1>5, <1>6, <2>2, <2>3, <2>4, <2>5, RequestFacts DEF Serial
<1>10. Heard'
  <2> SUFFICES ASSUME "twin" \notin happened' PROVE Heard'
    BY DEF Heard
  <2>1. "twin" \notin happened
    BY <1>1
  <2>2. status = "running" \/ control # "stop"
    BY <1>3, <2>1 DEF Ordered, Heard
  <2>3. \A d \in Requests : req'[d].pc # "launch" \/ status = "running" \/ control # "stop"
    BY <1>3, <1>4, <2>2
  <2>4. \A d \in Clients : req'[d].pc # "patch"
    BY <1>3, <1>4, <1>5, RequestFacts
  <2> QED BY <1>6, <2>2, <2>3, <2>4 DEF Heard
<1> QED BY <1>8, <1>9, <1>10 DEF Ordered

LEMMA OrderedSetId ==
  ASSUME Shape, Free, Ordered, OneRequest, NEW c \in Requests, SetWorkflowId(c)
  PROVE  Ordered'
<1>1. /\ req[c].pc = "setid" /\ wfId' = req[c].new /\ req' = [req EXCEPT ![c] = IdleRequest]
      /\ UNCHANGED <<status, control, wf, happened>>
  BY DEF SetWorkflowId
<1>2. /\ req'[c].pc = "idle" /\ \A d \in Requests : d # c => req'[d] = req[d]
      /\ \A d \in Clients : d # c => req[d].pc = "idle"
  BY <1>1, RequestFacts DEF Shape, TypeOK, IdleRequest, Ordered, RequestsFit, OneRequest
<1>3. \A w \in Workflows : Live(w)' <=> Live(w)
  BY <1>1 DEF Live
<1>4. RequestsFit'
  BY <1>1, <1>2, RequestFacts DEF Ordered, RequestsFit
<1>5. Serial'
  <2> SUFFICES ASSUME InTouch' PROVE Serial'
    BY DEF Serial
  <2>1. InTouch
    BY <1>1 DEF InTouch
  <2>2. c \in Clients
    BY <1>1, <2>1, RequestFacts DEF Ordered, Serial
  <2>3. \A w \in Workflows : Live(w) => req[c].new = w
    BY <1>1, <1>2, <2>1, <2>2 DEF Ordered, Serial
  <2>4. \A d \in Clients : req'[d].pc = "idle" /\ req[d].pc # "launch"
    BY <1>1, <1>2, RequestFacts
  <2>5. req'[Recovery].pc \in {"idle", "scan"}
    BY <1>2, <2>1, RequestFacts DEF Ordered, Serial
  <2> QED BY <1>1, <1>3, <2>1, <2>3, <2>4, <2>5 DEF Ordered, Serial
<1>6. Heard'
  BY <1>1, <1>2, <1>3, RequestFacts DEF Ordered, Heard
<1> QED BY <1>4, <1>5, <1>6 DEF Ordered

LEMMA OrderedFailure ==
  ASSUME Shape, Free, Ordered, OneRequest, NEW c \in Requests, LaunchFails(c)
  PROVE  Ordered'
<1>1. /\ req[c].pc \in {"launch", "setid"} /\ req' = [req EXCEPT ![c] = IdleRequest]
      /\ happened' = happened \cup {req[c].pc} /\ UNCHANGED <<wfId, wf>>
      /\ status' = IF c = Recovery THEN status ELSE "failed"
      /\ control' = IF c = Recovery THEN control ELSE "none"
  BY DEF LaunchFails, Fault
<1>2. /\ req'[c].pc = "idle" /\ \A d \in Requests : d # c => req'[d] = req[d]
      /\ \A d \in Clients : d # c => req[d].pc = "idle"
  BY <1>1, RequestFacts DEF Shape, TypeOK, IdleRequest, Ordered, RequestsFit, OneRequest
<1>3. \A w \in Workflows : Live(w)' <=> Live(w)
  BY <1>1 DEF Live
<1>4. RequestsFit'
  BY <1>1, <1>2, RequestFacts DEF Ordered, RequestsFit
<1>5. Serial'
  <2> SUFFICES ASSUME InTouch' PROVE Serial'
    BY DEF Serial
  <2>1. InTouch /\ req[c].pc = "launch" /\ "twin" \notin happened'
    BY <1>1 DEF InTouch, Ordered, Serial
  <2>2. c \in Clients /\ \A w \in Workflows : ~Live(w)
    BY <1>1, <2>1, RequestFacts DEF Ordered, Serial
  <2>3. \A d \in Clients : req'[d].pc = "idle"
    BY <1>2, RequestFacts
  <2>4. req'[Recovery].pc \in {"idle", "scan"}
    BY <1>2, <2>1, RequestFacts DEF Ordered, Serial
  <2>5. status' = "failed"
    BY <1>1, <2>2, RequestFacts
  <2> QED BY <1>3, <2>1, <2>2, <2>3, <2>4, <2>5 DEF Serial
<1>6. Heard'
  <2> SUFFICES ASSUME "twin" \notin happened' PROVE Heard'
    BY DEF Heard
  <2>1. "twin" \notin happened
    BY <1>1
  <2>2. \A d \in Requests : req'[d].pc \notin {"patch", "launch"}
    BY <1>1, <1>2, RequestFacts DEF Ordered, RequestsFit
  <2>3. status' # "running" /\ control' = "stop" => c = Recovery /\ status # "running" /\ control = "stop"
    BY <1>1
  <2> QED BY <1>1, <2>1, <2>2, <2>3, RequestFacts DEF Ordered, Heard
<1> QED BY <1>4, <1>5, <1>6 DEF Ordered

LEMMA OrderedRecover ==
  ASSUME Shape, Free, Ordered, Recover
  PROVE  Ordered'
<1>1. /\ req[Recovery].pc = "scan" /\ UNCHANGED <<status, control, wfId, wf, happened>>
      /\ \A d \in Clients : req'[d] = req[d] /\ req[d].pc = "idle"
  BY RequestFacts DEF Recover, expVars, Shape, TypeOK, Ordered, RequestsFit
<1>2. \/ req'[Recovery].pc = "launch" /\ Orphaned
      \/ req'[Recovery].pc = "idle"
  <2>1. CASE Orphaned /\ req' = [req EXCEPT ![Recovery] = [@ EXCEPT !.pc = "launch", !.action = "resume"]]
    BY <2>1, RequestFacts DEF Shape, TypeOK, RequestType
  <2>2. CASE req' = [req EXCEPT ![Recovery] = IdleRequest]
    BY <2>2, RequestFacts DEF Shape, TypeOK, RequestType, IdleRequest
  <2> QED BY <2>1, <2>2 DEF Recover
<1>3. RequestsFit'
  BY <1>1, <1>2 DEF Ordered, RequestsFit, Orphaned
<1>4. Serial'
  <2> SUFFICES ASSUME InTouch' PROVE Serial'
    BY DEF Serial
  <2>1. InTouch
    BY <1>1 DEF InTouch
  <2>2. ~Orphaned
    BY <1>1, <2>1 DEF Orphaned, Ordered, Serial, InTouch, Live
  <2>3. \A w \in Workflows : Live(w)' <=> Live(w)
    BY <1>1 DEF Live
  <2> QED BY <1>1, <1>2, <2>1, <2>2, <2>3 DEF Ordered, Serial
<1>5. Heard'
  <2>1. \A d \in Requests : req'[d].pc = "launch" => status = "running"
    BY <1>1, <1>2, RequestFacts DEF Orphaned
  <2>2. \A w \in Workflows : Live(w)' <=> Live(w)
    BY <1>1 DEF Live
  <2> QED BY <1>1, <2>1, <2>2 DEF Ordered, Heard
<1> QED BY <1>3, <1>4, <1>5 DEF Ordered

LEMMA OrderedTurn ==
  ASSUME Shape, Free, Ordered, NEW w \in Workflows, NEW r, Turn(w, r)
  PROVE  Ordered'
<1>1. /\ \A v \in Workflows : wf'[v] = IF v = w THEN r ELSE wf[v]
      /\ Live(w) /\ r.pc # "none" /\ r.pc # "load" /\ UNCHANGED <<wfId, req>>
      /\ r.pc = "mark" => wf[w].pc = "load"
      /\ wf[w].pc = "final" <=> r.pc = "done"
      /\ happened' \in {happened, happened \cup {"timeout"}, happened \cup {"step"}}
  BY DEF Turn, Locals, Shape, TypeOK
<1>2. /\ wf[w].pc # "final" => \/ UNCHANGED <<status, control>>
                               \/ status' = "running" /\ control' = control /\ wf[w].pc = "mark"
                               \/ status' = "running" /\ control' = "none"
      /\ wf[w].pc = "mark" => (r.pc = "final" /\ UNCHANGED status) \/ status' = "running"
  BY DEF Turn
<1>3. wf[w].pc = "final" => status' \in {"success", "failed", "stopped"} /\ control' \in {control, "none"}
  BY DEF Turn, Shape, TypeOK, WorkflowType, Fits, Fit
<1>4. /\ "twin" \notin happened' => "twin" \notin happened
      /\ "twin" \notin happened => \A v \in Workflows : v # w => ~Live(v) /\ ~Live(v)'
  BY <1>1 DEF Free, Alone, Live
<1>5. status # "none" /\ status' # "none"
  BY <1>1, <1>2, <1>3 DEF Ordered, RequestsFit, Live
<1>6. RequestsFit'
  BY <1>1, <1>5 DEF Ordered, RequestsFit
<1>7. Serial'
  <2> SUFFICES ASSUME InTouch' PROVE Serial'
    BY DEF Serial
  <2>1. InTouch /\ "twin" \notin happened /\ "twin" \notin happened'
    BY <1>1 DEF InTouch, Ordered, Serial
  <2>2. /\ status = "running"
        /\ \A c \in Clients : /\ req[c].pc # "launch"
                              /\ ~(req[c].pc = "patch" /\ Launches(req[c].action))
    BY <1>1, <2>1 DEF Ordered, Serial
  <2>3. CASE wf[w].pc = "final"
    <3>1. status' # "running" /\ \A v \in Workflows : ~Live(v)'
      BY <1>1, <1>3, <1>4, <2>1, <2>3 DEF Live
    <3> QED BY <1>1, <2>1, <2>2, <3>1 DEF Ordered, Serial
  <2>4. CASE wf[w].pc # "final"
    <3>1. status' = "running" /\ Live(w)' /\ \A v \in Workflows : v # w => ~Live(v)'
      BY <1>1, <1>2, <1>4, <2>1, <2>2, <2>4 DEF Live
    <3> QED BY <1>1, <2>1, <2>2, <3>1 DEF Ordered, Serial
  <2> QED BY <2>3, <2>4
<1>8. Heard'
  <2> SUFFICES ASSUME "twin" \notin happened' PROVE Heard'
    BY DEF Heard
  <2>1. "twin" \notin happened /\ \A v \in Workflows : v # w => ~Live(v) /\ ~Live(v)'
    BY <1>4
  <2>2. ASSUME NEW c \in Clients, req[c].pc = "patch", req[c].action # "stop"
        PROVE  ~(status' = "running" /\ control' = "stop")
    <3>1. ~(status = "running" /\ control = "stop")
      BY <2>1, <2>2 DEF Ordered, Heard
    <3>2. wf[w].pc = "mark" => status = "running" \/ control # "stop"
      BY <2>1 DEF Ordered, Heard
    <3> QED BY <1>2, <1>3, <3>1, <3>2
  <2>3. ASSUME NEW c \in Clients, req[c].pc = "patch", req[c].action = "stop"
        PROVE  status' = "running" \/ \A v \in Workflows : ~Live(v)'
    <3>1. status = "running"
      BY <1>1, <2>1, <2>3 DEF Ordered, Heard
    <3>2. CASE wf[w].pc = "final"
      BY <1>1, <2>1, <3>2 DEF Live
    <3>3. CASE wf[w].pc # "final"
      BY <1>2, <3>1, <3>3
    <3> QED BY <3>2, <3>3
  <2>4. ASSUME NEW c \in Requests, req[c].pc = "launch" PROVE status' = "running" \/ control' # "stop"
    <3>1. status = "running" \/ control # "stop"
      BY <2>1, <2>4 DEF Ordered, Heard
    <3>2. wf[w].pc = "final" => control' = "none"
      BY DEF Turn
    <3> QED BY <1>2, <3>1, <3>2
  <2>5. ASSUME status' # "running", control' = "stop"
        PROVE  \A v \in Workflows : wf'[v].pc \notin {"load", "mark"}
    <3>1. wf[w].pc # "final"
      BY <2>5 DEF Turn
    <3>2. UNCHANGED <<status, control>>
      BY <1>2, <2>5, <3>1
    <3>3. wf[w].pc # "load"
      BY <2>1, <2>5, <3>2 DEF Ordered, Heard
    <3> QED BY <1>1, <2>1, <3>3 DEF Live
  <2> QED BY <1>1, <2>2, <2>3, <2>4, <2>5 DEF Heard
<1> QED BY <1>6, <1>7, <1>8 DEF Ordered

LEMMA OrderedRestart ==
  ASSUME Shape, Free, Ordered, Restart
  PROVE  Ordered'
<1>1. /\ UNCHANGED <<expVars, job, row>>
      /\ \E k \in {"restart", "lookup", "crash"} : happened' = happened \cup {k}
      /\ \A c \in Requests : req'[c].pc = IF c = Recovery THEN "scan" ELSE "idle"
      /\ \A w \in Workflows : wf'[w] = Replayed(wf[w])
  BY RestartStep
<1>2. \A w \in Workflows : wf'[w].pc = wf[w].pc \/ (wf'[w].pc = "poll" /\ wf[w].pc \in Polling)
  BY <1>1, ReplayFacts DEF Shape, TypeOK, Fits
<1>3. \A w \in Workflows : Live(w)' <=> Live(w)
  BY <1>2 DEF Live, Polling
<1>4. UNCHANGED <<status, control, wfId>>
  BY <1>1 DEF expVars
<1>5. req'[Recovery].pc = "scan" /\ \A c \in Clients : req'[c].pc = "idle"
  BY <1>1, RequestFacts
<1>6. RequestsFit'
  BY <1>2, <1>4, <1>5 DEF Ordered, RequestsFit, Polling
<1>7. Serial'
  <2> SUFFICES ASSUME InTouch' PROVE Serial'
    BY DEF Serial
  <2>1. InTouch /\ "twin" \notin happened /\ "twin" \notin happened'
    BY <1>1 DEF InTouch, Ordered, Serial
  <2>2. \A c \in Clients : req[c].pc = "idle"
    BY RequestFacts DEF Restart, Fault, InTouch
  <2> QED BY <1>3, <1>4, <1>5, <2>1, <2>2 DEF Ordered, Serial
<1>8. Heard'
  <2>1. "twin" \notin happened' => "twin" \notin happened
    BY <1>1
  <2>2. \A c \in Requests : req'[c].pc \notin {"patch", "launch"}
    BY <1>1
  <2> QED BY <1>2, <1>4, <2>1, <2>2, RequestFacts DEF Ordered, Heard, Polling
<1> QED BY <1>6, <1>7, <1>8 DEF Ordered

LEMMA OrderedStep == Shape /\ Free /\ Ordered /\ OneRequest /\ [Next]_vars => Ordered'
<1> SUFFICES ASSUME Shape, Free, Ordered, OneRequest, [Next]_vars PROVE Ordered'
  OBVIOUS
<1>1. ASSUME UNCHANGED <<expVars, req, wf>>, happened \subseteq happened', happened' \subseteq happened \cup {"lose"}
      PROVE  Ordered'
  <2>1. /\ \A w \in Workflows : Live(w)' <=> Live(w)
        /\ UNCHANGED <<status, control, wfId>>
        /\ ("twin" \in happened') <=> ("twin" \in happened)
        /\ InTouch' <=> InTouch
    BY <1>1 DEF Live, expVars, InTouch
  <2>2. RequestsFit'
    BY <1>1, <2>1 DEF Ordered, RequestsFit
  <2>3. Serial'
    BY <1>1, <2>1 DEF Ordered, Serial
  <2>4. Heard'
    BY <1>1, <2>1 DEF Ordered, Heard
  <2> QED BY <2>2, <2>3, <2>4 DEF Ordered
<1>2. CASE UNCHANGED vars
  BY <1>1, <1>2 DEF vars
<1>3. CASE \E s \in Samples : StartJob(s) \/ EndJob(s) \/ RequeueJob(s) \/ LoseResult(s)
  BY <1>1, <1>3, JobSteps
<1>4. CASE \E w \in Workflows : Run(w) \/ WorkflowError(w)
  BY <1>4, TurnTaken, OrderedTurn
<1>5. CASE \E c \in Requests : Launch(c)
  BY <1>5, OrderedLaunch
<1>6. CASE Restart
  BY <1>6, OrderedRestart
<1>7. CASE \/ \E c \in Clients : Create(c) \/ Request(c)
           \/ \E c \in Requests : Patch(c) \/ SetWorkflowId(c) \/ LaunchFails(c)
           \/ Recover
  BY <1>7, OrderedCreate, OrderedRequest, OrderedPatch, OrderedSetId, OrderedFailure, OrderedRecover
<1> QED BY <1>2, <1>3, <1>4, <1>5, <1>6, <1>7, StepKinds

LEMMA AlwaysFree == Spec => [](Shape /\ Free)
BY InitShape, ShapeStep, InitFree, FreeStep, PTL DEF Spec

LEMMA AlwaysOrdered == Spec /\ []OneRequest => [](Shape /\ Free /\ Ordered)
<1>1. Init => Ordered
  BY InitOrdered
<1>2. Shape /\ Free /\ Ordered /\ OneRequest /\ [Next]_vars => Ordered'
  BY OrderedStep
<1> QED BY <1>1, <1>2, AlwaysFree, PTL DEF Spec

\* Once the status is stopped no result is still to come, and no two workflows
\* run the experiment, when requests come one after the other.
THEOREM StoppedSettles == Spec /\ []OneRequest => []StoppedIsSettled
<1>1. Shape /\ Free /\ Ordered => StoppedIsSettled
  <2> SUFFICES ASSUME Shape, Free, Ordered PROVE StoppedIsSettled
    OBVIOUS
  <2>1. ASSUME status = "stopped", happened \cap {"timeout", "step", "setid", "twin"} = {},
               NEW s \in Samples, job[s] \in {"queued", "active"}
        PROVE  row[s] # "none"
    <3>1. \A w \in Workflows : Awaits(wf[w]) = {}
      BY <2>1 DEF Free, Alone, Live, Awaits, Polling
    <3> QED BY <2>1, <3>1 DEF Free, Attended
  <2>2. ASSUME happened \cap {"setid", "crash", "lookup"} = {},
               NEW v \in Workflows, NEW w \in Workflows, Live(v), Live(w)
        PROVE  v = w
    BY <2>2 DEF Ordered, Serial, InTouch, Free, Alone
  <2> QED BY <2>1, <2>2 DEF StoppedIsSettled
<1> QED BY <1>1, AlwaysOrdered, PTL

\* An accepted stop is wiped out by nothing but the end of the run, unless two
\* workflows met, when requests come one after the other.
THEOREM StopHeard == Spec /\ []OneRequest => StopIsHeard
<1> DEFINE A == status = "running" /\ control = "stop" /\ control' # "stop" /\ "twin" \notin happened
                  => status' # "running"
<1>1. Shape /\ Free /\ Ordered /\ [Next]_vars => [A]_vars
  <2> SUFFICES ASSUME Shape, Free, Ordered, Next,
                      status = "running", control = "stop", control' # "stop", "twin" \notin happened
               PROVE  status' # "running"
    OBVIOUS
  <2>1. CASE \E c \in Requests : Patch(c)
    <3>1. PICK c \in Requests : Patch(c)
      BY <2>1
    <3>2. c \in Clients /\ req[c].pc = "patch" /\ req[c].action # "stop"
      BY <3>1, RequestFacts DEF Patch, Ordered, RequestsFit
    <3> QED BY <3>2 DEF Ordered, Heard
  <2>2. CASE \E c \in Requests : LaunchFails(c)
    BY <2>2 DEF LaunchFails
  <2>3. CASE \/ \E c \in Clients : Create(c) \/ Request(c)
             \/ \E c \in Requests : SetWorkflowId(c) \/ Launch(c)
             \/ Recover \/ Restart
    BY <2>3 DEF Create, Request, SetWorkflowId, Launch, Recover, Restart, expVars
  <2>4. CASE \E w \in Workflows : Run(w) \/ WorkflowError(w)
    <3>0. PICK w \in Workflows : \E r : Turn(w, r)
      BY <2>4, TurnTaken
    <3>1. PICK r : Turn(w, r)
      BY <3>0
    <3>2. wf[w].pc = "final" /\ status' = wf[w].kind
      BY <3>1 DEF Turn
    <3> QED BY <3>2 DEF Shape, TypeOK, WorkflowType
  <2>5. CASE \E s \in Samples : StartJob(s) \/ EndJob(s) \/ RequeueJob(s) \/ LoseResult(s)
    BY <2>5, JobSteps DEF expVars
  <2> QED BY <2>1, <2>2, <2>3, <2>4, <2>5, StepKinds
<1>2. Spec /\ []OneRequest => [][A]_vars
  BY <1>1, AlwaysOrdered, PTL DEF Spec
<1> QED BY <1>2 DEF StopIsHeard

-----------------------------------------------------------------------------
(* The life cycle.                                                          *)

\* Results stay, and more of them come only while the experiment is running,
\* unless the row and the run have lost each other.
LEMMA ResultsStay ==
  ASSUME Shape, Next
  PROVE  HasRow \subseteq HasRow' /\ HasRow' \subseteq Samples /\ happened \subseteq happened'
<1>1. HasRow' \subseteq Samples
  BY DEF HasRow
<1>2. CASE \/ \E c \in Clients : Create(c) \/ Request(c)
           \/ \E c \in Requests : Patch(c) \/ SetWorkflowId(c) \/ LaunchFails(c)
           \/ Recover
  BY <1>1, <1>2, RequestSteps DEF HasRow
<1>3. CASE \E c \in Requests : Launch(c)
  BY <1>1, <1>3 DEF Launch, HasRow
<1>4. CASE \E w \in Workflows : Run(w) \/ WorkflowError(w)
  <2>1. PICK w \in Workflows : \E r : Turn(w, r)
    BY <1>4, TurnTaken
  <2>2. /\ \A s \in Samples : row[s] # "none" => row'[s] # "none"
        /\ happened \subseteq happened'
    BY <2>1 DEF Turn
  <2> QED BY <1>1, <2>2, Grows
<1>5. CASE \E s \in Samples : StartJob(s) \/ EndJob(s) \/ RequeueJob(s) \/ LoseResult(s)
  BY <1>1, <1>5, JobSteps, Grows
<1>6. CASE Restart
  BY <1>1, <1>6, RestartStep DEF HasRow
<1> QED BY <1>2, <1>3, <1>4, <1>5, <1>6, StepKinds

LEMMA StatusStays ==
  ASSUME Shape, Next
  PROVE  status' \in {status, "running", "success", "failed", "stopped"}
<1>1. CASE \/ \E c \in Clients : Create(c) \/ Request(c)
           \/ \E c \in Requests : Patch(c) \/ SetWorkflowId(c) \/ LaunchFails(c)
           \/ Recover
  BY <1>1, RequestSteps
<1>2. CASE \E w \in Workflows : Run(w) \/ WorkflowError(w)
  <2>1. PICK w \in Workflows : \E r : Turn(w, r)
    BY <1>2, TurnTaken
  <2>2. wf[w].pc = "final" => wf[w].kind \in {"success", "failed", "stopped"}
    BY DEF Shape, TypeOK, WorkflowType, Fits, Fit
  <2> QED BY <2>1, <2>2 DEF Turn
<1>3. CASE \E c \in Requests : Launch(c)
  BY <1>3 DEF Launch, expVars
<1>4. CASE \E s \in Samples : StartJob(s) \/ EndJob(s) \/ RequeueJob(s) \/ LoseResult(s)
  BY <1>4, JobSteps DEF expVars
<1>5. CASE Restart
  BY <1>5, RestartStep DEF expVars
<1> QED BY <1>1, <1>2, <1>3, <1>4, <1>5, StepKinds

\* What is left to say of a step that loses nothing.
LEMMA LifecycleStep ==
  ASSUME Shape, Free, Ordered, Next, ~LostEachOther, ~LostEachOther', "twin" \notin happened'
  PROVE  \/ status' = status /\ HasRow' = HasRow
         \/ status = "none" /\ status' = "running" /\ HasRow' = HasRow
         \/ status = "running" /\ status' = status
         \/ /\ status = "running" /\ HasRow' = HasRow
            /\ status' \in {"failed", "stopped"} \/ (status' = "success" /\ HasRow = Samples)
         \/ status \in {"stopped", "failed"} /\ status' = "running" /\ HasRow' = HasRow
<1>0. /\ happened \cap {"timeout", "step", "twin"} = {} /\ "timeout" \notin happened'
      /\ InTouch /\ InTouch' /\ "twin" \notin happened
  <2>1. happened \subseteq happened'
    BY ResultsStay
  <2> QED BY <2>1 DEF LostEachOther, InTouch
<1>1. CASE \E c \in Clients : Create(c) \/ Request(c)
  BY <1>1 DEF Create, Request, expVars, HasRow
<1>2. CASE \E c \in Requests : Patch(c)
  <2>1. PICK c \in Requests : Patch(c)
    BY <1>2
  <2>2. c \in Clients /\ req[c].pc = "patch" /\ UNCHANGED HasRow
    BY <2>1, RequestFacts DEF Patch, Ordered, RequestsFit, HasRow
  <2>3. status' = IF Launches(req[c].action) THEN "running" ELSE status
    BY <2>1 DEF Patch, StatusPatched
  <2>4. Launches(req[c].action) => status \in {"stopped", "failed"}
    BY <1>0, <2>2 DEF Ordered, Serial
  <2> QED BY <2>2, <2>3, <2>4
<1>3. CASE \E c \in Requests : LaunchFails(c)
  <2>1. PICK c \in Requests : LaunchFails(c)
    BY <1>3
  <2>2. req[c].pc = "launch"
    BY <1>0, <2>1 DEF LaunchFails, Fault, InTouch
  <2>3. status = "running" /\ status' = "failed" /\ UNCHANGED HasRow
    BY <1>0, <2>1, <2>2, RequestFacts DEF Ordered, Serial, LaunchFails, HasRow
  <2> QED BY <2>3
<1>4. CASE \/ \E c \in Requests : SetWorkflowId(c) \/ Launch(c)
           \/ Recover \/ Restart
  BY <1>4 DEF SetWorkflowId, Launch, Recover, Restart, expVars, HasRow
<1>5. CASE \E w \in Workflows : Run(w) \/ WorkflowError(w)
  <2>0. PICK w \in Workflows : \E r : Turn(w, r)
    BY <1>5, TurnTaken
  <2>1. PICK r : Turn(w, r)
    BY <2>0
  <2>2. status = "running"
    BY <1>0, <2>1 DEF Turn, Ordered, Serial
  <2>3. CASE wf[w].pc = "final"
    <3>1. status' = wf[w].kind /\ wf[w].kind \in {"success", "failed", "stopped"} /\ UNCHANGED HasRow
      BY <2>1, <2>3 DEF Turn, HasRow, Polling, Shape, TypeOK, WorkflowType, Fits, Fit
    <3>2. wf[w].kind = "success" => HasRow = Samples
      BY <1>0, <2>3 DEF Free, Covered, Covers
    <3> QED BY <2>2, <3>1, <3>2
  <2>4. CASE wf[w].pc # "final"
    BY <2>1, <2>2, <2>4 DEF Turn
  <2> QED BY <2>3, <2>4
<1>6. CASE \E s \in Samples : StartJob(s) \/ EndJob(s) \/ RequeueJob(s) \/ LoseResult(s)
  <2>1. PICK s \in Samples : StartJob(s) \/ EndJob(s) \/ RequeueJob(s) \/ LoseResult(s)
    BY <1>6
  <2>2. /\ status' = status
        /\ UNCHANGED row \/ (job[s] = "active" /\ \A i \in Samples \ {s} : row'[i] = row[i])
        /\ \A i \in Samples : row[i] # "none" => row'[i] # "none"
    BY <2>1, JobSteps DEF expVars
  <2>3. CASE HasRow' # HasRow
    <3>1. job[s] = "active" /\ row[s] = "none"
      BY <2>2, <2>3 DEF HasRow
    <3>2. PICK w \in Workflows : s \in Awaits(wf[w])
      BY <1>0, <3>1 DEF Free, Attended
    <3>3. Live(w)
      BY <3>2 DEF Awaits, Live, Polling
    <3> QED BY <1>0, <2>2, <3>3 DEF Ordered, Serial
  <2> QED BY <2>2, <2>3
<1> QED BY <1>1, <1>2, <1>3, <1>4, <1>5, <1>6, StepKinds

\* The row and the results of an experiment whose requests come one after the
\* other behave as its life cycle, each step as one of its steps or a stutter.
THEOREM LifecycleImplemented == Spec /\ []OneRequest => ImplementsLifecycle
<1>1. Init => Lifecycle!Init
  BY DEF Init, Lifecycle!Init, HasRow, LostEachOther
<1>2. Shape /\ Free /\ Ordered /\ Ordered' /\ [Next]_vars => [Lifecycle!Next]_(Lifecycle!vars)
  <2> SUFFICES ASSUME Shape, Free, Ordered, Ordered', [Next]_vars
               PROVE  [Lifecycle!Next]_(Lifecycle!vars)
    OBVIOUS
  <2>1. CASE UNCHANGED vars
    BY <2>1 DEF vars, expVars, Lifecycle!vars, HasRow, LostEachOther
  <2>2. CASE Next /\ LostEachOther'
    <3>1. PICK S : S = HasRow' \ HasRow
      OBVIOUS
    <3>2. S \in SUBSET (Samples \ HasRow) /\ HasRow' = HasRow \cup S
      BY <2>2, <3>1, ResultsStay
    <3>3. \E T \in SUBSET (Samples \ HasRow) : HasRow' = HasRow \cup T
      BY <3>2
    <3>4. LostEachOther' = TRUE
      BY <2>2 DEF LostEachOther
    <3>5. Lifecycle!Stray
      BY <2>2, <3>3, <3>4, StatusStays DEF Lifecycle!Stray
    <3> QED BY <3>5 DEF Lifecycle!Next
  <2>3. CASE Next /\ ~LostEachOther'
    <3>1. HasRow \subseteq HasRow' /\ HasRow' \subseteq Samples /\ happened \subseteq happened'
      BY <2>3, ResultsStay
    <3>2. ~LostEachOther
      BY <2>3, <3>1 DEF LostEachOther
    <3>3. "twin" \notin happened'
      BY <2>3 DEF Ordered, Serial, InTouch, LostEachOther
    <3>4. LostEachOther' = LostEachOther
      BY <2>3, <3>2 DEF LostEachOther
    <3>5. \E S \in SUBSET (Samples \ HasRow) : HasRow' = HasRow \cup S
      <4>1. PICK S : S = HasRow' \ HasRow
        OBVIOUS
      <4>2. S \in SUBSET (Samples \ HasRow) /\ HasRow' = HasRow \cup S
        BY <3>1, <4>1
      <4> QED BY <4>2
    <3>6. CASE status' = status /\ HasRow' = HasRow
      BY <3>4, <3>6 DEF Lifecycle!vars
    <3>7. CASE status = "none" /\ status' = "running" /\ HasRow' = HasRow
      <4>1. Lifecycle!Create
        BY <3>4, <3>7 DEF Lifecycle!Create
      <4> QED BY <4>1 DEF Lifecycle!Next
    <3>8. CASE status = "running" /\ status' = status
      <4>1. Lifecycle!Settle
        BY <3>4, <3>5, <3>8 DEF Lifecycle!Settle
      <4> QED BY <4>1 DEF Lifecycle!Next
    <3>9. CASE /\ status = "running" /\ HasRow' = HasRow
               /\ status' \in {"failed", "stopped"} \/ (status' = "success" /\ HasRow = Samples)
      <4>1. Lifecycle!End
        BY <3>4, <3>9 DEF Lifecycle!End
      <4> QED BY <4>1 DEF Lifecycle!Next
    <3>10. CASE status \in {"stopped", "failed"} /\ status' = "running" /\ HasRow' = HasRow
      <4>1. Lifecycle!RunAgain
        BY <3>4, <3>10 DEF Lifecycle!RunAgain
      <4> QED BY <4>1 DEF Lifecycle!Next
    <3> QED BY <2>3, <3>2, <3>3, <3>6, <3>7, <3>8, <3>9, <3>10, LifecycleStep
  <2> QED BY <2>1, <2>2, <2>3
<1>3. Spec /\ []OneRequest => Lifecycle!Spec
  BY <1>1, <1>2, AlwaysOrdered, PTL DEF Spec, Lifecycle!Spec
<1> QED BY <1>3 DEF ImplementsLifecycle

\* With one client there is nothing to assume.
COROLLARY OneClientSuffices ==
  ASSUME \A c, d \in Clients : c = d
  PROVE  Spec => []StoppedIsSettled /\ StopIsHeard /\ ImplementsLifecycle
<1>1. OneRequest
  BY DEF OneRequest
<1>2. []OneRequest
  BY <1>1, PTL
<1> QED BY <1>2, StoppedSettles, StopHeard, LifecycleImplemented

=============================================================================
