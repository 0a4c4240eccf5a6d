-------------------------- MODULE ExperimentInputs --------------------------
(***************************************************************************)
(* What an experiment runs on: a version of a prompt, which its creation   *)
(* freezes, and a dataset, whose samples may not be deleted once it is     *)
(* referenced.  Requests edit the draft, delete samples and create         *)
(* experiments; the datasets come from DatasetImport.  Of the workflow     *)
(* only the reads of its inputs are here, the rest is ExperimentRun.       *)
(***************************************************************************)
EXTENDS DatasetImport, FiniteSetsExt

CONSTANTS
    Texts,          \* the texts a version may have
    Clients,        \* requests that may be under way at the same time
    Experiments

ASSUME InputsAssumption == Texts \subseteq Nat /\ 1 \in Texts

VARIABLES
    version,    \* prompt_versions: text and is_frozen
    req,        \* the requests
    exp         \* experiments: workflow, dataset, total_samples, results

inputVars == <<version, req, exp>>
vars == <<importVars, inputVars>>

IdleRequest == [pc |-> "idle", on |-> {}, rows |-> {}, n |-> 0, exp |-> {}]
NoExperiment == [pc |-> "none", on |-> {}, total |-> 0, plan |-> 0, seen |-> 0,
                 cursor |-> 0, texts |-> {}, results |-> {}]

Init ==
    /\ ImportInit
    /\ version = [text |-> 1, frozen |-> FALSE]
    /\ req = [c \in Clients |-> IdleRequest]
    /\ exp = [e \in Experiments |-> NoExperiment]

-----------------------------------------------------------------------------
(* PromptService.updateDraftVersion: is_frozen is read, the UPDATE that     *)
(* comes later does not ask for it.                                         *)

ReadsAnyVersion == TRUE
ReadsDraft == ~version.frozen

EditDraft(c) ==
    /\ req[c].pc = "idle"
    /\ ReadsDraft
    /\ \E t \in Texts \ {version.text} :
          req' = [req EXCEPT ![c] = [IdleRequest EXCEPT !.pc = "save", !.n = t]]
    /\ UNCHANGED <<importVars, version, exp>>

SaveDraft(c) ==
    /\ req[c].pc = "save"
    /\ version' = [version EXCEPT !.text = req[c].n]
    /\ req' = [req EXCEPT ![c] = IdleRequest]
    /\ UNCHANGED <<importVars, exp>>

-----------------------------------------------------------------------------
(* DatasetService.deleteDatasetSamples: three statements.                   *)

Deleting == {"delete", "decrement"}
Creating == {"freeze", "insert"}

\* A request that deletes from a dataset and one that creates an experiment on
\* it are under way together.
Overlaps(u, pcs) == {"overlap" : c \in {d \in Clients : req[d].pc \in pcs /\ req[d].on = {u}}}

ReferencedByRunning(u) == \E e \in Experiments : exp[e].on = {u} /\ exp[e].pc = "loop"
Referenced(u) == \E e \in Experiments : exp[e].on = {u}

DeleteSamples(c) ==
    /\ req[c].pc = "idle"
    /\ \E u \in Uploads : \E r \in data[u].rows :
         /\ ~Referenced(u)
         /\ req' = [req EXCEPT ![c] = [IdleRequest EXCEPT !.pc = "delete", !.on = {u}, !.rows = {r}]]
         /\ happened' = happened \cup Overlaps(u, Creating)
    /\ UNCHANGED <<imp, stale, staged, up, sweep, data, lost, version, exp>>

HardDelete(c) ==
    /\ req[c].pc = "delete"
    /\ \E u \in req[c].on :
         LET gone == req[c].rows \cap data[u].rows IN
         /\ data' = [data EXCEPT ![u].rows = @ \ gone, ![u].deleted = @ \cup gone]
         /\ req' = [req EXCEPT ![c] = IF gone = {} THEN IdleRequest
                                      ELSE [@ EXCEPT !.pc = "decrement", !.n = Cardinality(gone)]]
    /\ UNCHANGED <<imp, stale, staged, up, sweep, history, version, exp>>

\* GREATEST(sample_count - n, 0).
Decrement(c) ==
    /\ req[c].pc = "decrement"
    /\ \E u \in req[c].on :
          data' = [data EXCEPT ![u].count = IF @ > req[c].n THEN @ - req[c].n ELSE 0]
    /\ req' = [req EXCEPT ![c] = IdleRequest]
    /\ UNCHANGED <<imp, stale, staged, up, sweep, history, version, exp>>

-----------------------------------------------------------------------------
(* ExperimentService.createExperiment.                                      *)

\* loadAndValidateReferences reads is_frozen and sample_count.
CreateExperiment(c) ==
    /\ req[c].pc = "idle"
    /\ \E u \in Uploads : \E e \in Experiments \ UNION {req[d].exp : d \in Clients} :
         /\ data[u].exists /\ data[u].count > 0
         /\ exp[e].pc = "none"
         /\ req' = [req EXCEPT ![c] = [IdleRequest EXCEPT !.on = {u}, !.exp = {e}, !.n = data[u].count,
                                          !.pc = IF version.frozen THEN "insert" ELSE "freeze"]]
         /\ happened' = happened \cup Overlaps(u, Deleting)
    /\ UNCHANGED <<imp, stale, staged, up, sweep, data, lost, version, exp>>

Freeze(c) ==
    /\ req[c].pc = "freeze"
    /\ version' = [version EXCEPT !.frozen = TRUE]
    /\ req' = [req EXCEPT ![c].pc = "insert"]
    /\ happened' = happened \cup {"lateSave" : d \in {d \in Clients : req[d].pc = "save"}}
    /\ UNCHANGED <<imp, stale, staged, up, sweep, data, lost, exp>>

\* The row, and the workflow that is launched on it.
InsertExperiment(c) ==
    /\ req[c].pc = "insert"
    /\ \E e \in req[c].exp :
          exp' = [exp EXCEPT ![e] = [NoExperiment EXCEPT !.pc = "load", !.on = req[c].on,
                                                         !.total = req[c].n]]
    /\ req' = [req EXCEPT ![c] = IdleRequest]
    /\ UNCHANGED <<importVars, version>>

-----------------------------------------------------------------------------
(* ExperimentWorkflowRegistrar: what it reads of its inputs, one sample to  *)
(* a batch.                                                                 *)

LoadPlan(e) ==
    /\ exp[e].pc = "load"
    /\ \E u \in exp[e].on :
          exp' = [exp EXCEPT ![e].pc = IF version.frozen /\ data[u].count > 0 THEN "loop" ELSE "failed",
                             ![e].plan = data[u].count]
    /\ UNCHANGED <<importVars, version, req>>

\* loadSampleIdBatch by keyset: the ids are what counts as processed.
LoadBatch(e) ==
    /\ exp[e].pc = "loop"
    /\ \E u \in exp[e].on :
         LET left == {r \in data[u].rows : r > exp[e].cursor} IN
         exp' = [exp EXCEPT ![e] = IF exp[e].seen < exp[e].plan /\ left # {}
                                   THEN [@ EXCEPT !.pc = "render", !.cursor = Min(left), !.seen = exp[e].seen + 1]
                                   ELSE [@ EXCEPT !.pc = "success"]]
    /\ UNCHANGED <<importVars, version, req>>

\* enqueueBatch renders the text as it is now for the samples that are there.
RenderBatch(e) ==
    /\ exp[e].pc = "render"
    /\ \E u \in exp[e].on :
         LET found == {exp[e].cursor} \cap data[u].rows IN
         exp' = [exp EXCEPT ![e].pc = "loop",
                            ![e].texts = @ \cup {version.text : r \in found},
                            ![e].results = @ \cup found]
    /\ UNCHANGED <<importVars, version, req>>

-----------------------------------------------------------------------------
(* The server stops: requests end where they are, also one that has not yet *)
(* counted what it deleted.                                                 *)

Crash ==
    /\ Fault("crash")
    /\ happened' = happened \cup {"crash"}
                     \cup {"overlap" : c \in {d \in Clients : req[d].pc = "decrement"}}
    /\ ImportsEnd
    /\ req' = [c \in Clients |-> IdleRequest]
    /\ UNCHANGED <<version, exp>>

-----------------------------------------------------------------------------
Request(c) ==
    \/ EditDraft(c) \/ SaveDraft(c)
    \/ DeleteSamples(c) \/ HardDelete(c) \/ Decrement(c)
    \/ CreateExperiment(c) \/ Freeze(c) \/ InsertExperiment(c)

Run(e) == LoadPlan(e) \/ LoadBatch(e) \/ RenderBatch(e)

Next ==
    \/ Import /\ UNCHANGED inputVars
    \/ \E c \in Clients : Request(c)
    \/ \E e \in Experiments : Run(e)
    \/ Crash

Spec == Init /\ [][Next]_vars

-----------------------------------------------------------------------------
(* Properties.                                                              *)

\* 23-prompts.md and 24-experiments.md: an experiment runs one frozen version
\* over a dataset that it holds on to.  All its results, and those of every
\* other experiment on the version, are made with the text the version still
\* has, unless a save was under way when it was frozen.
TextIsFixed ==
    "lateSave" \notin happened => \A e \in Experiments : exp[e].texts \subseteq {version.text}

\* It ends with a result for each of its total_samples, unless samples were
\* being deleted when it was created, or the server stopped before it had
\* counted them.
TotalIsReached ==
    "overlap" \notin happened =>
       \A e \in Experiments : exp[e].pc \in {"success", "failed"} =>
          exp[e].pc = "success" /\ Cardinality(exp[e].results) = exp[e].total

ResultsFitInputs == TextIsFixed /\ TotalIsReached
=============================================================================
