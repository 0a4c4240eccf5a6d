--------------------------- MODULE DatasetImport ---------------------------
(***************************************************************************)
(* Uploads that become datasets.  A request parses its file into staging   *)
(* rows, batch by batch, and promotes them to a dataset in one             *)
(* transaction; a sweep aborts import sessions that nobody has touched for *)
(* a while and clears what they have staged.  All uploads of an instance   *)
(* want the same name, which the database gives once.                      *)
(*                                                                         *)
(* A statement or a transaction is one step, but the promotion is two: it  *)
(* reads, and the guarded UPDATE at its end decides whether it commits.    *)
(***************************************************************************)
EXTENDS Naturals, FiniteSets

CONSTANTS
    Uploads,        \* upload requests, also the ids of their datasets
    MaxBatches,     \* bound: the batches of rows that its file may have
    Faults,         \* what may go wrong, of FaultKinds
    MaxFaults       \* bound: how many of them in one behaviour

\* The server stops; a live request writes nothing for so long that it counts
\* as stale; a statement fails; it fails, and the marking of the failure too;
\* a statement of the sweep fails.
FaultKinds == {"crash", "stall", "statement", "outage", "cleanup"}

ASSUME ImportAssumption ==
    /\ MaxBatches \in [Uploads -> Nat]
    /\ Faults \subseteq FaultKinds /\ MaxFaults \in Nat

VARIABLES
    imp,        \* dataset_imports: the status, or "finalizing", a phase of importing
    stale,      \* updated_at is older than the stale timeout
    staged,     \* dataset_import_samples, by batch
    up,         \* the upload requests
    data,       \* the datasets; history: the file, and what requests deleted
    sweep,      \* imports sweeps have found, have still to clear, and those of
                \* them whose sweep has ended with an error
    happened,   \* history: the faults
    lost        \* history: uploads whose rows nobody will look for again

history == <<happened, lost>>
importVars == <<imp, stale, staged, up, sweep, data, history>>

NoDataset == [exists |-> FALSE, rows |-> {}, count |-> 0, file |-> {}, deleted |-> {}]
NewUpload == [pc |-> "idle", next |-> 1, counted |-> 0]
NoSweep == [todo |-> {}, clear |-> {}, left |-> {}]

ImportInit ==
    /\ imp = [u \in Uploads |-> "none"]
    /\ stale = [u \in Uploads |-> FALSE]
    /\ staged = [u \in Uploads |-> {}]
    /\ up = [u \in Uploads |-> NewUpload]
    /\ data = [u \in Uploads |-> NoDataset]
    /\ sweep = NoSweep
    /\ happened = {} /\ lost = {}

Fault(kind) ==
    /\ kind \in Faults \ happened
    /\ Cardinality(happened \cap FaultKinds) < MaxFaults

NameTaken == \E u \in Uploads : data[u].exists

Goto(u, pc) == up' = [up EXCEPT ![u].pc = pc]
Leaves(u, pc) == up' = [up EXCEPT ![u] = [NewUpload EXCEPT !.pc = pc]]
Becomes(u, status) ==
    /\ imp' = [imp EXCEPT ![u] = status]
    /\ stale' = [stale EXCEPT ![u] = FALSE]

-----------------------------------------------------------------------------
(* LocalDatasetUploadService.uploadDataset.                                 *)

\* The name is asked for first, and again by the promotion.
CreateImport(u) ==
    /\ up[u].pc = "idle" /\ ~NameTaken
    /\ Becomes(u, "importing")
    /\ Goto(u, "parse")
    /\ UNCHANGED <<staged, data, sweep, history>>

\* The rows are inserted whatever the session says, the session is only
\* touched while it is neither aborted nor being promoted.
AppendBatch(u) ==
    /\ up[u].pc = "parse" /\ up[u].next <= MaxBatches[u]
    /\ staged' = [staged EXCEPT ![u] = @ \cup {up[u].next}]
    /\ up' = [up EXCEPT ![u].next = @ + 1]
    /\ IF imp[u] \in {"aborted", "finalizing"} THEN UNCHANGED <<imp, stale>>
       ELSE Becomes(u, "importing")
    /\ lost' = IF imp[u] = "aborted" THEN lost \cup {u} ELSE lost
    /\ UNCHANGED <<data, sweep, happened>>

\* The end of the file.  A session that is no longer importing is the answer,
\* with status 200.
MarkPromoting(u) ==
    /\ up[u].pc = "parse"
    /\ IF imp[u] = "importing" THEN Becomes(u, "finalizing") /\ Goto(u, "promote")
       ELSE Leaves(u, "left") /\ UNCHANGED <<imp, stale>>
    /\ UNCHANGED <<staged, data, sweep, history>>

\* The transaction up to the INSERT of the dataset: abort, emptiness, name.
Promote(u) ==
    /\ up[u].pc = "promote"
    /\ up' = IF imp[u] = "aborted" \/ staged[u] = {} \/ NameTaken
             THEN [up EXCEPT ![u].pc = "fail"]
             ELSE [up EXCEPT ![u].pc = "commit", ![u].counted = Cardinality(staged[u])]
    /\ UNCHANGED <<imp, stale, staged, data, sweep, history>>

\* UPDATE ... WHERE status <> 'aborted', and the unique index on the name.
CommitAnyhow(u) == ~NameTaken
MayCommit(u) == imp[u] # "aborted" /\ ~NameTaken

Commit(u) ==
    /\ up[u].pc = "commit"
    /\ IF MayCommit(u)
       THEN /\ data' = [data EXCEPT ![u].exists = TRUE, ![u].rows = staged[u],
                                    ![u].count = up[u].counted,
                                    ![u].file = 1..(up[u].next - 1)]
            /\ Becomes(u, "completed")
            /\ staged' = [staged EXCEPT ![u] = {}]
            /\ Leaves(u, "answer")
       ELSE Goto(u, "fail") /\ UNCHANGED <<imp, stale, staged, data>>
    /\ UNCHANGED <<sweep, history>>

\* findImportById for the answer.
Answer(u) ==
    /\ up[u].pc = "answer"
    /\ Goto(u, "ok")
    /\ UNCHANGED <<imp, stale, staged, data, sweep, history>>

InTry(u) == up[u].pc \in {"parse", "promote", "commit", "answer"}

StatementFails(u) ==
    /\ InTry(u)
    /\ Fault("statement")
    /\ happened' = happened \cup {"statement"}
    /\ Goto(u, "fail")
    /\ UNCHANGED <<imp, stale, staged, data, sweep, lost>>

\* markFailed, which asks for no status, then clearStaging.
MarkFailed(u) ==
    /\ up[u].pc = "fail"
    /\ Becomes(u, "failed")
    /\ Goto(u, "clear")
    /\ UNCHANGED <<staged, data, sweep, history>>

ClearFailed(u) ==
    /\ up[u].pc = "clear"
    /\ staged' = [staged EXCEPT ![u] = {}]
    /\ Leaves(u, "failed")
    /\ UNCHANGED <<imp, stale, data, sweep, history>>

\* Sessions that no sweep will find, and whose rows are not cleared yet.
Unfindable == {u \in Uploads : imp[u] = "finalizing" \/ up[u].pc = "clear"}

\* failImport fails as well, or half-way; its errors are swallowed.
Outage(u) ==
    /\ InTry(u) \/ up[u].pc \in {"fail", "clear"}
    /\ Fault("outage")
    /\ happened' = happened \cup {"outage"}
    /\ lost' = lost \cup ({u} \cap Unfindable)
    /\ Leaves(u, "failed")
    /\ UNCHANGED <<imp, stale, staged, data, sweep>>

-----------------------------------------------------------------------------
(* sweepStaleImports, every minute, never two at a time in one server.      *)

Gone(u) == up[u].pc \in {"dead", "failed", "left"}

\* Two minutes without a write.
Age(u) ==
    /\ imp[u] = "importing" /\ ~stale[u]
    /\ \/ Gone(u) /\ UNCHANGED happened
       \/ ~Gone(u) /\ Fault("stall") /\ happened' = happened \cup {"stall"}
    /\ stale' = [stale EXCEPT ![u] = TRUE]
    /\ UNCHANGED <<imp, staged, up, data, sweep, lost>>

Sweepable(u) == imp[u] = "importing" /\ stale[u]

\* The imports the sweep at work has not done with; one that has ended with an
\* error leaves the others to their promises, and the next may start.
AtWork == (sweep.todo \cup sweep.clear) \ sweep.left

FindStale ==
    /\ AtWork = {}
    /\ \E u \in Uploads : Sweepable(u)
    /\ LET found == {u \in Uploads : Sweepable(u)} IN
         sweep' = [sweep EXCEPT !.todo = @ \cup found, !.left = @ \ found]
    /\ UNCHANGED <<imp, stale, staged, up, data, history>>

Done(u) == [todo |-> sweep.todo \ {u}, clear |-> sweep.clear \ {u}, left |-> sweep.left \ {u}]

\* What markAborted clears in a statement of its own.
ClearedLater(u) == {}
Cleared(u) == {u}

\* markAborted: an import that is being promoted by now has status importing.
MarkAborted(u) ==
    /\ u \in sweep.todo
    /\ IF imp[u] \in {"importing", "finalizing"}
       THEN /\ Becomes(u, "aborted")
            /\ sweep' = [sweep EXCEPT !.todo = @ \ {u}, !.clear = @ \cup Cleared(u)]
       ELSE /\ sweep' = [sweep EXCEPT !.todo = @ \ {u}, !.left = @ \ {u}]
            /\ UNCHANGED <<imp, stale>>
    /\ UNCHANGED <<staged, up, data, history>>

ClearAborted(u) ==
    /\ u \in sweep.clear
    /\ staged' = [staged EXCEPT ![u] = {}]
    /\ sweep' = Done(u)
    /\ UNCHANGED <<imp, stale, up, data, history>>

\* Either statement throws, which ends the sweep.  The UPDATE is tried again
\* by the next one, an aborted import is not found again.
SweepFails(u) ==
    /\ u \in sweep.todo \cup sweep.clear
    /\ Fault("cleanup")
    /\ happened' = happened \cup {"cleanup"}
    /\ lost' = lost \cup ({u} \cap sweep.clear)
    /\ sweep' = IF u \in sweep.left THEN Done(u)
                ELSE [Done(u) EXCEPT !.left = (sweep.todo \cup sweep.clear) \ {u}]
    /\ UNCHANGED <<imp, stale, staged, up, data>>

\* Requests and sweep are gone.
ImportsEnd ==
    /\ up' = [u \in Uploads |->
                IF InTry(u) \/ up[u].pc \in {"fail", "clear"}
                THEN [NewUpload EXCEPT !.pc = "dead"] ELSE up[u]]
    /\ sweep' = NoSweep
    /\ lost' = lost \cup Unfindable \cup sweep.clear
    /\ UNCHANGED <<imp, stale, staged, data>>

-----------------------------------------------------------------------------
Serve(u) ==
    \/ CreateImport(u) \/ AppendBatch(u) \/ MarkPromoting(u)
    \/ Promote(u) \/ Commit(u) \/ Answer(u) \/ MarkFailed(u) \/ ClearFailed(u)

Sweep == FindStale \/ \E u \in Uploads : MarkAborted(u) \/ ClearAborted(u) \/ SweepFails(u)

Import ==
    \/ \E u \in Uploads : Serve(u) \/ StatementFails(u) \/ Outage(u) \/ Age(u)
    \/ Sweep

-----------------------------------------------------------------------------
(* Properties.                                                              *)

Statuses == {"none", "importing", "finalizing", "completed", "failed", "aborted"}
UploadPcs == {"idle", "parse", "promote", "commit", "answer", "ok", "fail", "clear",
              "failed", "left", "dead"}
Counts == {0} \cup {Cardinality(S) : S \in SUBSET Nat}
Requests == [pc : UploadPcs, next : Nat, counted : Counts]

\* Sessions, staging, requests and sweep keep their shape, whatever fails.
TypeOK ==
    /\ imp \in [Uploads -> Statuses]
    /\ staged \in [Uploads -> SUBSET Nat]
    /\ up \in [Uploads -> Requests]
    /\ sweep \in [todo : SUBSET Uploads, clear : SUBSET Uploads, left : SUBSET Uploads]
    /\ lost \subseteq Uploads

\* 22-datasets.md, section 3.1: an upload appears in its entirety or not at
\* all, once under its name, whatever the sweep does to its session meanwhile;
\* a completed session has its dataset, a dataset has a completed session and
\* an upload that was answered with an error left none, unless a statement
\* failed: it may be the one that reads the session for the answer, after the
\* promotion was committed.
ImportIsWhole ==
    /\ Cardinality({u \in Uploads : data[u].exists}) <= 1
    /\ \A u \in Uploads :
         /\ data[u].exists => data[u].rows \cup data[u].deleted = data[u].file
         /\ imp[u] = "completed" => data[u].exists
         /\ data[u].exists /\ happened \cap {"statement"} = {} => imp[u] = "completed"
         /\ up[u].pc = "ok" => data[u].exists
         /\ up[u].pc \in {"failed", "left"} /\ happened \cap {"statement", "outage"} = {}
               => ~data[u].exists

\* The comment at the head of dataset-import.service.ts: rows that a crashed
\* upload has staged are reaped.  Staged rows always belong to a request that
\* will clear them, to a session the sweep can find, or to a sweep at work.
\* Not found again are, of that upload only, the rows of a session that was
\* being promoted, or between its last status and the clearing, when its
\* request, the sweep or the server stopped, and those appended after the
\* sweep had aborted the session of a slow request.
StagedIsOwned ==
    \A u \in Uploads \ lost : staged[u] # {} =>
       \/ InTry(u) \/ up[u].pc \in {"fail", "clear"}
       \/ imp[u] = "importing"
       \/ u \in sweep.clear
=============================================================================
