--------------------------- MODULE AnnotationTask ---------------------------
(***************************************************************************)
(* The annotation tasks of one release line: users create tasks by         *)
(* sampling run results, claim samples under a lease of five minutes,      *)
(* submit and release them, while run results are written, cleaned up      *)
(* (by hand or by the retention sweep) and the line may be deleted.        *)
(*                                                                         *)
(* Postgres runs every statement READ COMMITTED: a statement sees what was *)
(* committed when it began, all parts of one WITH see the same snapshot,   *)
(* and a row changed meanwhile is looked at again before it is updated.    *)
(***************************************************************************)
EXTENDS Naturals, FiniteSets, FiniteSetsExt

CONSTANTS
    Users, Tabs,
    UserOf,         \* the user of a browser tab
    Diligent,       \* users who go on submitting
    Tasks,
    Results,        \* the run results of the line, written or not yet
    Categories,     \* the classification options
    Filters,        \* what a cleanup may match: a version, or a cutoff
    SampleSizes, BatchSizes,
    Lease,          \* five minutes, in ticks
    MaxClaims,      \* bound: claims in one behaviour
    Nobody

ASSUME AnnotationAssumption ==
    /\ UserOf \in [Tabs -> Users] /\ Diligent \subseteq Users /\ Nobody \notin Users
    /\ IsFiniteSet(Results) /\ Filters \subseteq SUBSET Results
    /\ SampleSizes \subseteq Nat \ {0} /\ BatchSizes \subseteq Nat \ {0}
    /\ Lease \in Nat /\ MaxClaims \in Nat

Samples == Tasks \X Results

VARIABLES
    line,       \* release_lines: "live" or "deleted"
    result,     \* run_results: "unborn", "stored" or "gone"
    task,       \* annotation_tasks: status, total_sampled, total_annotated
    sample,     \* annotations, by task and run result
    create,     \* the creation of a task that is under way
    submit,     \* the submission a tab has under way
    purge,      \* the transaction that deletes: a cleanup, or the line's
    claims      \* claims so far

vars == <<line, result, task, sample, create, submit, purge, claims>>

NoTask == [status |-> "none", sampled |-> 0, annotated |-> 0]
NoRow == [st |-> "none", lock |-> Nobody, age |-> 0, answer |-> Nobody]
FreeRow == [NoRow EXCEPT !.st = "open"]
NoCreate == [pc |-> "idle", task |-> Nobody, size |-> 0, picked |-> {}]
NoSubmit == [pc |-> "idle", s |-> Nobody, answer |-> Nobody, seen |-> 0]
NoPurge == [pc |-> "idle", kind |-> "cleanup", match |-> {}, rows |-> {}, results |-> {}]

Init ==
    /\ line = "live"
    /\ result \in [Results -> {"unborn", "stored"}]
    /\ task = [t \in Tasks |-> NoTask]
    /\ sample = [s \in Samples |-> NoRow]
    /\ create = NoCreate
    /\ submit = [tab \in Tabs |-> NoSubmit]
    /\ purge = NoPurge
    /\ claims = 0

Stored == {r \in Results : result[r] = "stored"}
Rows(t) == {r \in Results : sample[<<t, r>>].st # "none"}
Submitted(t) == {r \in Results : sample[<<t, r>>].st = "done"}

\* A row that an uncommitted DELETE holds: an UPDATE of it waits.
Deleting(s) == s \in purge.rows
\* Without the age of the heartbeat.
NeverExpired(s) == FALSE
Expired(s) == sample[s].age > Lease

\* From the stored size of the sample.
ShownBySize(t) ==
    IF Rows(t) # {} /\ Cardinality(Submitted(t)) >= task[t].sampled
    THEN "completed" ELSE task[t].status

\* What a task page shows.
ShownStatus(t) ==
    IF Rows(t) # {} /\ Submitted(t) = Rows(t) THEN "completed" ELSE task[t].status

-----------------------------------------------------------------------------
(* The runner stores a result; time passes.  A statement is short against  *)
(* a tick, which therefore never falls into one.                           *)

WriteResult(r) ==
    /\ result[r] = "unborn" /\ line = "live"
    /\ result' = [result EXCEPT ![r] = "stored"]
    /\ UNCHANGED <<line, task, sample, create, submit, purge, claims>>

Locked(s) == sample[s].st = "open" /\ sample[s].lock # Nobody
Ages(s) == Locked(s) /\ sample[s].age <= Lease

Tick ==
    /\ \A tab \in Tabs : submit[tab].pc = "idle"
    /\ purge.pc = "idle"
    /\ \E s \in Samples : Ages(s)
    /\ sample' = [s \in Samples |->
           IF Ages(s) THEN [sample[s] EXCEPT !.age = @ + 1] ELSE sample[s]]
    /\ UNCHANGED <<line, result, task, create, submit, purge, claims>>

-----------------------------------------------------------------------------
(* createTask: count, then a transaction that samples and inserts.         *)

CountMatching(t, n) ==
    /\ create.pc = "idle" /\ task[t].status = "none"
    /\ line = "live" /\ n <= Cardinality(Stored)
    /\ create' = [create EXCEPT !.pc = "counted", !.task = t, !.size = n]
    /\ UNCHANGED <<line, result, task, sample, submit, purge, claims>>

\* The random sample of what is stored by now, which may be less.
Samplings(n) == kSubset(Min({n, Cardinality(Stored)}), Stored)

InsertTask ==
    /\ create.pc = "counted"
    /\ IF line = "live"
       THEN \E picked \in Samplings(create.size) :
                create' = [create EXCEPT !.pc = "inserted", !.picked = picked]
       ELSE create' = NoCreate      \* annotation_task_source_not_found
    /\ UNCHANGED <<line, result, task, sample, submit, purge, claims>>

CommitTask ==
    /\ create.pc = "inserted"
    /\ task' = [task EXCEPT ![create.task] =
           [status |-> "active", sampled |-> Cardinality(create.picked), annotated |-> 0]]
    /\ sample' = [s \in Samples |->
           IF s[1] = create.task /\ s[2] \in create.picked THEN FreeRow ELSE sample[s]]
    /\ create' = NoCreate
    /\ UNCHANGED <<line, result, submit, purge, claims>>

-----------------------------------------------------------------------------
(* claim, submit and release                                               *)

Claimable(s) == sample[s].st = "open" /\ (sample[s].lock = Nobody \/ Expired(s))
MayLock(u, s) == Claimable(s) \/ (sample[s].st = "open" /\ sample[s].lock = u)

\* FOR UPDATE SKIP LOCKED: a row under a submission may be locked already.
Skippable == {submit[tab].s : tab \in {x \in Tabs : submit[x].pc = "sent"}}

ClaimSamples(u, t, n) ==
    /\ task[t].status # "none" /\ claims < MaxClaims
    /\ \E skipped \in SUBSET Skippable :
           LET open == {s \in Samples \ skipped : s[1] = t /\ Claimable(s) /\ ~Deleting(s)}
           IN  \E batch \in kSubset(Min({n, Cardinality(open)}), open) :
                   /\ batch # {}
                   /\ sample' = [s \in Samples |->
                          IF s \in batch THEN [sample[s] EXCEPT !.lock = u, !.age = 0]
                                         ELSE sample[s]]
    /\ claims' = claims + 1
    /\ UNCHANGED <<line, result, task, create, submit, purge>>

\* The snapshot of the statement: the sample qualifies, its result joins, and
\* the submissions counted are those committed before it.
SubmitSample(tab, s, c) ==
    /\ submit[tab].pc = "idle"
    /\ MayLock(UserOf[tab], s) /\ result[s[2]] = "stored"
    /\ submit' = [submit EXCEPT ![tab] =
           [pc |-> "sent", s |-> s, answer |-> c, seen |-> Cardinality(Submitted(s[1]))]]
    /\ UNCHANGED <<line, result, task, sample, create, purge, claims>>

\* task_progress, from the count in the snapshot.
Progress(t, seen) ==
    [t EXCEPT !.annotated = seen,
              !.status = IF t.sampled > 0 /\ seen >= t.sampled THEN "completed" ELSE @]

\* Without a second look at the lock.
OpenAtStart(u, s) == sample[s].st = "open"

\* The row is looked at again under its lock.
StillOpen(u, s) == MayLock(u, s)

StoreAnswer(tab) ==
    LET s == submit[tab].s
        u == UserOf[tab]
    IN  /\ submit[tab].pc = "sent" /\ ~Deleting(s)
        /\ IF StillOpen(u, s)
           THEN /\ sample' = [sample EXCEPT ![s] =
                       [st |-> "done", lock |-> u, age |-> 0, answer |-> submit[tab].answer]]
                /\ task' = [task EXCEPT ![s[1]] = Progress(@, submit[tab].seen)]
           ELSE UNCHANGED <<sample, task>>
        /\ submit' = [submit EXCEPT ![tab] = NoSubmit]
        /\ UNCHANGED <<line, result, create, purge, claims>>

ReleaseSample(u, s) ==
    /\ sample[s].st = "open" /\ sample[s].lock = u /\ ~Deleting(s)
    /\ sample' = [sample EXCEPT ![s] = FreeRow]
    /\ UNCHANGED <<line, result, task, create, submit, purge, claims>>

-----------------------------------------------------------------------------
(* The transactions that delete.  One of them at a time.                   *)

\* The first statement of a cleanup: the annotations of the results that match.
\* Without such a result the cleanup is over.
CleanUp(match) ==
    /\ purge.pc = "idle" /\ match \cap Stored # {}
    /\ purge' = [pc |-> "annotations", kind |-> "cleanup", match |-> match, results |-> {},
                 rows |-> {s \in Samples : sample[s].st # "none" /\ s[2] \in match \cap Stored}]
    /\ UNCHANGED <<line, result, task, sample, create, submit, claims>>

\* The first statement of hardDeleteLine: also the annotations of its tasks.
DeleteLine ==
    /\ purge.pc = "idle" /\ line = "live"
    /\ purge' = [pc |-> "annotations", kind |-> "line", match |-> Results, results |-> {},
                 rows |-> {s \in Samples : sample[s].st # "none"}]
    /\ UNCHANGED <<line, result, task, sample, create, submit, claims>>

\* The second statement of either, with a snapshot of its own.
DeleteResults ==
    /\ purge.pc = "annotations"
    /\ purge' = [purge EXCEPT !.pc = "results", !.results = purge.match \cap Stored]
    /\ UNCHANGED <<line, result, task, sample, create, submit, claims>>

\* Without them: the rows and results of the transaction.
Deleted ==
    /\ sample' = [s \in Samples |-> IF Deleting(s) THEN NoRow ELSE sample[s]]
    /\ result' = [r \in Results |-> IF r \in purge.results THEN "gone" ELSE result[r]]

CommitCleanup ==
    /\ purge.pc = "results" /\ purge.kind = "cleanup"
    /\ Deleted
    /\ purge' = NoPurge
    /\ UNCHANGED <<line, task, create, submit, claims>>

\* With no constraint from the tasks to the versions.
ResultsHold == Stored \subseteq purge.results

\* annotations reference their task, run_results and tasks the versions of the
\* line.  A task being inserted holds its version until it is committed.
ForeignKeysHold ==
    /\ create.pc # "inserted"
    /\ {s \in Samples : sample[s].st # "none"} \subseteq purge.rows
    /\ Stored \subseteq purge.results

CommitDeletion ==
    /\ purge.pc = "results" /\ purge.kind = "line"
    /\ ForeignKeysHold
    /\ Deleted
    /\ task' = [t \in Tasks |-> NoTask]
    /\ line' = "deleted"
    /\ purge' = NoPurge
    /\ UNCHANGED <<create, submit, claims>>

RollBackDeletion ==
    /\ purge.pc = "results" /\ purge.kind = "line"
    /\ ~ForeignKeysHold /\ create.pc # "inserted"
    /\ purge' = NoPurge
    /\ UNCHANGED <<line, result, task, sample, create, submit, claims>>

-----------------------------------------------------------------------------
Next ==
    \/ \E r \in Results : WriteResult(r)
    \/ Tick
    \/ \E t \in Tasks, n \in SampleSizes : CountMatching(t, n)
    \/ InsertTask
    \/ CommitTask
    \/ \E u \in Users, t \in Tasks, n \in BatchSizes : ClaimSamples(u, t, n)
    \/ \E tab \in Tabs, s \in Samples, c \in Categories : SubmitSample(tab, s, c)
    \/ \E tab \in Tabs : StoreAnswer(tab)
    \/ \E u \in Users, s \in Samples : ReleaseSample(u, s)
    \/ \E match \in Filters : CleanUp(match)
    \/ DeleteLine
    \/ DeleteResults
    \/ CommitCleanup
    \/ CommitDeletion
    \/ RollBackDeletion

\* Statements and transactions end, time passes, and a diligent user goes on
\* submitting whatever he may.
Fairness ==
    /\ WF_vars(Tick) /\ WF_vars(InsertTask) /\ WF_vars(CommitTask)
    /\ WF_vars(DeleteResults) /\ WF_vars(CommitCleanup)
    /\ WF_vars(CommitDeletion) /\ WF_vars(RollBackDeletion)
    /\ \A tab \in Tabs :
           /\ WF_vars(StoreAnswer(tab))
           /\ UserOf[tab] \in Diligent =>
                  WF_vars(\E s \in Samples, c \in Categories : SubmitSample(tab, s, c))

Spec == Init /\ [][Next]_vars /\ Fairness

-----------------------------------------------------------------------------
TaskType == [status : {"none", "active", "completed"}, sampled : Nat, annotated : Nat]
RowType == [st : {"none", "open", "done"}, lock : Users \cup {Nobody}, age : 0..(Lease + 1),
            answer : Categories \cup {Nobody}]
CreateType ==
    [pc : {"idle", "counted", "inserted"}, task : Tasks \cup {Nobody}, size : Nat,
     picked : SUBSET Results]
SubmitType ==
    [pc : {"idle", "sent"}, s : Samples \cup {Nobody}, answer : Categories \cup {Nobody},
     seen : Nat]
PurgeType ==
    [pc : {"idle", "annotations", "results"}, kind : {"cleanup", "line"},
     match : SUBSET Results, rows : SUBSET Samples, results : SUBSET Results]

\* The rows, requests and transactions keep their shape.
TypeOK ==
    /\ line \in {"live", "deleted"}
    /\ result \in [Results -> {"unborn", "stored", "gone"}]
    /\ task \in [Tasks -> TaskType]
    /\ sample \in [Samples -> RowType]
    /\ create \in CreateType
    /\ submit \in [Tabs -> SubmitType]
    /\ purge \in PurgeType
    /\ claims \in Nat

Respected(s) ==
    Locked(s) /\ ~Expired(s) /\ sample'[s].st # "none" =>
        sample'[s].lock = sample[s].lock \/ sample'[s] = FreeRow

Kept(s) ==
    sample[s].st = "done" =>
        \/ sample'[s] = sample[s]
        \/ sample'[s].st = "none" /\ (result'[s[2]] = "gone" \/ line' = "deleted")

\* While a lease runs, the sample stays with its holder: nobody else claims it
\* or submits it, though his request began when the sample was still free.  An
\* answer is stored once: a second tab, another user or a deletion that is
\* rolled back never changes it.  It goes with its run result or its line.
WorkIsKept == [][\A s \in Samples : Respected(s) /\ Kept(s)]_vars

\* What a task shows as completed has no sample left to submit, though the
\* stored progress is counted in an old snapshot, and is not reopened by
\* anything that happens to its samples, unless a cleanup leaves it none.
CompletedIsDone ==
    [][\A t \in Tasks : ShownStatus(t) = "completed" =>
           /\ Submitted(t) = Rows(t)
           /\ ShownStatus(t)' = "completed" \/ Rows(t)' = {}]_vars

\* A deleted line leaves no task and no sample, whoever was creating one.
DeletedLineIsBare ==
    line = "deleted" => \A t \in Tasks : task[t].status = "none" /\ Rows(t) = {}

\* A sample whose holder walked away is done in the end, if a diligent user
\* goes on and its run result stays.
SampleGetsDone ==
    \A s \in Samples :
        (sample[s].st = "open" /\ result[s[2]] = "stored")
            ~> (sample[s].st # "open" \/ result[s[2]] = "gone")
=============================================================================
