------------------------ MODULE AnnotationTaskProofs ------------------------
(***************************************************************************)
(* Proofs about AnnotationTask, for any number of users, tabs, tasks,      *)
(* results and categories, and any filters and sizes.                      *)
(***************************************************************************)
EXTENDS AnnotationTask, FiniteSetTheorems, TLAPS

-----------------------------------------------------------------------------
(* The rows keep their shape, and belong to a task.                         *)

\* A sample has its task.
RowsHaveTask == \A s \in Samples : sample[s].st # "none" => task[s[1]].status # "none"

\* The task that is being created is not there yet; its version is held once
\* it has been inserted.
CreationFits ==
    create.pc # "idle" =>
        /\ create.task \in Tasks /\ task[create.task].status = "none"
        /\ create.pc = "inserted" => line = "live"

\* A submission names a sample; what a cleanup has deleted so far has a result
\* that it deletes too.
SubmitFits == \A tab \in Tabs : submit[tab].pc = "sent" => submit[tab].s \in Samples
PurgeFits ==
    purge.kind = "cleanup" => \A s \in purge.rows :
        /\ purge.pc = "annotations" => s[2] \in purge.match /\ result[s[2]] = "stored"
        /\ purge.pc = "results" => s[2] \in purge.results

IInv == TypeOK /\ RowsHaveTask /\ CreationFits /\ SubmitFits /\ PurgeFits /\ DeletedLineIsBare

LEMMA NobodyApart == Nobody \notin Users
BY AnnotationAssumption

LEMMA InitFits == Init => IInv
<1> SUFFICES ASSUME Init PROVE IInv
  OBVIOUS
<1> USE DEF Init
<1>1. NoTask \in TaskType /\ NoRow \in RowType
  BY AnnotationAssumption DEF NoTask, NoRow, TaskType, RowType
<1>2. NoCreate \in CreateType /\ NoSubmit \in SubmitType /\ NoPurge \in PurgeType
  BY DEF NoCreate, CreateType, NoSubmit, SubmitType, NoPurge, PurgeType
<1>3. TypeOK
  BY <1>1, <1>2 DEF TypeOK
<1>4. RowsHaveTask /\ CreationFits /\ SubmitFits /\ PurgeFits /\ DeletedLineIsBare
  BY DEF RowsHaveTask, CreationFits, SubmitFits, PurgeFits, DeletedLineIsBare,
         NoRow, NoCreate, NoSubmit, NoPurge
<1> QED BY <1>3, <1>4 DEF IInv

\* The counts of a snapshot are numbers.
LEMMA CountsAreNat ==
  /\ \A t \in Tasks : Cardinality(Submitted(t)) \in Nat
  /\ \A S \in SUBSET Results : Cardinality(S) \in Nat
<1>1. IsFiniteSet(Results)
  BY AnnotationAssumption
<1>2. \A S \in SUBSET Results : Cardinality(S) \in Nat
  BY <1>1, FS_Subset, FS_CardinalityType
<1>3. \A t \in Tasks : Submitted(t) \in SUBSET Results
  BY DEF Submitted
<1> QED BY <1>2, <1>3

-----------------------------------------------------------------------------
(* One lemma for each step that writes rows.                                *)

LEMMA TickStep == IInv /\ Tick => IInv'
<1> SUFFICES ASSUME IInv, Tick PROVE IInv'
  OBVIOUS
<1>0. TypeOK /\ RowsHaveTask
  BY DEF IInv
<1>1. ASSUME NEW s \in Samples
      PROVE  /\ sample'[s] \in RowType
             /\ sample'[s].st = sample[s].st
  <2>1. sample[s] \in RowType
    BY <1>0 DEF TypeOK
  <2>2. CASE Ages(s)
    <3>1. sample'[s] = [sample[s] EXCEPT !.age = @ + 1]
      BY <2>2 DEF Tick
    <3>2. sample[s].age + 1 \in 0..(Lease + 1)
      BY <2>1, <2>2, AnnotationAssumption DEF Ages, RowType
    <3> QED BY <2>1, <3>1, <3>2 DEF RowType
  <2>3. CASE ~Ages(s)
    BY <2>1, <2>3 DEF Tick
  <2> QED BY <2>2, <2>3
<1>2. TypeOK'
  <2>1. sample' \in [Samples -> RowType]
    BY <1>1 DEF Tick
  <2> QED BY <1>0, <2>1 DEF Tick, TypeOK
<1>3. (RowsHaveTask /\ CreationFits /\ SubmitFits /\ PurgeFits)'
  BY <1>1 DEF IInv, Tick, RowsHaveTask, CreationFits, SubmitFits, PurgeFits
<1>4. DeletedLineIsBare'
  BY <1>1 DEF IInv, Tick, DeletedLineIsBare, Rows, Samples
<1> QED BY <1>2, <1>3, <1>4 DEF IInv

LEMMA CommitTaskStep == IInv /\ CommitTask => IInv'
<1> SUFFICES ASSUME IInv, CommitTask PROVE IInv'
  OBVIOUS
<1>0. TypeOK /\ RowsHaveTask /\ CreationFits
  BY DEF IInv
<1>1. create.task \in Tasks /\ line = "live" /\ create.picked \in SUBSET Results
  BY <1>0 DEF CommitTask, CreationFits, TypeOK, CreateType
<1>2. FreeRow \in RowType
  BY AnnotationAssumption DEF FreeRow, NoRow, RowType
<1>3. sample' \in [Samples -> RowType]
  BY <1>0, <1>2 DEF CommitTask, TypeOK
<1>4. task' \in [Tasks -> TaskType]
  BY <1>0, <1>1, CountsAreNat DEF CommitTask, TypeOK, TaskType
<1>5. NoCreate \in CreateType
  BY DEF NoCreate, CreateType
<1>6. TypeOK'
  BY <1>0, <1>3, <1>4, <1>5 DEF CommitTask, TypeOK
<1>7. RowsHaveTask'
  <2> SUFFICES ASSUME NEW s \in Samples, sample'[s].st # "none"
               PROVE  task'[s[1]].status # "none"
    BY DEF RowsHaveTask
  <2>1. s[1] \in Tasks
    BY DEF Samples
  <2>2. CASE s[1] = create.task
    BY <1>0, <1>1, <2>2 DEF CommitTask, TypeOK
  <2>3. CASE s[1] # create.task
    BY <1>0, <2>1, <2>3 DEF CommitTask, TypeOK, RowsHaveTask
  <2> QED BY <2>2, <2>3
<1>8. (CreationFits /\ SubmitFits /\ PurgeFits /\ DeletedLineIsBare)'
  BY <1>1 DEF IInv, CommitTask, CreationFits, SubmitFits, PurgeFits, DeletedLineIsBare, NoCreate
<1> QED BY <1>6, <1>7, <1>8 DEF IInv

LEMMA ClaimStep ==
  ASSUME IInv, NEW u \in Users, NEW t \in Tasks, NEW n \in BatchSizes, ClaimSamples(u, t, n)
  PROVE  IInv'
<1>0. TypeOK /\ RowsHaveTask
  BY DEF IInv
<1>1. PICK batch \in SUBSET Samples :
        sample' = [s \in Samples |-> IF s \in batch THEN [sample[s] EXCEPT !.lock = u, !.age = 0]
                                                    ELSE sample[s]]
  BY DEF ClaimSamples, kSubset
<1>2. \A s \in Samples : sample'[s] \in RowType /\ sample'[s].st = sample[s].st
  <2> SUFFICES ASSUME NEW s \in Samples
               PROVE  sample'[s] \in RowType /\ sample'[s].st = sample[s].st
    OBVIOUS
  <2>1. sample[s] \in RowType
    BY <1>0 DEF TypeOK
  <2>2. 0 \in 0..(Lease + 1)
    BY AnnotationAssumption
  <2> QED BY <1>1, <2>1, <2>2 DEF RowType
<1>3. sample' \in [Samples -> RowType]
  BY <1>1, <1>2
<1>4. TypeOK'
  <2>1. UNCHANGED <<line, result, task, create, submit, purge>> /\ claims' = claims + 1
    BY DEF ClaimSamples
  <2> QED BY <1>0, <1>3, <2>1 DEF TypeOK
<1>5. (RowsHaveTask /\ CreationFits /\ SubmitFits /\ PurgeFits)'
  BY <1>2 DEF IInv, ClaimSamples, RowsHaveTask, CreationFits, SubmitFits, PurgeFits
<1>6. DeletedLineIsBare'
  BY <1>2 DEF IInv, ClaimSamples, DeletedLineIsBare, Rows, Samples
<1> QED BY <1>4, <1>5, <1>6 DEF IInv

LEMMA SubmitStep ==
  ASSUME IInv, NEW tab \in Tabs, NEW s \in Samples, NEW c \in Categories, SubmitSample(tab, s, c)
  PROVE  IInv'
<1>0. TypeOK /\ SubmitFits
  BY DEF IInv
<1>1. s[1] \in Tasks
  BY DEF Samples
<1>2. Cardinality(Submitted(s[1])) \in Nat
  BY <1>1, CountsAreNat
<1>3. submit' \in [Tabs -> SubmitType]
  BY <1>0, <1>2 DEF SubmitSample, TypeOK, SubmitType
<1>4. TypeOK'
  BY <1>0, <1>3 DEF SubmitSample, TypeOK
<1>5. SubmitFits'
  BY <1>0 DEF SubmitSample, SubmitFits, TypeOK
<1>6. (RowsHaveTask /\ CreationFits /\ PurgeFits /\ DeletedLineIsBare)'
  BY DEF IInv, SubmitSample, RowsHaveTask, CreationFits, PurgeFits, DeletedLineIsBare, Rows
<1> QED BY <1>4, <1>5, <1>6 DEF IInv

\* What StoreAnswer does to a row: the sample of the submission, if it is still
\* open and the user may have it, is done; everything else is left alone.
LEMMA StoreAnswerRows ==
  ASSUME TypeOK, SubmitFits, NEW tab \in Tabs, StoreAnswer(tab), NEW s \in Samples
  PROVE  \/ sample'[s] = sample[s]
         \/ /\ s = submit[tab].s /\ MayLock(UserOf[tab], s)
            /\ sample'[s] = [st |-> "done", lock |-> UserOf[tab], age |-> 0,
                             answer |-> submit[tab].answer]
<1>1. CASE s = submit[tab].s
  BY <1>1 DEF StoreAnswer, StillOpen, TypeOK
<1>2. CASE s # submit[tab].s
  BY <1>2 DEF StoreAnswer, TypeOK
<1> QED BY <1>1, <1>2

LEMMA StoreAnswerStep == ASSUME IInv, NEW tab \in Tabs, StoreAnswer(tab) PROVE IInv'
<1>0. TypeOK /\ RowsHaveTask /\ SubmitFits
  BY DEF IInv
<1>1. submit[tab] \in SubmitType /\ submit[tab].s \in Samples /\ UserOf[tab] \in Users
  BY <1>0, AnnotationAssumption DEF TypeOK, StoreAnswer, SubmitFits
<1>2. submit[tab].s[1] \in Tasks
  BY <1>1 DEF Samples
<1>3. ASSUME NEW s \in Samples
      PROVE  sample'[s] \in RowType /\ (sample'[s].st = "none" <=> sample[s].st = "none")
  <2>1. sample[s] \in RowType
    BY <1>0 DEF TypeOK
  <2>2. 0 \in 0..(Lease + 1)
    BY AnnotationAssumption
  <2>3. MayLock(UserOf[tab], s) => sample[s].st = "open"
    BY DEF MayLock, Claimable
  <2>4. \/ sample'[s] = sample[s]
        \/ /\ s = submit[tab].s /\ MayLock(UserOf[tab], s)
           /\ sample'[s] = [st |-> "done", lock |-> UserOf[tab], age |-> 0,
                            answer |-> submit[tab].answer]
    BY <1>0, StoreAnswerRows
  <2>5. [st |-> "done", lock |-> UserOf[tab], age |-> 0, answer |-> submit[tab].answer] \in RowType
    BY <1>1, <2>2 DEF RowType, SubmitType
  <2> QED BY <2>1, <2>3, <2>4, <2>5
<1>4. sample' \in [Samples -> RowType]
  <2> DEFINE done == [st |-> "done", lock |-> UserOf[tab], age |-> 0, answer |-> submit[tab].answer]
  <2>1. sample' = sample \/ sample' = [sample EXCEPT ![submit[tab].s] = done]
    BY DEF StoreAnswer
  <2>2. 0 \in 0..(Lease + 1)
    BY AnnotationAssumption
  <2>3. done \in RowType
    BY <1>1, <2>2 DEF RowType, SubmitType
  <2> HIDE DEF done
  <2> QED BY <1>0, <2>1, <2>3 DEF TypeOK
<1>5. /\ task' \in [Tasks -> TaskType]
      /\ \A t \in Tasks : task'[t].status = "none" <=> task[t].status = "none"
  <2>1. CASE task' = task
    BY <1>0, <2>1 DEF TypeOK
  <2>2. CASE /\ StillOpen(UserOf[tab], submit[tab].s)
             /\ task' = [task EXCEPT ![submit[tab].s[1]] = Progress(@, submit[tab].seen)]
    <3>1. sample[submit[tab].s].st = "open"
      BY <2>2 DEF StillOpen, MayLock, Claimable
    <3>2. task[submit[tab].s[1]] \in TaskType /\ task[submit[tab].s[1]].status # "none"
      BY <1>0, <1>1, <1>2, <3>1 DEF TypeOK, RowsHaveTask
    <3>3. /\ Progress(task[submit[tab].s[1]], submit[tab].seen) \in TaskType
          /\ Progress(task[submit[tab].s[1]], submit[tab].seen).status # "none"
      BY <1>1, <3>2 DEF Progress, TaskType, SubmitType
    <3> QED BY <1>0, <1>2, <2>2, <3>2, <3>3 DEF TypeOK
  <2> QED BY <2>1, <2>2 DEF StoreAnswer
<1>6. NoSubmit \in SubmitType
  BY DEF NoSubmit, SubmitType
<1>7. TypeOK'
  BY <1>0, <1>4, <1>5, <1>6 DEF StoreAnswer, TypeOK
<1>8. RowsHaveTask'
  BY <1>0, <1>3, <1>5 DEF RowsHaveTask, Samples
<1>9. CreationFits'
  BY <1>5 DEF IInv, StoreAnswer, CreationFits
<1>10. SubmitFits'
  BY <1>0 DEF StoreAnswer, SubmitFits, NoSubmit, TypeOK
<1>11. PurgeFits'
  BY DEF IInv, StoreAnswer, PurgeFits
<1>12. DeletedLineIsBare'
  BY <1>3, <1>5 DEF IInv, StoreAnswer, DeletedLineIsBare, Rows, Samples
<1> QED BY <1>7, <1>8, <1>9, <1>10, <1>11, <1>12 DEF IInv

LEMMA ReleaseStep ==
  ASSUME IInv, NEW u \in Users, NEW s \in Samples, ReleaseSample(u, s) PROVE IInv'
<1>0. TypeOK /\ RowsHaveTask
  BY DEF IInv
<1>1. FreeRow \in RowType /\ FreeRow.st = "open"
  BY AnnotationAssumption DEF FreeRow, NoRow, RowType
<1>2. sample' \in [Samples -> RowType]
  BY <1>0, <1>1 DEF ReleaseSample, TypeOK
<1>3. \A x \in Samples : sample'[x].st = sample[x].st
  BY <1>0, <1>1 DEF ReleaseSample, TypeOK
<1>4. TypeOK'
  BY <1>0, <1>2 DEF ReleaseSample, TypeOK
<1>5. (RowsHaveTask /\ CreationFits /\ SubmitFits /\ PurgeFits)'
  BY <1>3 DEF IInv, ReleaseSample, RowsHaveTask, CreationFits, SubmitFits, PurgeFits
<1>6. DeletedLineIsBare'
  BY <1>3 DEF IInv, ReleaseSample, DeletedLineIsBare, Rows, Samples
<1> QED BY <1>4, <1>5, <1>6 DEF IInv

-----------------------------------------------------------------------------
(* The transactions that delete.                                            *)

\* The rows and results that a commit leaves.
LEMMA DeletedRows ==
  ASSUME TypeOK, Deleted
  PROVE  /\ sample' \in [Samples -> RowType]
         /\ result' \in [Results -> {"unborn", "stored", "gone"}]
         /\ \A s \in Samples : sample'[s] = IF s \in purge.rows THEN NoRow ELSE sample[s]
<1>1. NoRow \in RowType
  BY AnnotationAssumption DEF NoRow, RowType
<1> QED BY <1>1 DEF TypeOK, Deleted, Deleting

LEMMA CleanUpStep ==
  ASSUME IInv, NEW match \in Filters, CleanUp(match) PROVE IInv'
<1>0. TypeOK
  BY DEF IInv
<1>1. match \in SUBSET Results
  BY AnnotationAssumption
<1>2. TypeOK'
  BY <1>0, <1>1 DEF CleanUp, TypeOK, PurgeType
<1>3. PurgeFits'
  BY DEF CleanUp, PurgeFits, Stored
<1>4. (RowsHaveTask /\ CreationFits /\ SubmitFits /\ DeletedLineIsBare)'
  BY DEF IInv, CleanUp, RowsHaveTask, CreationFits, SubmitFits, DeletedLineIsBare, Rows
<1> QED BY <1>2, <1>3, <1>4 DEF IInv

LEMMA DeleteLineStep == IInv /\ DeleteLine => IInv'
<1> SUFFICES ASSUME IInv, DeleteLine PROVE IInv'
  OBVIOUS
<1>1. TypeOK'
  BY DEF IInv, DeleteLine, TypeOK, PurgeType
<1>2. PurgeFits'
  BY DEF DeleteLine, PurgeFits
<1>3. (RowsHaveTask /\ CreationFits /\ SubmitFits /\ DeletedLineIsBare)'
  BY DEF IInv, DeleteLine, RowsHaveTask, CreationFits, SubmitFits, DeletedLineIsBare, Rows
<1> QED BY <1>1, <1>2, <1>3 DEF IInv

LEMMA DeleteResultsStep == IInv /\ DeleteResults => IInv'
<1> SUFFICES ASSUME IInv, DeleteResults PROVE IInv'
  OBVIOUS
<1>0. TypeOK /\ PurgeFits
  BY DEF IInv
<1>1. TypeOK'
  BY <1>0 DEF DeleteResults, TypeOK, PurgeType, Stored
<1>2. /\ purge'.kind = purge.kind /\ purge'.rows = purge.rows /\ purge'.pc = "results"
      /\ purge'.results = purge.match \cap Stored
  BY <1>0 DEF DeleteResults, TypeOK, PurgeType
<1>3. PurgeFits'
  <2>1. ASSUME purge.kind = "cleanup", NEW s \in purge.rows
        PROVE  s[2] \in purge.match \cap Stored
    <3>1. s \in Samples
      BY <1>0 DEF TypeOK, PurgeType
    <3>2. s[2] \in Results
      BY <3>1 DEF Samples
    <3> QED BY <1>0, <2>1, <3>2 DEF PurgeFits, DeleteResults, Stored
  <2> QED BY <1>2, <2>1 DEF PurgeFits
<1>4. (RowsHaveTask /\ CreationFits /\ SubmitFits /\ DeletedLineIsBare)'
  BY DEF IInv, DeleteResults, RowsHaveTask, CreationFits, SubmitFits, DeletedLineIsBare, Rows
<1> QED BY <1>1, <1>3, <1>4 DEF IInv

LEMMA CommitCleanupStep == IInv /\ CommitCleanup => IInv'
<1> SUFFICES ASSUME IInv, CommitCleanup PROVE IInv'
  OBVIOUS
<1>0. TypeOK /\ Deleted
  BY DEF IInv, CommitCleanup
<1>1. NoPurge \in PurgeType
  BY DEF NoPurge, PurgeType
<1>2. TypeOK'
  BY <1>0, <1>1, DeletedRows DEF CommitCleanup, TypeOK
<1>3. \A s \in Samples : sample'[s].st # "none" => sample[s].st # "none"
  BY <1>0, DeletedRows DEF NoRow
<1>4. (RowsHaveTask /\ CreationFits /\ SubmitFits)'
  BY <1>3 DEF IInv, CommitCleanup, RowsHaveTask, CreationFits, SubmitFits
<1>5. PurgeFits'
  BY DEF CommitCleanup, PurgeFits, NoPurge
<1>6. DeletedLineIsBare'
  BY <1>3 DEF IInv, CommitCleanup, DeletedLineIsBare, Rows, Samples
<1> QED BY <1>2, <1>4, <1>5, <1>6 DEF IInv

LEMMA CommitDeletionStep == IInv /\ CommitDeletion => IInv'
<1> SUFFICES ASSUME IInv, CommitDeletion PROVE IInv'
  OBVIOUS
<1>0. TypeOK /\ Deleted /\ CreationFits
  BY DEF IInv, CommitDeletion
<1>1. NoPurge \in PurgeType /\ NoTask \in TaskType /\ NoTask.status = "none"
  BY DEF NoPurge, PurgeType, NoTask, TaskType
<1>2. TypeOK'
  BY <1>0, <1>1, DeletedRows DEF CommitDeletion, TypeOK
<1>3. \A s \in Samples : sample'[s].st = "none"
  BY <1>0, DeletedRows DEF CommitDeletion, ForeignKeysHold, NoRow
<1>4. RowsHaveTask'
  BY <1>3 DEF RowsHaveTask
<1>5. CreationFits'
  BY <1>0, <1>1 DEF CommitDeletion, ForeignKeysHold, CreationFits
<1>6. (SubmitFits /\ PurgeFits)'
  BY DEF IInv, CommitDeletion, SubmitFits, PurgeFits, NoPurge
<1>7. DeletedLineIsBare'
  BY <1>1, <1>3 DEF CommitDeletion, DeletedLineIsBare, Rows, Samples
<1> QED BY <1>2, <1>4, <1>5, <1>6, <1>7 DEF IInv

-----------------------------------------------------------------------------
(* The steps that write no rows.                                            *)

LEMMA QuietStep ==
  ASSUME IInv, UNCHANGED <<task, sample, submit>>,
         \/ \E r \in Results : WriteResult(r)
         \/ \E t \in Tasks, n \in SampleSizes : CountMatching(t, n)
         \/ InsertTask
         \/ RollBackDeletion
  PROVE  IInv'
<1>0. TypeOK /\ CreationFits /\ PurgeFits
  BY DEF IInv
<1>1. (RowsHaveTask /\ SubmitFits)'
  BY DEF IInv, RowsHaveTask, SubmitFits
<1>2. line' = line
  BY DEF WriteResult, CountMatching, InsertTask, RollBackDeletion
<1>3. DeletedLineIsBare'
  BY <1>2 DEF IInv, DeletedLineIsBare, Rows
<1>4. CASE \E r \in Results : WriteResult(r)
  <2>1. PICK r \in Results : WriteResult(r)
    BY <1>4
  <2>2. TypeOK'
    BY <1>0, <2>1 DEF WriteResult, TypeOK
  <2>3. CreationFits'
    BY <1>0, <2>1 DEF WriteResult, CreationFits
  <2>4. PurgeFits'
    BY <1>0, <2>1 DEF WriteResult, PurgeFits, TypeOK
  <2> QED BY <1>1, <1>3, <2>2, <2>3, <2>4 DEF IInv
<1>5. CASE \E t \in Tasks, n \in SampleSizes : CountMatching(t, n)
  <2>1. PICK t \in Tasks, n \in SampleSizes : CountMatching(t, n)
    BY <1>5
  <2>2. n \in Nat
    BY AnnotationAssumption
  <2>3. TypeOK'
    BY <1>0, <2>1, <2>2 DEF CountMatching, TypeOK, CreateType
  <2>4. CreationFits'
    BY <1>0, <2>1 DEF CountMatching, CreationFits, TypeOK, CreateType
  <2>5. PurgeFits'
    BY <1>0, <2>1 DEF CountMatching, PurgeFits
  <2> QED BY <1>1, <1>3, <2>3, <2>4, <2>5 DEF IInv
<1>6. CASE InsertTask
  <2>1. NoCreate \in CreateType
    BY DEF NoCreate, CreateType
  <2>2. \A picked \in Samplings(create.size) : picked \in SUBSET Results
    BY DEF Samplings, kSubset, Stored
  <2>3. /\ create' \in CreateType
        /\ create'.pc # "idle" => create'.task = create.task /\ line = "live"
    <3>1. CASE line = "live"
      <4>1. PICK picked \in Samplings(create.size) :
              create' = [create EXCEPT !.pc = "inserted", !.picked = picked]
        BY <1>6, <3>1 DEF InsertTask
      <4> QED BY <1>0, <2>2, <3>1, <4>1 DEF TypeOK, CreateType
    <3>2. CASE line # "live"
      BY <1>6, <2>1, <3>2 DEF InsertTask, NoCreate
    <3> QED BY <3>1, <3>2
  <2>4. TypeOK'
    BY <1>0, <1>6, <2>3 DEF InsertTask, TypeOK
  <2>5. CreationFits'
    BY <1>0, <1>6, <2>3 DEF InsertTask, CreationFits
  <2>6. PurgeFits'
    BY <1>0, <1>6 DEF InsertTask, PurgeFits
  <2> QED BY <1>1, <1>3, <2>4, <2>5, <2>6 DEF IInv
<1>7. CASE RollBackDeletion
  <2>1. NoPurge \in PurgeType
    BY DEF NoPurge, PurgeType
  <2>2. TypeOK'
    BY <1>0, <1>7, <2>1 DEF RollBackDeletion, TypeOK
  <2>3. (CreationFits /\ PurgeFits)'
    BY <1>0, <1>7 DEF RollBackDeletion, CreationFits, PurgeFits, NoPurge
  <2> QED BY <1>1, <1>3, <2>2, <2>3 DEF IInv
<1> QED BY <1>4, <1>5, <1>6, <1>7

LEMMA StepKeepsInv == IInv /\ [Next]_vars => IInv'
<1> SUFFICES ASSUME IInv, [Next]_vars PROVE IInv'
  OBVIOUS
<1>1. CASE \/ \E r \in Results : WriteResult(r)
           \/ \E t \in Tasks, n \in SampleSizes : CountMatching(t, n)
           \/ InsertTask
           \/ RollBackDeletion
  <2>1. UNCHANGED <<task, sample, submit>>
    BY <1>1 DEF WriteResult, CountMatching, InsertTask, RollBackDeletion
  <2> QED BY <1>1, <2>1, QuietStep
<1>2. CASE Tick
  BY <1>2, TickStep
<1>3. CASE CommitTask
  BY <1>3, CommitTaskStep
<1>4. CASE \E u \in Users, t \in Tasks, n \in BatchSizes : ClaimSamples(u, t, n)
  BY <1>4, ClaimStep
<1>5. CASE \E tab \in Tabs, s \in Samples, c \in Categories : SubmitSample(tab, s, c)
  BY <1>5, SubmitStep
<1>6. CASE \E tab \in Tabs : StoreAnswer(tab)
  BY <1>6, StoreAnswerStep
<1>7. CASE \E u \in Users, s \in Samples : ReleaseSample(u, s)
  BY <1>7, ReleaseStep
<1>8. CASE \E match \in Filters : CleanUp(match)
  BY <1>8, CleanUpStep
<1>9. CASE DeleteLine
  BY <1>9, DeleteLineStep
<1>10. CASE DeleteResults
  BY <1>10, DeleteResultsStep
<1>11. CASE CommitCleanup
  BY <1>11, CommitCleanupStep
<1>12. CASE CommitDeletion
  BY <1>12, CommitDeletionStep
<1>13. CASE UNCHANGED vars
  BY <1>13 DEF vars, IInv, TypeOK, RowsHaveTask, CreationFits, SubmitFits, PurgeFits,
               DeletedLineIsBare, Rows
<1> QED
  BY <1>1, <1>2, <1>3, <1>4, <1>5, <1>6, <1>7, <1>8, <1>9, <1>10, <1>11, <1>12, <1>13 DEF Next

\* The shape of rows, requests and transactions is kept.
THEOREM TypeCorrect == Spec => []TypeOK
<1>1. IInv => TypeOK
  BY DEF IInv
<1> QED BY <1>1, InitFits, StepKeepsInv, PTL DEF Spec

\* A deleted line leaves no task and no sample, whoever was creating one: the
\* deletion waits for the creation, and is rolled back.
THEOREM LineBare == Spec => []DeletedLineIsBare
<1>1. IInv => DeletedLineIsBare
  BY DEF IInv
<1> QED BY <1>1, InitFits, StepKeepsInv, PTL DEF Spec

-----------------------------------------------------------------------------
(* What one step may do to one row.                                         *)

LEMMA RowStep == ASSUME IInv, [Next]_vars, NEW s \in Samples PROVE Respected(s) /\ Kept(s)
<1>0. /\ TypeOK /\ RowsHaveTask /\ CreationFits /\ SubmitFits /\ PurgeFits
      /\ sample[s] \in RowType /\ s[1] \in Tasks /\ s[2] \in Results
  BY DEF IInv, TypeOK, Samples
<1> USE DEF Respected, Kept
<1>1. CASE sample' = sample
  BY <1>1
<1>2. CASE Tick
  <2>1. sample'[s] = IF Ages(s) THEN [sample[s] EXCEPT !.age = @ + 1] ELSE sample[s]
    BY <1>2 DEF Tick
  <2>2. Ages(s) => sample[s].st = "open"
    BY DEF Ages, Locked
  <2> QED BY <1>0, <2>1, <2>2 DEF RowType
<1>3. CASE CommitTask
  <2>1. sample[s].st # "none" => s[1] # create.task
    BY <1>0, <1>3 DEF CommitTask, RowsHaveTask, CreationFits
  <2>2. sample[s].st # "none" => sample'[s] = sample[s]
    BY <1>3, <2>1 DEF CommitTask
  <2> QED BY <2>2 DEF Locked
<1>4. CASE \E u \in Users, t \in Tasks, n \in BatchSizes : ClaimSamples(u, t, n)
  <2>1. PICK u \in Users, t \in Tasks, n \in BatchSizes : ClaimSamples(u, t, n)
    BY <1>4
  <2>2. sample'[s] = sample[s] \/ Claimable(s)
    BY <2>1 DEF ClaimSamples, kSubset
  <2>3. Claimable(s) => sample[s].st = "open" /\ (sample[s].lock = Nobody \/ Expired(s))
    BY DEF Claimable
  <2> QED BY <2>2, <2>3 DEF Locked
<1>5. CASE \E tab \in Tabs : StoreAnswer(tab)
  <2>1. PICK tab \in Tabs : StoreAnswer(tab)
    BY <1>5
  <2>2. \/ sample'[s] = sample[s]
        \/ /\ s = submit[tab].s /\ MayLock(UserOf[tab], s)
           /\ sample'[s] = [st |-> "done", lock |-> UserOf[tab], age |-> 0,
                            answer |-> submit[tab].answer]
    BY <1>0, <2>1, StoreAnswerRows
  <2> QED BY <2>2 DEF MayLock, Claimable, Locked
<1>6. CASE \E u \in Users, x \in Samples : ReleaseSample(u, x)
  BY <1>0, <1>6 DEF ReleaseSample, TypeOK
<1>7. CASE CommitCleanup
  <2>1. sample'[s] = IF s \in purge.rows THEN NoRow ELSE sample[s]
    BY <1>0, <1>7, DeletedRows DEF CommitCleanup
  <2>2. s \in purge.rows => s[2] \in purge.results
    BY <1>0, <1>7 DEF CommitCleanup, PurgeFits
  <2>3. s \in purge.rows => result'[s[2]] = "gone"
    BY <1>0, <1>7, <2>2 DEF CommitCleanup, Deleted
  <2> QED BY <2>1, <2>3 DEF NoRow
<1>8. CASE CommitDeletion
  <2>1. sample'[s] = IF s \in purge.rows THEN NoRow ELSE sample[s]
    BY <1>0, <1>8, DeletedRows DEF CommitDeletion
  <2>2. line' = "deleted"
    BY <1>8 DEF CommitDeletion
  <2> QED BY <2>1, <2>2 DEF NoRow
<1>9. CASE \/ \E r \in Results : WriteResult(r)
           \/ \E t \in Tasks, n \in SampleSizes : CountMatching(t, n)
           \/ InsertTask
           \/ \E tab \in Tabs, x \in Samples, c \in Categories : SubmitSample(tab, x, c)
           \/ \E match \in Filters : CleanUp(match)
           \/ DeleteLine \/ DeleteResults \/ RollBackDeletion \/ UNCHANGED vars
  <2>1. sample' = sample
    BY <1>9 DEF WriteResult, CountMatching, InsertTask, SubmitSample, CleanUp, DeleteLine,
                DeleteResults, RollBackDeletion, vars
  <2> QED BY <1>1, <2>1
<1> QED
  BY <1>2, <1>3, <1>4, <1>5, <1>6, <1>7, <1>8, <1>9 DEF Next

\* A running lease keeps a sample with its holder, whenever the request of
\* another user began, and a stored answer stays as it is until its run result
\* or its line goes.
THEOREM WorkKept == Spec => WorkIsKept
<1>1. IInv /\ [Next]_vars => [\A s \in Samples : Respected(s) /\ Kept(s)]_vars
  <2> SUFFICES ASSUME IInv, [Next]_vars, NEW s \in Samples PROVE Respected(s) /\ Kept(s)
    OBVIOUS
  <2> QED BY RowStep
<1> QED BY <1>1, InitFits, StepKeepsInv, PTL DEF Spec, WorkIsKept

-----------------------------------------------------------------------------
(* What a task shows.                                                       *)

\* A task has no more rows than it counts as sampled.
FewRows == \A t \in Tasks : Cardinality(Rows(t)) <= task[t].sampled

\* The snapshot of a submission lacks at least its own sample.
SeenFewer ==
    \A tab \in Tabs : submit[tab].pc = "sent" =>
        LET t == submit[tab].s[1]
        IN  line = "deleted" \/ (task[t].status # "none" /\ submit[tab].seen < task[t].sampled)

\* Therefore the stored status stays what it was: no submission sees the last.
NotYet == \A t \in Tasks : task[t].status # "completed"

ProgressInv == FewRows /\ SeenFewer /\ NotYet

LEMMA NoTaskNoRows == ASSUME IInv, NEW t \in Tasks, task[t].status = "none" PROVE Rows(t) = {}
BY DEF IInv, RowsHaveTask, Rows, Samples

LEMMA InitProgress == Init => ProgressInv
<1> SUFFICES ASSUME Init PROVE ProgressInv
  OBVIOUS
<1>1. \A t \in Tasks : Rows(t) = {}
  BY DEF Init, Rows, NoRow, Samples
<1>2. Cardinality({}) = 0
  BY FS_EmptySet
<1> QED BY <1>1, <1>2 DEF Init, NoTask, NoSubmit, ProgressInv, FewRows, SeenFewer, NotYet

\* Which steps write the line, the tasks, the submissions and the rows.
LineFrame == line' = line \/ line' = "deleted"
TaskFrame == task' = task \/ CommitTask \/ CommitDeletion \/ \E tab \in Tabs : StoreAnswer(tab)
SubmitFrame ==
    \/ submit' = submit
    \/ \E tab \in Tabs : StoreAnswer(tab)
    \/ \E tab \in Tabs, s \in Samples, c \in Categories : SubmitSample(tab, s, c)
RowFrame ==
    \/ sample' = sample
    \/ Tick \/ CommitTask \/ CommitCleanup \/ CommitDeletion
    \/ \E u \in Users, t \in Tasks, n \in BatchSizes : ClaimSamples(u, t, n)
    \/ \E tab \in Tabs : StoreAnswer(tab)
    \/ \E u \in Users, s \in Samples : ReleaseSample(u, s)

LEMMA FrameStep == [Next]_vars => LineFrame /\ TaskFrame /\ SubmitFrame /\ RowFrame
<1> SUFFICES ASSUME [Next]_vars PROVE LineFrame /\ TaskFrame /\ SubmitFrame /\ RowFrame
  OBVIOUS
<1> USE DEF LineFrame, TaskFrame, SubmitFrame, RowFrame
<1>1. CASE \E r \in Results : WriteResult(r)
  BY <1>1 DEF WriteResult
<1>2. CASE Tick
  BY <1>2, Zenon DEF Tick
<1>3. CASE \E t \in Tasks, n \in SampleSizes : CountMatching(t, n)
  BY <1>3, Zenon DEF CountMatching
<1>4. CASE InsertTask
  BY <1>4, Zenon DEF InsertTask
<1>5. CASE CommitTask
  BY <1>5, Zenon DEF CommitTask
<1>6. CASE \E u \in Users, t \in Tasks, n \in BatchSizes : ClaimSamples(u, t, n)
  <2>1. ASSUME NEW u \in Users, NEW t \in Tasks, NEW n \in BatchSizes, ClaimSamples(u, t, n)
        PROVE  line' = line /\ task' = task /\ submit' = submit
    BY ONLY <2>1, Zenon DEF ClaimSamples
  <2> QED BY <1>6, <2>1
<1>7. CASE \E tab \in Tabs, s \in Samples, c \in Categories : SubmitSample(tab, s, c)
  <2>1. ASSUME NEW tab \in Tabs, NEW s \in Samples, NEW c \in Categories, SubmitSample(tab, s, c)
        PROVE  UNCHANGED <<line, result, task, sample, create, purge, claims>>
    BY <2>1 DEF SubmitSample
  <2> QED BY <1>7, <2>1
<1>8. CASE \E tab \in Tabs : StoreAnswer(tab)
  <2>1. ASSUME NEW tab \in Tabs, StoreAnswer(tab)
        PROVE  UNCHANGED <<line, result, create, purge, claims>>
    BY <2>1 DEF StoreAnswer
  <2> QED BY <1>8, <2>1
<1>9. CASE \E u \in Users, s \in Samples : ReleaseSample(u, s)
  <2>1. ASSUME NEW u \in Users, NEW s \in Samples, ReleaseSample(u, s)
        PROVE  UNCHANGED <<line, result, task, create, submit, purge, claims>>
    BY <2>1 DEF ReleaseSample
  <2> QED BY <1>9, <2>1
<1>10. CASE \E match \in Filters : CleanUp(match)
  BY <1>10 DEF CleanUp
<1>11. CASE DeleteLine
  BY <1>11 DEF DeleteLine
<1>12. CASE DeleteResults
  BY <1>12, Zenon DEF DeleteResults
<1>13. CASE CommitCleanup
  BY <1>13, Zenon DEF CommitCleanup
<1>14. CASE CommitDeletion
  BY <1>14, Zenon DEF CommitDeletion
<1>15. CASE RollBackDeletion
  BY <1>15, Zenon DEF RollBackDeletion
<1>16. CASE UNCHANGED vars
  BY <1>16 DEF vars
<1> HIDE DEF LineFrame, TaskFrame, SubmitFrame, RowFrame
<1> QED
  BY <1>1, <1>2, <1>3, <1>4, <1>5, <1>6, <1>7, <1>8, <1>9, <1>10, <1>11, <1>12, <1>13, <1>14,
     <1>15, <1>16 DEF Next

\* Apart from the creation of a task, no step makes a row.
LEMMA RowsOnlyGo ==
  ASSUME IInv, [Next]_vars, NEW s \in Samples, sample'[s].st # "none",
         ~(CommitTask /\ s[1] = create.task)
  PROVE  sample[s].st # "none"
<1>0. TypeOK /\ SubmitFits
  BY DEF IInv
<1>1. CASE sample' = sample
  BY <1>1
<1>2. CASE Tick
  BY <1>2 DEF Tick
<1>3. CASE CommitTask
  BY <1>3 DEF CommitTask
<1>4. CASE \E u \in Users, t \in Tasks, n \in BatchSizes : ClaimSamples(u, t, n)
  <2>1. PICK u \in Users, t \in Tasks, n \in BatchSizes : ClaimSamples(u, t, n)
    BY <1>4
  <2>2. sample'[s] = sample[s] \/ Claimable(s)
    BY <2>1, Zenon DEF ClaimSamples, kSubset
  <2>3. Claimable(s) => sample[s].st = "open"
    BY DEF Claimable
  <2> QED BY <2>2, <2>3
<1>5. CASE \E tab \in Tabs : StoreAnswer(tab)
  <2>1. PICK tab \in Tabs : StoreAnswer(tab)
    BY <1>5
  <2>2. sample'[s] = sample[s] \/ MayLock(UserOf[tab], s)
    BY <1>0, <2>1, StoreAnswerRows
  <2> QED BY <2>2 DEF MayLock, Claimable
<1>6. CASE \E u \in Users, x \in Samples : ReleaseSample(u, x)
  BY <1>0, <1>6 DEF ReleaseSample, TypeOK
<1>7. CASE CommitCleanup \/ CommitDeletion
  <2>1. sample'[s] = IF s \in purge.rows THEN NoRow ELSE sample[s]
    BY <1>0, <1>7, DeletedRows DEF CommitCleanup, CommitDeletion
  <2> QED BY <2>1 DEF NoRow
<1> QED
  BY <1>1, <1>2, <1>3, <1>4, <1>5, <1>6, <1>7, FrameStep DEF RowFrame

\* A task is created, goes with its line, or keeps its size and its status.
Lasts(t) ==
    /\ task'[t].status = task[t].status /\ task'[t].sampled = task[t].sampled
    /\ Rows(t)' \subseteq Rows(t)
Begins(t) ==
    /\ task[t].status = "none" /\ task'[t].status = "active"
    /\ task'[t].sampled = Cardinality(Rows(t)') /\ line' = "live"
Goes(t) == task'[t] = NoTask /\ Rows(t)' = {} /\ line' = "deleted"

LEMMA TaskStep ==
  ASSUME IInv, ProgressInv, [Next]_vars, NEW t \in Tasks PROVE Lasts(t) \/ Begins(t) \/ Goes(t)
<1>0. TypeOK /\ RowsHaveTask /\ CreationFits /\ SubmitFits /\ task[t] \in TaskType
  BY DEF IInv, TypeOK
<1>a. ~(CommitTask /\ t = create.task) => Rows(t)' \subseteq Rows(t)
  <2> SUFFICES ASSUME ~(CommitTask /\ t = create.task), NEW r \in Results,
                      sample'[<<t, r>>].st # "none"
               PROVE  sample[<<t, r>>].st # "none"
    BY DEF Rows
  <2>1. <<t, r>> \in Samples /\ <<t, r>>[1] = t
    BY DEF Samples
  <2> QED BY <2>1, RowsOnlyGo
<1>1. CASE CommitTask /\ t = create.task
  <2>1. create.picked \in SUBSET Results /\ task[t].status = "none" /\ line = "live"
    BY <1>0, <1>1 DEF CommitTask, CreationFits, TypeOK, CreateType
  <2>2. Rows(t) = {}
    BY <2>1, NoTaskNoRows
  <2>3. \A r \in Results : sample'[<<t, r>>].st # "none" <=> r \in create.picked
    BY <1>1, <2>2 DEF CommitTask, Samples, Rows, FreeRow, NoRow
  <2>4. Rows(t)' = create.picked
    BY <2>1, <2>3 DEF Rows
  <2>5. task'[t].status = "active" /\ task'[t].sampled = Cardinality(create.picked) /\ line' = "live"
    BY <1>0, <1>1, <2>1 DEF CommitTask, TypeOK
  <2> QED BY <2>1, <2>4, <2>5 DEF Begins
<1>2. CASE CommitTask /\ t # create.task
  <2>1. task'[t] = task[t]
    BY <1>0, <1>2 DEF CommitTask, TypeOK
  <2> QED BY <1>a, <1>2, <2>1 DEF Lasts
<1>3. CASE CommitDeletion
  <2>1. Deleted /\ \A s \in Samples : sample[s].st # "none" => s \in purge.rows
    BY <1>3 DEF CommitDeletion, ForeignKeysHold
  <2>2. \A s \in Samples : sample'[s].st = "none"
    BY <1>0, <2>1, DeletedRows DEF NoRow
  <2>3. Rows(t)' = {}
    BY <2>2 DEF Rows, Samples
  <2>4. task'[t] = NoTask /\ line' = "deleted"
    BY <1>3 DEF CommitDeletion
  <2> QED BY <2>3, <2>4 DEF Goes
<1>4. CASE \E tab \in Tabs : StoreAnswer(tab)
  <2>1. PICK tab \in Tabs : StoreAnswer(tab)
    BY <1>4
  <2>2. Rows(t)' \subseteq Rows(t)
    <3>1. create' = create /\ submit'[tab].pc = "idle" /\ submit[tab].pc = "sent"
      BY <1>0, <2>1 DEF StoreAnswer, TypeOK, NoSubmit
    <3>2. ~CommitTask
      BY <1>0, <3>1 DEF CommitTask, NoCreate
    <3> QED BY <1>a, <3>2
  <2>3. CASE task' = task
    BY <2>2, <2>3 DEF Lasts
  <2>4. CASE /\ StillOpen(UserOf[tab], submit[tab].s)
             /\ task' = [task EXCEPT ![submit[tab].s[1]] = Progress(@, submit[tab].seen)]
    <3>1. submit[tab] \in SubmitType /\ submit[tab].s \in Samples /\ submit[tab].pc = "sent"
      BY <1>0, <2>1 DEF TypeOK, StoreAnswer, SubmitFits
    <3>2. CASE t # submit[tab].s[1]
      BY <1>0, <2>2, <2>4, <3>2 DEF Lasts, TypeOK
    <3>3. CASE t = submit[tab].s[1]
      <4>1. sample[submit[tab].s].st = "open"
        BY <2>4 DEF StillOpen, MayLock, Claimable
      <4>2. task[t].status # "none"
        BY <1>0, <3>1, <3>3, <4>1 DEF RowsHaveTask
      <4>3. line # "deleted"
        BY <4>2 DEF IInv, DeletedLineIsBare
      <4>4. submit[tab].seen < task[t].sampled
        BY <3>1, <3>3, <4>3 DEF ProgressInv, SeenFewer
      <4>5. task'[t] = Progress(task[t], submit[tab].seen)
        BY <1>0, <2>4, <3>3 DEF TypeOK
      <4>6. ~(submit[tab].seen >= task[t].sampled)
        BY <1>0, <3>1, <4>4 DEF TaskType, SubmitType
      <4>7. task'[t].status = task[t].status /\ task'[t].sampled = task[t].sampled
        BY <1>0, <4>5, <4>6 DEF Progress, TaskType
      <4> QED BY <2>2, <4>7 DEF Lasts
    <3> QED BY <3>2, <3>3
  <2> QED BY <2>1, <2>3, <2>4 DEF StoreAnswer
<1>5. CASE task' = task /\ ~CommitTask
  BY <1>a, <1>5 DEF Lasts
<1> QED BY <1>1, <1>2, <1>3, <1>4, <1>5, FrameStep DEF TaskFrame

\* What a step leaves of the submission of a tab.
LEMMA SubmitNow ==
  ASSUME IInv, [Next]_vars, NEW tab \in Tabs, submit'[tab].pc = "sent"
  PROVE  \/ submit'[tab] = submit[tab]
         \/ \E s \in Samples, c \in Categories : SubmitSample(tab, s, c)
<1>0. TypeOK
  BY DEF IInv
<1>1. CASE submit' = submit
  BY <1>1
<1>2. CASE \E x \in Tabs : StoreAnswer(x)
  BY <1>0, <1>2 DEF StoreAnswer, TypeOK, NoSubmit
<1>3. CASE \E x \in Tabs, s \in Samples, c \in Categories : SubmitSample(x, s, c)
  BY <1>0, <1>3 DEF SubmitSample, TypeOK
<1> QED BY <1>1, <1>2, <1>3, FrameStep DEF SubmitFrame

LEMMA ProgressStep == IInv /\ ProgressInv /\ [Next]_vars => ProgressInv'
<1> SUFFICES ASSUME IInv, ProgressInv, [Next]_vars PROVE ProgressInv'
  OBVIOUS
<1>0. IInv' /\ TypeOK /\ TypeOK' /\ SubmitFits
  BY StepKeepsInv DEF IInv
<1>a. Results \in SUBSET Results /\ IsFiniteSet(Results)
  BY AnnotationAssumption
<1>1. NotYet'
  <2> SUFFICES ASSUME NEW t \in Tasks PROVE task'[t].status # "completed"
    BY DEF NotYet
  <2>1. Lasts(t) \/ Begins(t) \/ Goes(t)
    BY TaskStep
  <2> QED BY <2>1 DEF Lasts, Begins, Goes, NoTask, ProgressInv, NotYet
<1>2. FewRows'
  <2> SUFFICES ASSUME NEW t \in Tasks PROVE Cardinality(Rows(t)') <= task'[t].sampled
    BY DEF FewRows
  <2>1. Lasts(t) \/ Begins(t) \/ Goes(t)
    BY TaskStep
  <2>2. Rows(t) \subseteq Results /\ Rows(t)' \subseteq Results
    BY DEF Rows
  <2>3. IsFiniteSet(Rows(t)) /\ Cardinality(Rows(t)) \in Nat /\ Cardinality(Rows(t)') \in Nat
    BY <1>a, <2>2, FS_Subset, CountsAreNat
  <2>4. task[t].sampled \in Nat
    BY <1>0 DEF TypeOK, TaskType
  <2>5. CASE Lasts(t)
    <3>1. Cardinality(Rows(t)') <= Cardinality(Rows(t))
      BY <2>3, <2>5, FS_Subset DEF Lasts
    <3>2. Cardinality(Rows(t)) <= task[t].sampled /\ task'[t].sampled = task[t].sampled
      BY <2>5 DEF Lasts, ProgressInv, FewRows
    <3> QED BY <2>3, <2>4, <3>1, <3>2
  <2>6. CASE Begins(t)
    BY <2>3, <2>6 DEF Begins
  <2>7. CASE Goes(t)
    BY <2>7, FS_EmptySet DEF Goes, NoTask
  <2> QED BY <2>1, <2>5, <2>6, <2>7
<1>3. SeenFewer'
  <2> SUFFICES ASSUME NEW tab \in Tabs, submit'[tab].pc = "sent", line' # "deleted"
               PROVE  /\ task'[submit'[tab].s[1]].status # "none"
                      /\ submit'[tab].seen < task'[submit'[tab].s[1]].sampled
    BY DEF SeenFewer
  <2>1. CASE submit'[tab] = submit[tab]
    <3>1. PICK t \in Tasks : t = submit[tab].s[1]
      BY <1>0, <2>1 DEF SubmitFits, Samples
    <3>2. line # "deleted"
      BY FrameStep DEF LineFrame
    <3>3. task[t].status # "none" /\ submit[tab].seen < task[t].sampled
      BY <2>1, <3>1, <3>2 DEF ProgressInv, SeenFewer
    <3>4. Lasts(t) \/ Begins(t) \/ Goes(t)
      BY TaskStep
    <3>5. Lasts(t)
      BY <3>3, <3>4 DEF Begins, Goes
    <3> QED BY <2>1, <3>1, <3>3, <3>5 DEF Lasts
  <2>2. CASE \E s \in Samples, c \in Categories : SubmitSample(tab, s, c)
    <3>1. PICK s \in Samples, c \in Categories : SubmitSample(tab, s, c)
      BY <2>2
    <3>2. PICK t \in Tasks, r \in Results : s = <<t, r>>
      BY DEF Samples
    <3>3. /\ submit'[tab].s[1] = t /\ submit'[tab].seen = Cardinality(Submitted(t))
          /\ task' = task
      BY <1>0, <3>1, <3>2 DEF SubmitSample, TypeOK
    <3>4. sample[s].st = "open"
      BY <3>1 DEF SubmitSample, MayLock, Claimable
    <3>5. task[t].status # "none"
      BY <3>2, <3>4 DEF IInv, RowsHaveTask
    <3>6. Submitted(t) \subseteq Rows(t) /\ r \in Rows(t) /\ r \notin Submitted(t)
      BY <3>2, <3>4 DEF Submitted, Rows
    <3>7. IsFiniteSet(Rows(t)) /\ Cardinality(Rows(t)) \in Nat /\ Cardinality(Submitted(t)) \in Nat
      <4>1. Rows(t) \subseteq Results
        BY DEF Rows
      <4> QED BY <1>a, <4>1, FS_Subset, CountsAreNat
    <3>8. Cardinality(Submitted(t)) < Cardinality(Rows(t))
      <4>1. Cardinality(Submitted(t)) <= Cardinality(Rows(t))
            /\ (Cardinality(Submitted(t)) = Cardinality(Rows(t)) => Submitted(t) = Rows(t))
        BY <3>6, <3>7, FS_Subset
      <4> QED BY <3>6, <3>7, <4>1
    <3>9. Cardinality(Rows(t)) <= task[t].sampled /\ task[t].sampled \in Nat
      BY <1>0 DEF ProgressInv, FewRows, TypeOK, TaskType
    <3> QED BY <3>3, <3>5, <3>7, <3>8, <3>9
  <2> QED BY <2>1, <2>2, SubmitNow
<1> QED BY <1>1, <1>2, <1>3 DEF ProgressInv

\* A task that shows as completed has no sample left to submit, and goes on
\* showing it while it has rows: no stored answer changes, and only the creation
\* of another task makes rows.
THEOREM CompletedStays == Spec => CompletedIsDone
<1>1. ASSUME IInv, ProgressInv, [Next]_vars, NEW t \in Tasks, ShownStatus(t) = "completed"
      PROVE  /\ Submitted(t) = Rows(t)
             /\ ShownStatus(t)' = "completed" \/ Rows(t)' = {}
  <2>1. Rows(t) # {} /\ Submitted(t) = Rows(t)
    BY <1>1 DEF ShownStatus, ProgressInv, NotYet
  <2>2. Lasts(t) \/ Begins(t) \/ Goes(t)
    BY <1>1, TaskStep
  <2>3. task[t].status # "none"
    BY <1>1, <2>1, NoTaskNoRows
  <2>4. CASE Lasts(t)
    <3>1. \A r \in Rows(t)' : sample'[<<t, r>>].st = "done"
      <4> SUFFICES ASSUME NEW r \in Rows(t)' PROVE sample'[<<t, r>>].st = "done"
        OBVIOUS
      <4>1. r \in Submitted(t)
        BY <2>1, <2>4 DEF Lasts
      <4>2. <<t, r>> \in Samples /\ sample[<<t, r>>].st = "done" /\ sample'[<<t, r>>].st # "none"
        BY <4>1 DEF Submitted, Samples, Rows
      <4>3. Kept(<<t, r>>)
        BY <1>1, <4>2, RowStep
      <4> QED BY <4>2, <4>3 DEF Kept
    <3>2. Submitted(t)' = Rows(t)'
      BY <3>1 DEF Submitted, Rows
    <3> QED BY <2>1, <3>2 DEF ShownStatus
  <2> QED BY <2>1, <2>2, <2>3, <2>4 DEF Begins, Goes
<1>2. IInv /\ ProgressInv /\ [Next]_vars =>
        [\A t \in Tasks : ShownStatus(t) = "completed" =>
           /\ Submitted(t) = Rows(t)
           /\ ShownStatus(t)' = "completed" \/ Rows(t)' = {}]_vars
  BY <1>1
<1> QED BY <1>2, InitFits, StepKeepsInv, InitProgress, ProgressStep, PTL DEF Spec, CompletedIsDone
=============================================================================
