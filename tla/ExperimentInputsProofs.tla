----------------------- MODULE ExperimentInputsProofs -----------------------
(***************************************************************************)
(* Proofs about ExperimentInputs and the imports beneath it, for any       *)
(* number of uploads, batches, clients, experiments and faults.            *)
(***************************************************************************)
EXTENDS ExperimentInputs, FiniteSetTheorems, TLAPS

USE DEF history

-----------------------------------------------------------------------------
(* Staged rows have an owner.                                               *)

\* No rows, or somebody who looks for them: the sweep, the request that has
\* failed, or the session, which the sweep finds when it is stale.
RowsFound(u) == \/ staged[u] = {} \/ u \in sweep.clear \/ up[u].pc = "clear"
                \/ imp[u] \in {"importing", "finalizing"}

\* A session in promotion still has its request.
PromotionAlive(u) == imp[u] = "finalizing" => up[u].pc \in {"promote", "commit", "fail"}

Owned == \A u \in Uploads \ lost : RowsFound(u) /\ PromotionAlive(u)
OInv == TypeOK /\ Owned

LEMMA OwnedInitially == Init => OInv
<1> SUFFICES ASSUME Init PROVE OInv
  OBVIOUS
<1>1. up \in [Uploads -> Requests]
  BY DEF Init, ImportInit, NewUpload, Requests, UploadPcs, Counts
<1>2. TypeOK
  BY <1>1 DEF Init, ImportInit, TypeOK, NoSweep, Statuses
<1>3. Owned
  BY DEF Init, ImportInit, Owned, RowsFound, PromotionAlive
<1> QED
  BY <1>2, <1>3 DEF OInv

LEMMA ServeStep ==
  ASSUME OInv, NEW u \in Uploads, Serve(u) PROVE OInv'
<1>0. TypeOK /\ Owned
  BY DEF OInv
<1>1. CASE CreateImport(u)
  <2>1. /\ up' \in [Uploads -> Requests]
        /\ \A v \in Uploads : up'[v].pc = IF v = u THEN "parse" ELSE up[v].pc
    BY <1>0, <1>1 DEF CreateImport, Goto, Requests, UploadPcs, TypeOK
  <2>2. /\ imp' \in [Uploads -> Statuses]
        /\ \A v \in Uploads : imp'[v] = IF v = u THEN "importing" ELSE imp[v]
    BY <1>0, <1>1 DEF CreateImport, Becomes, Statuses, TypeOK
  <2>3. TypeOK'
    BY <1>0, <1>1, <2>1, <2>2 DEF CreateImport, TypeOK
  <2>4. Owned'
    BY <1>0, <1>1, <2>1, <2>2 DEF CreateImport, TypeOK, Owned, RowsFound, PromotionAlive
  <2> QED BY <2>3, <2>4 DEF OInv
<1>2. CASE AppendBatch(u)
  <2>1. /\ up' \in [Uploads -> Requests]
        /\ \A v \in Uploads : up'[v].pc = up[v].pc
    <3>1. up[u].next + 1 \in Nat
      BY <1>0 DEF TypeOK, Requests, UploadPcs
    <3> QED BY <3>1, <1>0, <1>2 DEF AppendBatch, TypeOK, Requests, UploadPcs
  <2>2. /\ staged' \in [Uploads -> SUBSET Nat]
        /\ \A v \in Uploads \ {u} : staged'[v] = staged[v]
    BY <1>0, <1>2 DEF AppendBatch, TypeOK, Requests, UploadPcs
  <2>3. /\ imp' \in [Uploads -> Statuses]
        /\ \A v \in Uploads \ {u} : imp'[v] = imp[v]
        /\ imp'[u] = IF imp[u] \in {"aborted", "finalizing"} THEN imp[u] ELSE "importing"
    BY <1>0, <1>2 DEF AppendBatch, Becomes, Statuses, TypeOK
  <2>4. /\ lost' \subseteq Uploads /\ lost \subseteq lost'
        /\ imp[u] = "aborted" => u \in lost'
    BY <1>0, <1>2 DEF AppendBatch, TypeOK
  <2>5. sweep' = sweep
    BY <1>2 DEF AppendBatch
  <2>6. TypeOK'
    BY <1>0, <2>1, <2>2, <2>3, <2>4, <2>5 DEF TypeOK
  <2>7. Owned'
    BY <1>0, <1>2, <2>1, <2>2, <2>3, <2>4, <2>5 DEF Owned, RowsFound, PromotionAlive
  <2> QED BY <2>6, <2>7 DEF OInv
<1>3. CASE MarkPromoting(u)
  <2>1. CASE imp[u] = "importing"
    <3>1. /\ up' \in [Uploads -> Requests]
          /\ \A v \in Uploads : up'[v].pc = IF v = u THEN "promote" ELSE up[v].pc
      BY <1>0, <1>3, <2>1 DEF MarkPromoting, Goto, Requests, UploadPcs, TypeOK
    <3>2. /\ imp' \in [Uploads -> Statuses]
          /\ \A v \in Uploads : imp'[v] = IF v = u THEN "finalizing" ELSE imp[v]
      BY <1>0, <1>3, <2>1 DEF MarkPromoting, Becomes, Statuses, TypeOK
    <3>3. TypeOK'
      BY <1>0, <1>3, <3>1, <3>2 DEF MarkPromoting, TypeOK
    <3>4. Owned'
      BY <1>0, <1>3, <3>1, <3>2 DEF MarkPromoting, Owned, RowsFound, PromotionAlive
    <3> QED BY <3>3, <3>4 DEF OInv
  <2>2. CASE imp[u] # "importing"
    <3>1. /\ up' \in [Uploads -> Requests]
          /\ \A v \in Uploads : up'[v].pc = IF v = u THEN "left" ELSE up[v].pc
      <4>1. Leaves(u, "left")
        BY <1>3, <2>2 DEF MarkPromoting
      <4> QED BY <1>0, <4>1 DEF Leaves, NewUpload, Counts, Requests, UploadPcs, TypeOK
    <3>2. TypeOK'
      BY <1>0, <1>3, <2>2, <3>1 DEF MarkPromoting, TypeOK
    <3>3. Owned'
      BY <1>0, <1>3, <2>2, <3>1 DEF MarkPromoting, Owned, RowsFound, PromotionAlive
    <3> QED BY <3>2, <3>3 DEF OInv
  <2> QED BY <2>1, <2>2
<1>4. CASE Promote(u)
  <2>1. /\ up' \in [Uploads -> Requests]
        /\ \A v \in Uploads \ {u} : up'[v].pc = up[v].pc
        /\ up'[u].pc \in {"fail", "commit"}
    <3>1. Cardinality(staged[u]) \in Counts
      BY <1>0 DEF TypeOK, Counts
    <3> DEFINE n == Cardinality(staged[u])
    <3>2. n \in Counts
      BY <3>1
    <3>3. \/ up' = [up EXCEPT ![u].pc = "fail"]
          \/ up' = [up EXCEPT ![u].pc = "commit", ![u].counted = n]
      BY <1>4 DEF Promote
    <3> HIDE DEF n
    <3>4. CASE up' = [up EXCEPT ![u].pc = "fail"]
      BY <3>4, <1>0 DEF TypeOK, Requests, UploadPcs
    <3>5. CASE up' = [up EXCEPT ![u].pc = "commit", ![u].counted = n]
      BY <3>2, <3>5, <1>0 DEF TypeOK, Requests, UploadPcs
    <3> QED BY <3>3, <3>4, <3>5
  <2>2. TypeOK'
    BY <1>0, <1>4, <2>1 DEF Promote, TypeOK
  <2>3. Owned'
    BY <1>0, <1>4, <2>1 DEF Promote, Owned, RowsFound, PromotionAlive
  <2> QED BY <2>2, <2>3 DEF OInv
<1>5. CASE Commit(u)
  <2>1. CASE MayCommit(u)
    <3>1. /\ up' \in [Uploads -> Requests]
          /\ \A v \in Uploads : up'[v].pc = IF v = u THEN "answer" ELSE up[v].pc
      <4>1. Leaves(u, "answer")
        BY <1>5, <2>1 DEF Commit
      <4> QED BY <1>0, <4>1 DEF Leaves, NewUpload, Counts, Requests, UploadPcs, TypeOK
    <3>2. /\ imp' \in [Uploads -> Statuses]
          /\ \A v \in Uploads : imp'[v] = IF v = u THEN "completed" ELSE imp[v]
      BY <1>0, <1>5, <2>1 DEF Commit, Becomes, Statuses, TypeOK
    <3>3. staged' = [staged EXCEPT ![u] = {}] /\ sweep' = sweep /\ lost' = lost
      BY <1>5, <2>1 DEF Commit
    <3>4. TypeOK'
      BY <1>0, <3>1, <3>2, <3>3 DEF TypeOK
    <3>5. Owned'
      BY <1>0, <1>5, <3>1, <3>2, <3>3 DEF Commit, TypeOK, Owned, RowsFound, PromotionAlive
    <3> QED BY <3>4, <3>5 DEF OInv
  <2>2. CASE ~MayCommit(u)
    <3>1. /\ up' \in [Uploads -> Requests]
          /\ \A v \in Uploads : up'[v].pc = IF v = u THEN "fail" ELSE up[v].pc
      BY <1>0, <1>5, <2>2 DEF Commit, Goto, Requests, UploadPcs, TypeOK
    <3>2. UNCHANGED <<imp, staged, sweep, lost>>
      BY <1>5, <2>2 DEF Commit
    <3>3. TypeOK'
      BY <1>0, <3>1, <3>2 DEF TypeOK
    <3>4. Owned'
      BY <1>0, <1>5, <3>1, <3>2 DEF Commit, Owned, RowsFound, PromotionAlive
    <3> QED BY <3>3, <3>4 DEF OInv
  <2> QED BY <2>1, <2>2
<1>6. CASE Answer(u)
  <2>1. /\ up' \in [Uploads -> Requests]
        /\ \A v \in Uploads : up'[v].pc = IF v = u THEN "ok" ELSE up[v].pc
    BY <1>0, <1>6 DEF Answer, Goto, Requests, UploadPcs, TypeOK
  <2>2. TypeOK'
    BY <1>0, <1>6, <2>1 DEF Answer, TypeOK
  <2>3. Owned'
    BY <1>0, <1>6, <2>1 DEF Answer, TypeOK, Owned, RowsFound, PromotionAlive
  <2> QED BY <2>2, <2>3 DEF OInv
<1>7. CASE MarkFailed(u)
  <2>1. /\ up' \in [Uploads -> Requests]
        /\ \A v \in Uploads : up'[v].pc = IF v = u THEN "clear" ELSE up[v].pc
    BY <1>0, <1>7 DEF MarkFailed, Goto, Requests, UploadPcs, TypeOK
  <2>2. /\ imp' \in [Uploads -> Statuses]
        /\ \A v \in Uploads : imp'[v] = IF v = u THEN "failed" ELSE imp[v]
    BY <1>0, <1>7 DEF MarkFailed, Becomes, Statuses, TypeOK
  <2>3. TypeOK'
    BY <1>0, <1>7, <2>1, <2>2 DEF MarkFailed, TypeOK
  <2>4. Owned'
    BY <1>0, <1>7, <2>1, <2>2 DEF MarkFailed, TypeOK, Owned, RowsFound, PromotionAlive
  <2> QED BY <2>3, <2>4 DEF OInv
<1>8. CASE ClearFailed(u)
  <2>1. /\ up' \in [Uploads -> Requests]
        /\ \A v \in Uploads : up'[v].pc = IF v = u THEN "failed" ELSE up[v].pc
    BY <1>0, <1>8 DEF ClearFailed, Leaves, NewUpload, Counts, Requests, UploadPcs, TypeOK
  <2>2. TypeOK'
    BY <1>0, <1>8, <2>1 DEF ClearFailed, TypeOK
  <2>3. Owned'
    BY <1>0, <1>8, <2>1 DEF ClearFailed, TypeOK, Owned, RowsFound, PromotionAlive
  <2> QED BY <2>2, <2>3 DEF OInv
<1> QED
  BY <1>1, <1>2, <1>3, <1>4, <1>5, <1>6, <1>7, <1>8 DEF Serve

\* What does not touch the imports.
LEMMA ImportsUntouched ==
  ASSUME OInv, UNCHANGED <<imp, staged, up, sweep, lost>>
  PROVE OInv'
<1> QED
  BY DEF OInv, TypeOK, Owned, RowsFound, PromotionAlive

LEMMA FaultStep ==
  ASSUME OInv, NEW u \in Uploads, StatementFails(u) \/ Outage(u) \/ Age(u) PROVE OInv'
<1>0. TypeOK /\ Owned
  BY DEF OInv
<1>1. CASE StatementFails(u)
  <2>1. /\ up' \in [Uploads -> Requests]
        /\ \A v \in Uploads : up'[v].pc = IF v = u THEN "fail" ELSE up[v].pc
    BY <1>0, <1>1 DEF StatementFails, Goto, Requests, UploadPcs, TypeOK
  <2>2. UNCHANGED <<imp, staged, sweep, lost>> /\ InTry(u)
    BY <1>1 DEF StatementFails
  <2>3. TypeOK'
    BY <1>0, <2>1, <2>2 DEF TypeOK
  <2>4. Owned'
    BY <1>0, <2>1, <2>2 DEF Owned, RowsFound, PromotionAlive, InTry
  <2> QED BY <2>3, <2>4 DEF OInv
<1>2. CASE Outage(u)
  <2>1. /\ up' \in [Uploads -> Requests]
        /\ \A v \in Uploads : up'[v].pc = IF v = u THEN "failed" ELSE up[v].pc
    <3>1. Leaves(u, "failed")
      BY <1>2 DEF Outage
    <3> QED BY <1>0, <3>1 DEF Leaves, NewUpload, Counts, Requests, UploadPcs, TypeOK
  <2>2. UNCHANGED <<imp, staged, sweep>>
    BY <1>2 DEF Outage
  <2>3. /\ lost' \subseteq Uploads /\ lost \subseteq lost'
        /\ imp[u] = "finalizing" \/ up[u].pc = "clear" => u \in lost'
    BY <1>0, <1>2 DEF Outage, Unfindable, TypeOK
  <2>4. TypeOK'
    BY <1>0, <2>1, <2>2, <2>3 DEF TypeOK
  <2>5. Owned'
    BY <1>0, <2>1, <2>2, <2>3 DEF Owned, RowsFound, PromotionAlive
  <2> QED BY <2>4, <2>5 DEF OInv
<1>3. CASE Age(u)
  BY <1>3, ImportsUntouched DEF Age
<1> QED
  BY <1>1, <1>2, <1>3

\* The sweep has done with an upload.
LEMMA DoneWith ==
  ASSUME TypeOK, NEW u \in Uploads
  PROVE  /\ Done(u) \in [todo : SUBSET Uploads, clear : SUBSET Uploads, left : SUBSET Uploads]
         /\ Done(u).clear = sweep.clear \ {u} /\ Done(u).todo = sweep.todo \ {u}
<1> QED
  BY DEF TypeOK, Done

LEMMA SweepStep ==
  ASSUME OInv, Sweep PROVE OInv'
<1>0. TypeOK /\ Owned
  BY DEF OInv
<1>1. CASE FindStale
  <2>1. UNCHANGED <<imp, staged, up, lost>>
    BY <1>1 DEF FindStale
  <2> DEFINE found == {u \in Uploads : Sweepable(u)}
  <2>2. sweep' = [sweep EXCEPT !.todo = @ \cup found, !.left = @ \ found]
    BY <1>1 DEF FindStale
  <2> HIDE DEF found
  <2>3. found \subseteq Uploads
    BY DEF found
  <2>4. /\ sweep' \in [todo : SUBSET Uploads, clear : SUBSET Uploads, left : SUBSET Uploads]
        /\ sweep'.clear = sweep.clear
    BY <1>0, <2>2, <2>3 DEF TypeOK
  <2>5. TypeOK'
    BY <1>0, <2>1, <2>4 DEF TypeOK
  <2>6. Owned'
    BY <1>0, <2>1, <2>4 DEF Owned, RowsFound, PromotionAlive
  <2> QED BY <2>5, <2>6 DEF OInv
<1>2. ASSUME NEW u \in Uploads, MarkAborted(u) PROVE OInv'
  <2>1. UNCHANGED <<staged, up, lost>>
    BY <1>2 DEF MarkAborted
  <2>2. CASE imp[u] \in {"importing", "finalizing"}
    <3>1. /\ imp' \in [Uploads -> Statuses]
          /\ \A v \in Uploads : imp'[v] = IF v = u THEN "aborted" ELSE imp[v]
      BY <1>0, <1>2, <2>2 DEF MarkAborted, Becomes, Statuses, TypeOK
    <3>2. sweep' = [sweep EXCEPT !.todo = @ \ {u}, !.clear = @ \cup {u}]
      BY <1>2, <2>2 DEF MarkAborted, Cleared
    <3>3. /\ sweep' \in [todo : SUBSET Uploads, clear : SUBSET Uploads, left : SUBSET Uploads]
          /\ sweep'.clear = sweep.clear \cup {u}
      BY <1>0, <3>2 DEF TypeOK
    <3>4. TypeOK'
      BY <1>0, <2>1, <3>1, <3>3 DEF TypeOK
    <3>5. Owned'
      BY <1>0, <2>1, <3>1, <3>3 DEF Owned, RowsFound, PromotionAlive
    <3> QED BY <3>4, <3>5 DEF OInv
  <2>3. CASE imp[u] \notin {"importing", "finalizing"}
    <3>1. imp' = imp /\ sweep' = [sweep EXCEPT !.todo = @ \ {u}, !.left = @ \ {u}]
      BY <1>2, <2>3 DEF MarkAborted
    <3>2. /\ sweep' \in [todo : SUBSET Uploads, clear : SUBSET Uploads, left : SUBSET Uploads]
          /\ sweep'.clear = sweep.clear
      BY <1>0, <3>1 DEF TypeOK
    <3>3. TypeOK'
      BY <1>0, <2>1, <3>1, <3>2 DEF TypeOK
    <3>4. Owned'
      BY <1>0, <2>1, <3>1, <3>2 DEF Owned, RowsFound, PromotionAlive
    <3> QED BY <3>3, <3>4 DEF OInv
  <2> QED BY <2>2, <2>3
<1>3. ASSUME NEW u \in Uploads, ClearAborted(u) PROVE OInv'
  <2>1. UNCHANGED <<imp, up, lost>> /\ staged' = [staged EXCEPT ![u] = {}] /\ sweep' = Done(u)
    BY <1>3 DEF ClearAborted
  <2>2. TypeOK'
    BY <1>0, <2>1, DoneWith DEF TypeOK
  <2>3. sweep'.clear = sweep.clear \ {u}
    BY <1>0, <2>1, DoneWith
  <2>4. Owned'
    BY <1>0, <2>1, <2>3 DEF TypeOK, Owned, RowsFound, PromotionAlive
  <2> QED BY <2>2, <2>4 DEF OInv
<1>4. ASSUME NEW u \in Uploads, SweepFails(u) PROVE OInv'
  <2>1. UNCHANGED <<imp, staged, up>> /\ lost' = lost \cup ({u} \cap sweep.clear)
    BY <1>4 DEF SweepFails
  <2> DEFINE out == [Done(u) EXCEPT !.left = (sweep.todo \cup sweep.clear) \ {u}]
  <2>2. sweep' = Done(u) \/ sweep' = out
    BY <1>4 DEF SweepFails
  <2>3. /\ out \in [todo : SUBSET Uploads, clear : SUBSET Uploads, left : SUBSET Uploads]
        /\ out.clear = sweep.clear \ {u}
    BY <1>0 DEF Done, TypeOK
  <2> HIDE DEF out
  <2>4. /\ sweep' \in [todo : SUBSET Uploads, clear : SUBSET Uploads, left : SUBSET Uploads]
        /\ sweep'.clear = sweep.clear \ {u}
    BY <1>0, <2>2, <2>3, DoneWith
  <2>5. TypeOK'
    BY <1>0, <2>1, <2>4 DEF TypeOK
  <2>6. Owned'
    BY <1>0, <2>1, <2>4 DEF Owned, RowsFound, PromotionAlive
  <2> QED BY <2>5, <2>6 DEF OInv
<1> QED
  BY <1>1, <1>2, <1>3, <1>4 DEF Sweep

LEMMA CrashStep ==
  ASSUME OInv, Crash PROVE OInv'
<1>0. TypeOK /\ Owned
  BY DEF OInv
<1>1. UNCHANGED <<imp, staged>> /\ sweep' = NoSweep
  BY DEF Crash, ImportsEnd
<1>2. up' = [u \in Uploads |->
               IF InTry(u) \/ up[u].pc \in {"fail", "clear"}
               THEN [NewUpload EXCEPT !.pc = "dead"] ELSE up[u]]
  BY DEF Crash, ImportsEnd
<1>3. up' \in [Uploads -> Requests]
  BY <1>0, <1>2 DEF TypeOK, Requests, UploadPcs, NewUpload, Counts
<1>4. /\ lost' = lost \cup Unfindable \cup sweep.clear
      /\ lost' \subseteq Uploads
  BY <1>0 DEF Crash, ImportsEnd, Unfindable, TypeOK
<1>5. TypeOK'
  BY <1>0, <1>1, <1>3, <1>4 DEF TypeOK, NoSweep
<1>6. \A u \in Uploads \ lost' : u \notin lost /\ u \notin sweep.clear /\ up[u].pc # "clear"
                                 /\ imp[u] # "finalizing"
  BY <1>4 DEF Unfindable
<1>7. Owned'
  BY <1>0, <1>1, <1>6 DEF Owned, RowsFound, PromotionAlive
<1> QED
  BY <1>5, <1>7 DEF OInv

LEMMA OwnedStep ==
  ASSUME OInv, [Next]_vars PROVE OInv'
<1>1. CASE Import
  <2>1. ASSUME NEW u \in Uploads, Serve(u) \/ StatementFails(u) \/ Outage(u) \/ Age(u)
        PROVE  OInv'
    BY <2>1, ServeStep, FaultStep
  <2> QED BY <1>1, <2>1, SweepStep DEF Import
<1>2. ASSUME NEW c \in Clients, Request(c) PROVE OInv'
  <2>1. UNCHANGED <<imp, staged, up, sweep, lost>>
    BY <1>2 DEF Request, EditDraft, SaveDraft, DeleteSamples, HardDelete, Decrement,
                CreateExperiment, Freeze, InsertExperiment, importVars
  <2> QED BY <2>1, ImportsUntouched
<1>3. ASSUME NEW e \in Experiments, Run(e) PROVE OInv'
  <2>1. UNCHANGED importVars
    BY <1>3 DEF Run, LoadPlan, LoadBatch, RenderBatch
  <2> QED BY <2>1, ImportsUntouched DEF importVars
<1>4. CASE UNCHANGED vars
  BY <1>4, ImportsUntouched DEF vars, importVars
<1> QED
  BY <1>1, <1>2, <1>3, <1>4, CrashStep DEF Next

\* The import sessions keep their shape for any number of uploads and faults.
THEOREM TypeCorrect == Spec => []TypeOK
<1>1. OInv => TypeOK
  BY DEF OInv
<1> QED
  BY OwnedInitially, OwnedStep, <1>1, PTL DEF Spec

\* DatasetImport's StagedIsOwned: the staged rows of an upload have a request,
\* a session or a sweep that will clear them, however many other uploads lose
\* theirs to a crash, an outage, a failing sweep or an append that was late.
THEOREM StagedOwned == Spec => []StagedIsOwned
<1>1. OInv => StagedIsOwned
  BY DEF OInv, Owned, RowsFound, PromotionAlive, StagedIsOwned, InTry
<1> QED
  BY OwnedInitially, OwnedStep, <1>1, PTL DEF Spec

-----------------------------------------------------------------------------
(* One text for all results.                                                *)

IsRequest(r) == r \in [pc : {r.pc}, on : {r.on}, rows : {r.rows}, n : {r.n}, exp : {r.exp}]
IsExperiment(x) == x \in [pc : {x.pc}, on : {x.on}, total : {x.total}, plan : {x.plan},
                          seen : {x.seen}, cursor : {x.cursor}, texts : {x.texts},
                          results : {x.results}]

InputShape ==
    /\ version \in [text : {version.text}, frozen : BOOLEAN]
    /\ req = [c \in Clients |-> req[c]] /\ \A c \in Clients : IsRequest(req[c])
    /\ exp = [e \in Experiments |-> exp[e]] /\ \A e \in Experiments : IsExperiment(exp[e])

\* A frozen version has no save ahead of it, and only a frozen one is used.
NoSaveAhead == version.frozen => \A c \in Clients : req[c].pc # "save"
RunsFrozen(e) == /\ exp[e].texts \subseteq {version.text}
                 /\ exp[e].texts # {} \/ exp[e].pc \in {"loop", "render"} => version.frozen

Fixed == "lateSave" \notin happened => NoSaveAhead /\ \A e \in Experiments : RunsFrozen(e)
TInv == InputShape /\ Fixed

LEMMA FixedInitially == Init => TInv
<1> SUFFICES ASSUME Init PROVE TInv
  OBVIOUS
<1>1. InputShape
  BY DEF Init, InputShape, IsRequest, IsExperiment, IdleRequest, NoExperiment
<1>2. Fixed
  BY DEF Init, Fixed, NoSaveAhead, RunsFrozen, IdleRequest, NoExperiment
<1> QED
  BY <1>1, <1>2 DEF TInv

LEMMA InputsUntouched ==
  ASSUME TInv, UNCHANGED inputVars, happened \subseteq happened' PROVE TInv'
BY DEF TInv, InputShape, Fixed, NoSaveAhead, RunsFrozen, inputVars

\* The new values of a request and of an experiment.
LEMMA RequestBecomes ==
  ASSUME InputShape, NEW c \in Clients, NEW r, IsRequest(r), req' = [req EXCEPT ![c] = r]
  PROVE  /\ req' = [d \in Clients |-> req'[d]]
         /\ \A d \in Clients : IsRequest(req'[d]) /\ req'[d] = IF d = c THEN r ELSE req[d]
<1>1. \A d \in Clients : req'[d] = IF d = c THEN r ELSE req[d]
  BY DEF InputShape
<1>2. \A d \in Clients : IsRequest(req'[d])
  BY <1>1 DEF InputShape
<1> QED
  BY <1>1, <1>2 DEF InputShape

LEMMA ExperimentBecomes ==
  ASSUME InputShape, NEW e, NEW x, IsExperiment(x), exp' = [exp EXCEPT ![e] = x]
  PROVE  /\ exp' = [f \in Experiments |-> exp'[f]]
         /\ \A f \in Experiments : IsExperiment(exp'[f]) /\ exp'[f] = IF f = e THEN x ELSE exp[f]
<1>1. \A f \in Experiments : exp'[f] = IF f = e THEN x ELSE exp[f]
  BY DEF InputShape
<1>2. \A f \in Experiments : IsExperiment(exp'[f])
  BY <1>1 DEF InputShape
<1> QED
  BY <1>1, <1>2 DEF InputShape

\* A step of a request that leaves it outside a save.
LEMMA RequestMoves ==
  ASSUME TInv, NEW c \in Clients, NEW r, IsRequest(r), r.pc # "save",
         req' = [req EXCEPT ![c] = r], UNCHANGED <<version, exp>>, happened \subseteq happened'
  PROVE  TInv'
<1>1. InputShape'
  BY RequestBecomes DEF TInv, InputShape
<1>2. Fixed'
  BY RequestBecomes DEF TInv, Fixed, NoSaveAhead, RunsFrozen
<1> QED
  BY <1>1, <1>2 DEF TInv

LEMMA RequestStep ==
  ASSUME TInv, NEW c \in Clients, Request(c) PROVE TInv'
<1>0. InputShape /\ Fixed
  BY DEF TInv
<1> DEFINE idle == [pc |-> "idle", on |-> {}, rows |-> {}, n |-> 0, exp |-> {}]
<1>i. IsRequest(idle) /\ idle.pc # "save" /\ idle = IdleRequest
  BY DEF IsRequest, IdleRequest
<1>1. CASE EditDraft(c)
  <2>1. UNCHANGED <<version, exp, happened>> /\ ~version.frozen
    BY <1>1 DEF EditDraft, ReadsDraft, importVars
  <2>2. PICK t : req' = [req EXCEPT ![c] = [IdleRequest EXCEPT !.pc = "save", !.n = t]]
    BY <1>1 DEF EditDraft
  <2>3. IsRequest([IdleRequest EXCEPT !.pc = "save", !.n = t])
    BY DEF IsRequest, IdleRequest
  <2>4. InputShape'
    BY <1>0, <2>1, <2>2, <2>3, RequestBecomes DEF InputShape
  <2>5. Fixed'
    BY <1>0, <2>1 DEF Fixed, NoSaveAhead, RunsFrozen
  <2> QED BY <2>4, <2>5 DEF TInv
<1>2. CASE SaveDraft(c)
  <2>1. /\ UNCHANGED <<exp, happened>> /\ version' = [version EXCEPT !.text = req[c].n]
        /\ req' = [req EXCEPT ![c] = idle]
    BY <1>2 DEF SaveDraft, importVars, IdleRequest
  <2>2. /\ version'.frozen = version.frozen
        /\ version' \in [text : {version'.text}, frozen : BOOLEAN]
    BY <1>0, <2>1 DEF InputShape
  <2>3. InputShape'
    BY <1>0, <1>i, <2>1, <2>2, RequestBecomes DEF InputShape
  <2>4. "lateSave" \notin happened => ~version.frozen
    BY <1>0, <1>2 DEF SaveDraft, Fixed, NoSaveAhead
  <2>5. Fixed'
    BY <1>0, <2>1, <2>2, <2>4 DEF Fixed, NoSaveAhead, RunsFrozen
  <2> QED BY <2>3, <2>5 DEF TInv
<1>3. CASE DeleteSamples(c)
  <2>1. UNCHANGED <<version, exp>> /\ happened \subseteq happened'
    BY <1>3 DEF DeleteSamples
  <2>2. PICK u, s : req' = [req EXCEPT ![c] =
                             [IdleRequest EXCEPT !.pc = "delete", !.on = {u}, !.rows = {s}]]
    BY <1>3 DEF DeleteSamples
  <2> DEFINE r == [IdleRequest EXCEPT !.pc = "delete", !.on = {u}, !.rows = {s}]
  <2>3. IsRequest(r) /\ r.pc # "save"
    BY DEF IsRequest, IdleRequest
  <2> HIDE DEF r
  <2> QED BY <2>1, <2>2, <2>3, RequestMoves DEF r
<1>4. CASE HardDelete(c)
  <2>1. UNCHANGED <<version, exp, happened>>
    BY <1>4 DEF HardDelete
  <2>2. PICK n : \/ req' = [req EXCEPT ![c] = idle]
                 \/ req' = [req EXCEPT ![c] = [@ EXCEPT !.pc = "decrement", !.n = n]]
    BY <1>4 DEF HardDelete, IdleRequest
  <2> DEFINE r == [req[c] EXCEPT !.pc = "decrement", !.n = n]
  <2>3. IsRequest(r) /\ r.pc # "save"
    BY <1>0 DEF InputShape, IsRequest
  <2>4. CASE req' = [req EXCEPT ![c] = r]
    <3> HIDE DEF r
    <3> QED BY <2>1, <2>3, <2>4, RequestMoves
  <2>5. CASE req' = [req EXCEPT ![c] = idle]
    BY <1>i, <2>1, <2>5, RequestMoves
  <2> QED BY <2>2, <2>4, <2>5
<1>5. CASE Decrement(c)
  BY <1>5, <1>i, RequestMoves DEF Decrement
<1>6. CASE CreateExperiment(c)
  <2>1. UNCHANGED <<version, exp>> /\ happened \subseteq happened'
    BY <1>6 DEF CreateExperiment
  <2>2. PICK u \in Uploads, e \in Experiments :
          req' = [req EXCEPT ![c] = [IdleRequest EXCEPT !.on = {u}, !.exp = {e}, !.n = data[u].count,
                                       !.pc = IF version.frozen THEN "insert" ELSE "freeze"]]
    BY <1>6 DEF CreateExperiment
  <2> DEFINE pc == IF version.frozen THEN "insert" ELSE "freeze"
             n == data[u].count
             r == [IdleRequest EXCEPT !.on = {u}, !.exp = {e}, !.n = n, !.pc = pc]
  <2>3. pc # "save"
    OBVIOUS
  <2>5. req' = [req EXCEPT ![c] = r]
    BY <2>2
  <2> HIDE DEF pc, n
  <2>4. IsRequest(r) /\ r.pc # "save"
    BY <2>3 DEF IsRequest, IdleRequest
  <2> HIDE DEF r
  <2> QED BY <2>1, <2>4, <2>5, RequestMoves
<1>7. CASE Freeze(c)
  <2> DEFINE r == [req[c] EXCEPT !.pc = "insert"]
  <2>1. /\ exp' = exp /\ happened \subseteq happened' /\ version' = [version EXCEPT !.frozen = TRUE]
        /\ req' = [req EXCEPT ![c] = r]
    BY <1>7 DEF Freeze
  <2>2. IsRequest(r) /\ r.pc # "save"
    BY <1>0 DEF InputShape, IsRequest
  <2> HIDE DEF r
  <2>3. /\ version'.text = version.text /\ version'.frozen = TRUE
        /\ version' \in [text : {version'.text}, frozen : BOOLEAN]
    BY <1>0, <2>1 DEF InputShape
  <2>4. InputShape'
    BY <1>0, <2>1, <2>2, <2>3, RequestBecomes DEF InputShape
  <2>5. \A d \in Clients : req'[d].pc = "save" => req[d].pc = "save"
    BY <1>0, <2>1, <2>2, RequestBecomes
  <2>6. "lateSave" \notin happened' => \A d \in Clients : req[d].pc # "save"
    BY <1>7 DEF Freeze
  <2>7. Fixed'
    BY <1>0, <2>1, <2>3, <2>5, <2>6 DEF Fixed, NoSaveAhead, RunsFrozen
  <2> QED BY <2>4, <2>7 DEF TInv
<1>8. CASE InsertExperiment(c)
  <2>1. UNCHANGED <<version, happened>> /\ req' = [req EXCEPT ![c] = idle]
    BY <1>8 DEF InsertExperiment, importVars, IdleRequest
  <2>2. PICK e : exp' = [exp EXCEPT ![e] = [NoExperiment EXCEPT !.pc = "load", !.on = req[c].on,
                                                               !.total = req[c].n]]
    BY <1>8 DEF InsertExperiment
  <2> DEFINE x == [NoExperiment EXCEPT !.pc = "load", !.on = req[c].on, !.total = req[c].n]
  <2>3. IsExperiment(x) /\ x.pc = "load" /\ x.texts = {}
    BY DEF IsExperiment, NoExperiment
  <2>4. exp' = [exp EXCEPT ![e] = x]
    BY <2>2
  <2> HIDE DEF x
  <2>5. InputShape'
    BY <1>0, <1>i, <2>1, <2>3, <2>4, RequestBecomes, ExperimentBecomes DEF InputShape
  <2>6. \A d \in Clients : req'[d].pc = "save" => req[d].pc = "save"
    BY <1>0, <1>i, <2>1, RequestBecomes
  <2>7. \A f \in Experiments : \/ exp'[f] = exp[f]
                               \/ exp'[f].pc = "load" /\ exp'[f].texts = {}
    <3>1. \A f \in Experiments : exp'[f] = IF f = e THEN x ELSE exp[f]
      BY <1>0, <2>3, <2>4, ExperimentBecomes
    <3> QED BY <2>3, <3>1
  <2>8. Fixed'
    BY <1>0, <2>1, <2>6, <2>7 DEF Fixed, NoSaveAhead, RunsFrozen
  <2> QED BY <2>5, <2>8 DEF TInv
<1> QED
  BY <1>1, <1>2, <1>3, <1>4, <1>5, <1>6, <1>7, <1>8 DEF Request

LEMMA RunStep ==
  ASSUME TInv, NEW e \in Experiments, Run(e) PROVE TInv'
<1>0. InputShape /\ Fixed
  BY DEF TInv
<1>1. UNCHANGED <<version, req, happened>>
  BY DEF Run, LoadPlan, LoadBatch, RenderBatch, importVars
<1>2. PICK x : /\ exp' = [exp EXCEPT ![e] = x] /\ IsExperiment(x)
               /\ x.texts \subseteq exp[e].texts \cup {version.text}
               /\ x.texts = exp[e].texts \/ exp[e].pc = "render"
               /\ x.pc \in {"loop", "render"} => version.frozen \/ exp[e].pc \in {"loop", "render"}
  <2>0. IsExperiment(exp[e])
    BY <1>0 DEF InputShape
  <2>1. CASE LoadPlan(e)
    <3>1. PICK pc, n : /\ exp' = [exp EXCEPT ![e] = [@ EXCEPT !.pc = pc, !.plan = n]]
                       /\ (pc = "loop" /\ version.frozen) \/ pc = "failed"
      <4>1. PICK u \in exp[e].on :
               exp' = [exp EXCEPT ![e].pc = IF version.frozen /\ data[u].count > 0
                                            THEN "loop" ELSE "failed",
                                  ![e].plan = data[u].count]
        BY <2>1 DEF LoadPlan
      <4>2. CASE version.frozen /\ data[u].count > 0
        BY <4>1, <4>2
      <4>3. CASE ~(version.frozen /\ data[u].count > 0)
        BY <4>1, <4>3
      <4> QED BY <4>2, <4>3
    <3> DEFINE x == [exp[e] EXCEPT !.pc = pc, !.plan = n]
    <3>2. IsExperiment(x) /\ x.texts = exp[e].texts /\ x.pc = pc
      BY <2>0 DEF IsExperiment
    <3>3. exp' = [exp EXCEPT ![e] = x]
      BY <3>1
    <3> HIDE DEF x
    <3> QED BY <3>1, <3>2, <3>3
  <2>2. CASE LoadBatch(e)
    <3>1. PICK cur, n :
             \/ exp' = [exp EXCEPT ![e] = [@ EXCEPT !.pc = "render", !.cursor = cur, !.seen = n]]
             \/ exp' = [exp EXCEPT ![e] = [@ EXCEPT !.pc = "success"]]
      BY <2>2 DEF LoadBatch
    <3>2. exp[e].pc = "loop"
      BY <2>2 DEF LoadBatch
    <3> DEFINE x == [exp[e] EXCEPT !.pc = "render", !.cursor = cur, !.seen = n]
               y == [exp[e] EXCEPT !.pc = "success"]
    <3>3. /\ IsExperiment(x) /\ x.texts = exp[e].texts
          /\ IsExperiment(y) /\ y.texts = exp[e].texts
      BY <2>0 DEF IsExperiment
    <3>4. exp' = [exp EXCEPT ![e] = x] \/ exp' = [exp EXCEPT ![e] = y]
      BY <3>1
    <3> HIDE DEF x, y
    <3> QED BY <3>2, <3>3, <3>4
  <2>3. CASE RenderBatch(e)
    <3>1. PICK T, R : /\ exp' = [exp EXCEPT ![e] = [@ EXCEPT !.pc = "loop", !.texts = T, !.results = R]]
                      /\ T \subseteq exp[e].texts \cup {version.text}
      <4>1. PICK u \in exp[e].on :
               exp' = [exp EXCEPT ![e].pc = "loop",
                                  ![e].texts = @ \cup {version.text : r \in {exp[e].cursor} \cap data[u].rows},
                                  ![e].results = @ \cup ({exp[e].cursor} \cap data[u].rows)]
        BY <2>3 DEF RenderBatch
      <4> DEFINE T == exp[e].texts \cup {version.text : r \in {exp[e].cursor} \cap data[u].rows}
                 R == exp[e].results \cup ({exp[e].cursor} \cap data[u].rows)
      <4>2. exp' = [exp EXCEPT ![e] = [@ EXCEPT !.pc = "loop", !.texts = T, !.results = R]]
        BY <4>1
      <4>3. T \subseteq exp[e].texts \cup {version.text}
        OBVIOUS
      <4> HIDE DEF T, R
      <4> QED BY <4>2, <4>3
    <3>2. exp[e].pc = "render"
      BY <2>3 DEF RenderBatch
    <3> DEFINE x == [exp[e] EXCEPT !.pc = "loop", !.texts = T, !.results = R]
    <3>3. IsExperiment(x) /\ x.texts = T
      BY <2>0 DEF IsExperiment
    <3>4. exp' = [exp EXCEPT ![e] = x]
      BY <3>1
    <3> HIDE DEF x
    <3> QED BY <3>1, <3>2, <3>3, <3>4
  <2> QED BY <2>1, <2>2, <2>3 DEF Run
<1>3. InputShape'
  BY <1>0, <1>1, <1>2, ExperimentBecomes DEF InputShape
<1>4. \A f \in Experiments : exp'[f] = IF f = e THEN x ELSE exp[f]
  BY <1>0, <1>2, ExperimentBecomes
<1>5. Fixed'
  BY <1>0, <1>1, <1>2, <1>4 DEF Fixed, NoSaveAhead, RunsFrozen
<1> QED
  BY <1>3, <1>5 DEF TInv

LEMMA FixedStep ==
  ASSUME TInv, [Next]_vars PROVE TInv'
<1>1. CASE Import /\ UNCHANGED inputVars
  <2>1. happened \subseteq happened'
    BY <1>1 DEF Import, Serve, Sweep, CreateImport, AppendBatch, MarkPromoting, Promote,
                Commit, Answer, MarkFailed, ClearFailed, StatementFails, Outage, Age,
                FindStale, MarkAborted, ClearAborted, SweepFails
  <2> QED BY <1>1, <2>1, InputsUntouched
<1>2. CASE Crash
  <2>1. UNCHANGED <<version, exp>> /\ req' = [c \in Clients |-> IdleRequest]
        /\ happened \subseteq happened'
    BY <1>2 DEF Crash
  <2>2. InputShape'
    BY <2>1 DEF TInv, InputShape, IsRequest, IdleRequest
  <2>3. Fixed'
    BY <2>1 DEF TInv, Fixed, NoSaveAhead, RunsFrozen, IdleRequest
  <2> QED BY <2>2, <2>3 DEF TInv
<1>3. CASE UNCHANGED vars
  BY <1>3, InputsUntouched DEF vars, importVars
<1> QED
  BY <1>1, <1>2, <1>3, RequestStep, RunStep DEF Next

\* ExperimentInputs' TextIsFixed, the half of ResultsFitInputs about prompts:
\* unless a save was under way at the freeze, all results of all experiments
\* are made with the text that the version still has.
THEOREM TextFixed == Spec => []TextIsFixed
<1>1. TInv => TextIsFixed
  BY DEF TInv, Fixed, RunsFrozen, TextIsFixed
<1> QED
  BY FixedInitially, FixedStep, <1>1, PTL DEF Spec
-----------------------------------------------------------------------------
(* Uploads appear whole or not at all.                                      *)

IsDataset(d) == d \in [exists : BOOLEAN, rows : {d.rows}, count : {d.count},
                       file : {d.file}, deleted : {d.deleted}]

Working == {"parse", "promote", "commit"}

\* A request that still has its session has staged its file so far, and what it
\* counted; a dataset is there once its session is completed, and stays when the
\* answer to the request fails.
Standing(u) ==
    /\ up[u].pc = "idle" => /\ imp[u] = "none" /\ staged[u] = {} /\ up[u].next = 1
                            /\ u \notin sweep.todo /\ u \notin sweep.clear
    /\ up[u].pc \in Working /\ u \in sweep.clear => imp[u] = "aborted"
    /\ up[u].pc \in Working => up[u].next # 0
    /\ up[u].pc \in Working /\ imp[u] # "aborted" => staged[u] = 1..(up[u].next - 1)
    /\ up[u].pc = "commit" /\ imp[u] # "aborted" => up[u].counted = Cardinality(staged[u])
    /\ up[u].pc \in Working \cup {"idle", "left"} => ~data[u].exists
    /\ up[u].pc \in {"answer", "ok"} => data[u].exists
    /\ data[u].exists /\ up[u].pc \in {"fail", "clear"} => "statement" \in happened
    /\ data[u].exists /\ up[u].pc = "failed" => happened \cap {"statement", "outage"} # {}
    /\ data[u].exists => imp[u] = "completed" \/ (imp[u] = "failed" /\ "statement" \in happened)
    /\ imp[u] = "completed" => data[u].exists
    /\ data[u].exists => data[u].rows \cup data[u].deleted = data[u].file
    /\ ~data[u].exists => data[u].rows = {} /\ data[u].deleted = {}

OneName == \A u, v \in Uploads : data[u].exists /\ data[v].exists => u = v

DataShape == data = [u \in Uploads |-> data[u]] /\ \A u \in Uploads : IsDataset(data[u])

WInv == DataShape /\ OneName /\ \A u \in Uploads : Standing(u)

LEMMA WholeInitially == Init => WInv
BY DEF Init, ImportInit, WInv, DataShape, IsDataset, NoDataset, NewUpload, NoSweep, OneName, Standing, Working

\* A step that changes one upload and leaves its dataset as it is.
LEMMA UploadMoves ==
  ASSUME WInv, NEW u \in Uploads, UNCHANGED data, happened \subseteq happened', Standing(u)',
         \A v \in Uploads \ {u} :
            /\ imp'[v] = imp[v] /\ staged'[v] = staged[v] /\ up'[v] = up[v]
            /\ v \in sweep'.todo => v \in sweep.todo
            /\ v \in sweep'.clear => v \in sweep.clear
  PROVE  WInv'
<1>1. \A v \in Uploads \ {u} : Standing(v)'
  BY DEF WInv, Standing
<1> QED BY <1>1 DEF WInv, DataShape, OneName

LEMMA WholeServe ==
  ASSUME OInv, WInv, NEW u \in Uploads, Serve(u) PROVE WInv'
<1>0. TypeOK /\ Standing(u) /\ up[u] \in Requests /\ up[u].next \in Nat
  BY DEF OInv, WInv, TypeOK, Requests
<1>1. CASE CreateImport(u)
  <2>1. /\ up'[u].pc = "parse" /\ up'[u].next = up[u].next /\ imp'[u] = "importing"
        /\ \A v \in Uploads \ {u} : imp'[v] = imp[v] /\ up'[v] = up[v]
    BY <1>0, <1>1 DEF CreateImport, Goto, Becomes, TypeOK, Requests
  <2>2. UNCHANGED <<staged, data, sweep, happened>> /\ up[u].pc = "idle"
    BY <1>1 DEF CreateImport
  <2>3. up'[u].next = 1 /\ 1..(up'[u].next - 1) = {}
    BY <1>0, <2>1, <2>2 DEF Standing
  <2>4. Standing(u)'
    BY <1>0, <2>1, <2>2, <2>3 DEF Standing, Working
  <2> QED BY <2>1, <2>2, <2>4, UploadMoves
<1>2. CASE AppendBatch(u)
  <2>1. /\ up'[u].pc = "parse" /\ up'[u].next = up[u].next + 1
        /\ staged'[u] = staged[u] \cup {up[u].next}
        /\ \A v \in Uploads \ {u} : staged'[v] = staged[v] /\ up'[v] = up[v]
    BY <1>0, <1>2 DEF AppendBatch, TypeOK, Requests
  <2>2. /\ imp'[u] = (IF imp[u] \in {"aborted", "finalizing"} THEN imp[u] ELSE "importing")
        /\ \A v \in Uploads \ {u} : imp'[v] = imp[v]
    BY <1>0, <1>2 DEF AppendBatch, Becomes, TypeOK
  <2>3. UNCHANGED <<data, sweep>> /\ happened \subseteq happened' /\ up[u].pc = "parse"
    BY <1>2 DEF AppendBatch
  <2>4. 1..((up[u].next + 1) - 1) = (1..(up[u].next - 1)) \cup {up[u].next} \/ up[u].next = 0
    BY <1>0
  <2>5. up[u].next # 0 /\ up[u].next + 1 # 0
    BY <1>0, <2>3 DEF Standing, Working
  <2>6. Standing(u)'
    BY <1>0, <2>1, <2>2, <2>3, <2>4, <2>5 DEF Standing, Working
  <2> QED BY <2>1, <2>2, <2>3, <2>6, UploadMoves
<1>3. CASE MarkPromoting(u)
  <2>0. UNCHANGED <<staged, data, sweep, happened>> /\ up[u].pc = "parse"
    BY <1>3 DEF MarkPromoting
  <2>1. CASE imp[u] = "importing"
    <3>1. /\ up'[u].pc = "promote" /\ up'[u].next = up[u].next /\ imp'[u] = "finalizing"
          /\ \A v \in Uploads \ {u} : imp'[v] = imp[v] /\ up'[v] = up[v]
      BY <1>0, <1>3, <2>1 DEF MarkPromoting, Goto, Becomes, TypeOK, Requests
    <3>2. Standing(u)'
      BY <1>0, <2>0, <2>1, <3>1 DEF Standing, Working
    <3> QED BY <2>0, <3>1, <3>2, UploadMoves
  <2>2. CASE imp[u] # "importing"
    <3>1. up'[u].pc = "left" /\ UNCHANGED imp /\ \A v \in Uploads \ {u} : up'[v] = up[v]
      BY <1>0, <1>3, <2>2 DEF MarkPromoting, Leaves, NewUpload, TypeOK
    <3>2. Standing(u)'
      BY <1>0, <2>0, <3>1 DEF Standing, Working
    <3> QED BY <2>0, <3>1, <3>2, UploadMoves
  <2> QED BY <2>1, <2>2
<1>4. CASE Promote(u)
  <2>0. UNCHANGED <<imp, staged, data, sweep, happened>> /\ up[u].pc = "promote"
    BY <1>4 DEF Promote
  <2>1. CASE up' = [up EXCEPT ![u].pc = "fail"]
    <3>1. up'[u].pc = "fail" /\ \A v \in Uploads \ {u} : up'[v] = up[v]
      BY <1>0, <2>1 DEF TypeOK, Requests
    <3>2. Standing(u)'
      BY <1>0, <2>0, <3>1 DEF Standing, Working
    <3> QED BY <2>0, <3>1, <3>2, UploadMoves
  <2>2. CASE up' = [up EXCEPT ![u].pc = "commit", ![u].counted = Cardinality(staged[u])]
    <3>1. /\ up'[u].pc = "commit" /\ up'[u].next = up[u].next /\ up'[u].counted = Cardinality(staged[u])
          /\ \A v \in Uploads \ {u} : up'[v] = up[v]
      BY <1>0, <2>2 DEF TypeOK, Requests
    <3>2. Standing(u)'
      BY <1>0, <2>0, <3>1 DEF Standing, Working
    <3> QED BY <2>0, <3>1, <3>2, UploadMoves
  <2> QED BY <1>4, <2>1, <2>2 DEF Promote
<1>5. CASE Commit(u)
  <2>1. CASE MayCommit(u)
    <3>1. /\ up'[u].pc = "answer" /\ imp'[u] = "completed" /\ staged'[u] = {}
          /\ \A v \in Uploads \ {u} : imp'[v] = imp[v] /\ staged'[v] = staged[v] /\ up'[v] = up[v]
          /\ UNCHANGED <<sweep, happened>>
      BY <1>0, <1>5, <2>1 DEF Commit, Becomes, Leaves, NewUpload, TypeOK
    <3>2. imp[u] # "aborted" /\ up[u].pc = "commit" /\ \A v \in Uploads : ~data[v].exists
      BY <1>5, <2>1 DEF MayCommit, NameTaken, Commit
    <3> DEFINE d == [data[u] EXCEPT !.exists = TRUE, !.rows = staged[u], !.count = up[u].counted,
                                    !.file = 1..(up[u].next - 1)]
    <3>3. data' = [data EXCEPT ![u] = d] /\ IsDataset(data[u])
      BY <1>5, <2>1 DEF Commit, WInv, DataShape
    <3>4. /\ IsDataset(d) /\ d.exists = TRUE /\ d.rows = staged[u] /\ d.file = 1..(up[u].next - 1)
          /\ d.deleted = data[u].deleted
      BY <3>3 DEF IsDataset
    <3> HIDE DEF d
    <3>5. \A v \in Uploads : data'[v] = IF v = u THEN d ELSE data[v]
      BY <3>3 DEF WInv, DataShape
    <3>6. DataShape'
      BY <3>3, <3>4, <3>5 DEF WInv, DataShape
    <3>7. staged[u] = 1..(up[u].next - 1) /\ data[u].deleted = {}
      BY <1>0, <3>2 DEF Standing, Working
    <3>8. Standing(u)'
      BY <3>1, <3>4, <3>5, <3>7 DEF Standing, Working
    <3>9. \A v \in Uploads \ {u} : Standing(v)'
      BY <3>1, <3>5 DEF WInv, Standing
    <3> QED BY <3>2, <3>5, <3>6, <3>8, <3>9 DEF WInv, OneName
  <2>2. CASE ~MayCommit(u)
    <3>1. /\ up'[u].pc = "fail" /\ \A v \in Uploads \ {u} : up'[v] = up[v]
          /\ UNCHANGED <<imp, staged, data, sweep, happened>> /\ up[u].pc = "commit"
      BY <1>0, <1>5, <2>2 DEF Commit, Goto, TypeOK, Requests
    <3>2. Standing(u)'
      BY <1>0, <3>1 DEF Standing, Working
    <3> QED BY <3>1, <3>2, UploadMoves
  <2> QED BY <2>1, <2>2
<1>6. CASE Answer(u)
  <2>1. /\ up'[u].pc = "ok" /\ \A v \in Uploads \ {u} : up'[v] = up[v]
        /\ UNCHANGED <<imp, staged, data, sweep, happened>> /\ up[u].pc = "answer"
    BY <1>0, <1>6 DEF Answer, Goto, TypeOK, Requests
  <2>2. Standing(u)'
    BY <1>0, <2>1 DEF Standing, Working
  <2> QED BY <2>1, <2>2, UploadMoves
<1>7. CASE MarkFailed(u)
  <2>1. /\ up'[u].pc = "clear" /\ imp'[u] = "failed"
        /\ \A v \in Uploads \ {u} : imp'[v] = imp[v] /\ up'[v] = up[v]
        /\ UNCHANGED <<staged, data, sweep, happened>> /\ up[u].pc = "fail"
    BY <1>0, <1>7 DEF MarkFailed, Goto, Becomes, TypeOK, Requests
  <2>2. Standing(u)'
    BY <1>0, <2>1 DEF Standing, Working
  <2> QED BY <2>1, <2>2, UploadMoves
<1>8. CASE ClearFailed(u)
  <2>1. /\ up'[u].pc = "failed" /\ \A v \in Uploads \ {u} : staged'[v] = staged[v] /\ up'[v] = up[v]
        /\ UNCHANGED <<imp, data, sweep, happened>> /\ up[u].pc = "clear"
    BY <1>0, <1>8 DEF ClearFailed, Leaves, NewUpload, TypeOK
  <2>2. Standing(u)'
    BY <1>0, <2>1 DEF Standing, Working
  <2> QED BY <2>1, <2>2, UploadMoves
<1> QED BY <1>1, <1>2, <1>3, <1>4, <1>5, <1>6, <1>7, <1>8 DEF Serve

LEMMA WholeFault ==
  ASSUME OInv, WInv, NEW u \in Uploads, StatementFails(u) \/ Outage(u) \/ Age(u) PROVE WInv'
<1>0. TypeOK /\ Standing(u)
  BY DEF OInv, WInv
<1>1. CASE StatementFails(u)
  <2>1. /\ up'[u].pc = "fail" /\ \A v \in Uploads \ {u} : up'[v] = up[v]
        /\ UNCHANGED <<imp, staged, data, sweep>> /\ happened' = happened \cup {"statement"}
        /\ up[u].pc \in {"parse", "promote", "commit", "answer"}
    BY <1>0, <1>1 DEF StatementFails, InTry, Goto, TypeOK, Requests
  <2>2. Standing(u)'
    BY <1>0, <2>1 DEF Standing, Working
  <2> QED BY <2>1, <2>2, UploadMoves
<1>2. CASE Outage(u)
  <2>1. /\ up'[u].pc = "failed" /\ \A v \in Uploads \ {u} : up'[v] = up[v]
        /\ UNCHANGED <<imp, staged, data, sweep>>
        /\ happened \subseteq happened' /\ "outage" \in happened'
    BY <1>0, <1>2 DEF Outage, Leaves, NewUpload, TypeOK
  <2>2. Standing(u)'
    BY <1>0, <2>1 DEF Standing, Working
  <2> QED BY <2>1, <2>2, UploadMoves
<1>3. CASE Age(u)
  <2>1. UNCHANGED <<imp, staged, up, data, sweep>> /\ happened \subseteq happened'
    BY <1>3 DEF Age
  <2>2. Standing(u)'
    BY <1>0, <2>1 DEF Standing
  <2> QED BY <2>1, <2>2, UploadMoves
<1> QED BY <1>1, <1>2, <1>3

LEMMA WholeSweep ==
  ASSUME OInv, WInv, Sweep PROVE WInv'
<1>0. TypeOK /\ \A u \in Uploads : Standing(u)
  BY DEF OInv, WInv
<1>1. CASE FindStale
  <2>1. /\ UNCHANGED <<imp, staged, up, data, happened>>
        /\ sweep'.todo = sweep.todo \cup {u \in Uploads : Sweepable(u)} /\ sweep'.clear = sweep.clear
    BY <1>0, <1>1 DEF FindStale, TypeOK
  <2>2. \A u \in Uploads : Standing(u)'
    BY <1>0, <2>1 DEF Standing, Sweepable
  <2> QED BY <2>1, <2>2 DEF WInv, DataShape, OneName
<1>2. ASSUME NEW u \in Uploads, MarkAborted(u) PROVE WInv'
  <2>0. UNCHANGED <<staged, up, data, happened>> /\ u \in sweep.todo
    BY <1>2 DEF MarkAborted
  <2>1. CASE imp[u] \in {"importing", "finalizing"}
    <3>1. /\ imp'[u] = "aborted" /\ \A v \in Uploads \ {u} : imp'[v] = imp[v]
          /\ sweep'.todo = sweep.todo \ {u} /\ sweep'.clear = sweep.clear \cup {u}
      BY <1>0, <1>2, <2>1 DEF MarkAborted, Becomes, Cleared, TypeOK
    <3>2. Standing(u)'
      BY <1>0, <2>0, <2>1, <3>1 DEF Standing
    <3> QED BY <2>0, <3>1, <3>2, UploadMoves
  <2>2. CASE imp[u] \notin {"importing", "finalizing"}
    <3>1. UNCHANGED imp /\ sweep'.todo = sweep.todo \ {u} /\ sweep'.clear = sweep.clear
      BY <1>0, <1>2, <2>2 DEF MarkAborted, TypeOK
    <3>2. Standing(u)'
      BY <1>0, <2>0, <3>1 DEF Standing
    <3> QED BY <2>0, <3>1, <3>2, UploadMoves
  <2> QED BY <2>1, <2>2
<1>3. ASSUME NEW u \in Uploads, ClearAborted(u) PROVE WInv'
  <2>1. /\ UNCHANGED <<imp, up, data, happened>> /\ u \in sweep.clear
        /\ \A v \in Uploads \ {u} : staged'[v] = staged[v]
        /\ sweep'.todo = sweep.todo \ {u} /\ sweep'.clear = sweep.clear \ {u}
    BY <1>0, <1>3, DoneWith DEF ClearAborted, TypeOK
  <2>2. Standing(u)'
    BY <1>0, <2>1 DEF Standing, Working
  <2> QED BY <2>1, <2>2, UploadMoves
<1>4. ASSUME NEW u \in Uploads, SweepFails(u) PROVE WInv'
  <2>1. /\ UNCHANGED <<imp, staged, up, data>> /\ happened \subseteq happened'
        /\ u \in sweep.todo \cup sweep.clear
    BY <1>4 DEF SweepFails
  <2>2. sweep'.todo = sweep.todo \ {u} /\ sweep'.clear = sweep.clear \ {u}
    BY <1>0, <1>4 DEF SweepFails, Done, TypeOK
  <2>3. Standing(u)'
    BY <1>0, <2>1, <2>2 DEF Standing
  <2> QED BY <2>1, <2>2, <2>3, UploadMoves
<1> QED BY <1>1, <1>2, <1>3, <1>4 DEF Sweep

LEMMA WholeCrash ==
  ASSUME OInv, WInv, Crash PROVE WInv'
<1>1. /\ UNCHANGED <<imp, staged, data>> /\ sweep'.todo = {} /\ sweep'.clear = {}
      /\ happened \subseteq happened'
      /\ \A u \in Uploads : up'[u] = up[u] \/ up'[u].pc = "dead"
  BY DEF Crash, ImportsEnd, NoSweep, NewUpload
<1>2. \A u \in Uploads : Standing(u)'
  BY <1>1 DEF WInv, Standing, Working
<1> QED BY <1>1, <1>2 DEF WInv, DataShape, OneName

\* Requests on datasets only move rows to the deleted ones.
RowsMove(u, d) ==
    /\ data' = [data EXCEPT ![u] = d] /\ IsDataset(d)
    /\ d.exists = data[u].exists /\ d.file = data[u].file
    /\ d.rows \cup d.deleted = data[u].rows \cup data[u].deleted

LEMMA WholeRequest ==
  ASSUME OInv, WInv, NEW c \in Clients, Request(c) PROVE WInv'
<1>0. UNCHANGED <<imp, staged, up, sweep>> /\ happened \subseteq happened'
  BY DEF Request, EditDraft, SaveDraft, DeleteSamples, HardDelete, Decrement,
         CreateExperiment, Freeze, InsertExperiment, importVars
<1>1. \/ UNCHANGED data
      \/ \E u \in Uploads : \E d : RowsMove(u, d)
  <2>1. CASE HardDelete(c)
    <3>1. PICK u \in req[c].on :
             LET gone == req[c].rows \cap data[u].rows IN
             data' = [data EXCEPT ![u].rows = @ \ gone, ![u].deleted = @ \cup gone]
      BY <2>1 DEF HardDelete
    <3> DEFINE gone == req[c].rows \cap data[u].rows
               d == [data[u] EXCEPT !.rows = @ \ gone, !.deleted = @ \cup gone]
    <3>2. CASE u \in Uploads
      <4>1. data' = [data EXCEPT ![u] = d] /\ IsDataset(data[u])
        BY <3>1, <3>2 DEF WInv, DataShape
      <4>2. gone \subseteq data[u].rows
        OBVIOUS
      <4> HIDE DEF gone
      <4>3. /\ IsDataset(d) /\ d.exists = data[u].exists /\ d.file = data[u].file
            /\ d.rows = data[u].rows \ gone /\ d.deleted = data[u].deleted \cup gone
        BY <4>1 DEF IsDataset
      <4> HIDE DEF d
      <4>4. RowsMove(u, d)
        BY <4>1, <4>2, <4>3 DEF RowsMove
      <4> QED BY <3>2, <4>4
    <3>3. CASE u \notin Uploads
      BY <3>1, <3>3 DEF WInv, DataShape
    <3> QED BY <3>2, <3>3
  <2>2. CASE Decrement(c)
    <3>0. PICK u \in req[c].on : \E n : data' = [data EXCEPT ![u].count = n]
      BY <2>2 DEF Decrement
    <3>1. PICK n : data' = [data EXCEPT ![u].count = n]
      BY <3>0
    <3> DEFINE d == [data[u] EXCEPT !.count = n]
    <3>2. CASE u \in Uploads
      <4>1. data' = [data EXCEPT ![u] = d] /\ IsDataset(data[u])
        BY <3>1, <3>2 DEF WInv, DataShape
      <4>2. /\ IsDataset(d) /\ d.exists = data[u].exists /\ d.file = data[u].file
            /\ d.rows = data[u].rows /\ d.deleted = data[u].deleted
        BY <4>1 DEF IsDataset
      <4> HIDE DEF d
      <4>3. RowsMove(u, d)
        BY <4>1, <4>2 DEF RowsMove
      <4> QED BY <3>2, <4>3
    <3>3. CASE u \notin Uploads
      BY <3>1, <3>3 DEF WInv, DataShape
    <3> QED BY <3>2, <3>3
  <2>3. CASE EditDraft(c) \/ SaveDraft(c) \/ DeleteSamples(c) \/ CreateExperiment(c)
             \/ Freeze(c) \/ InsertExperiment(c)
    BY <2>3 DEF EditDraft, SaveDraft, DeleteSamples, CreateExperiment, Freeze, InsertExperiment, importVars
  <2> QED BY <2>1, <2>2, <2>3 DEF Request
<1>2. CASE UNCHANGED data
  BY <1>0, <1>2 DEF WInv, DataShape, OneName, Standing
<1>3. CASE \E u \in Uploads : \E d : RowsMove(u, d)
  <2>0. PICK u \in Uploads : \E d : RowsMove(u, d)
    BY <1>3
  <2>1. PICK d : RowsMove(u, d)
    BY <2>0
  <2>2. \A v \in Uploads : data'[v] = IF v = u THEN d ELSE data[v]
    BY <2>1 DEF WInv, DataShape, RowsMove
  <2>3. DataShape'
    BY <2>1, <2>2 DEF WInv, DataShape, RowsMove
  <2>4. \A v \in Uploads : Standing(v)'
    <3>1. ASSUME NEW v \in Uploads \ {u} PROVE Standing(v)'
      BY <1>0, <2>2 DEF WInv, Standing
    <3>2. Standing(u)'
      <4>1. Standing(u)
        BY DEF WInv
      <4>2. data'[u] = d
        BY <2>2
      <4> QED BY <1>0, <2>1, <4>1, <4>2 DEF Standing, RowsMove
    <3> QED BY <3>1, <3>2
  <2> QED BY <2>1, <2>2, <2>3, <2>4 DEF WInv, OneName, RowsMove
<1> QED BY <1>1, <1>2, <1>3

LEMMA WholeStep ==
  ASSUME OInv, WInv, [Next]_vars PROVE WInv'
<1>1. CASE Import
  <2>1. ASSUME NEW u \in Uploads, Serve(u) \/ StatementFails(u) \/ Outage(u) \/ Age(u)
        PROVE  WInv'
    BY <2>1, WholeServe, WholeFault
  <2> QED BY <1>1, <2>1, WholeSweep DEF Import
<1>2. CASE UNCHANGED importVars
  BY <1>2 DEF importVars, WInv, DataShape, OneName, Standing
<1>3. ASSUME NEW e \in Experiments, Run(e) PROVE UNCHANGED importVars
  BY <1>3 DEF Run, LoadPlan, LoadBatch, RenderBatch
<1> QED
  BY <1>1, <1>2, <1>3, WholeRequest, WholeCrash DEF Next, vars

\* DatasetImport's ImportIsWhole: an upload appears in its entirety under its
\* name or not at all, and its session and its answer agree with that, whatever
\* the sweep does and however many uploads, batches and faults there are.
THEOREM ImportWhole == Spec => []ImportIsWhole
<1>1. WInv => ImportIsWhole
  <2> SUFFICES ASSUME WInv PROVE ImportIsWhole
    OBVIOUS
  <2>1. Cardinality({u \in Uploads : data[u].exists}) <= 1
    <3>1. CASE \A u \in Uploads : ~data[u].exists
      <4> DEFINE S == {u \in Uploads : data[u].exists}
      <4>1. S = {}
        BY <3>1
      <4>2. Cardinality(S) = 0
        BY <4>1, FS_EmptySet
      <4>3. 0 <= 1
        OBVIOUS
      <4> QED BY <4>2, <4>3
    <3>2. CASE \E u \in Uploads : data[u].exists
      <4>1. PICK u \in Uploads : data[u].exists
        BY <3>2
      <4> DEFINE S == {v \in Uploads : data[v].exists}
      <4>2. S = {u}
        BY <4>1 DEF WInv, OneName
      <4>3. Cardinality(S) = 1
        BY <4>2, FS_Singleton
      <4>4. 1 <= 1
        OBVIOUS
      <4> QED BY <4>3, <4>4
    <3> QED BY <3>1, <3>2
  <2>2. \A u \in Uploads : Standing(u)
    BY DEF WInv
  <2> QED BY <2>1, <2>2 DEF Standing, ImportIsWhole
<1> QED
  BY OwnedInitially, OwnedStep, WholeInitially, WholeStep, <1>1, PTL DEF Spec
-----------------------------------------------------------------------------
(* An experiment ends with a result for each sample it counted.             *)

Calm == "overlap" \notin happened

\* Rows that are deleted and not yet counted as deleted.
Pending(u) == UNION {req[c].rows : c \in {d \in Clients : req[d].pc = "decrement" /\ req[d].on = {u}}}

\* What an experiment, or a request that creates one, holds on to.
Held(u) == \/ \E c \in Clients : req[c].pc \in Creating /\ req[c].on = {u}
           \/ \E e \in Experiments : exp[e].pc # "none" /\ exp[e].on = {u}

Tally(u) ==
    /\ IsFiniteSet(data[u].rows \cup data[u].deleted)
    /\ data[u].rows \cup data[u].deleted \subseteq Nat \ {0}
    /\ data[u].rows \cap data[u].deleted = {}
    /\ data[u].exists => data[u].count = Cardinality(data[u].rows \cup Pending(u))

DeletesFrom(c, u) ==
    /\ req[c].on = {u} /\ data[u].exists /\ ~Held(u)
    /\ \E r \in req[c].rows : req[c].rows = {r} /\ (req[c].pc = "decrement" => r \in data[u].deleted)
    /\ req[c].pc = "decrement" => req[c].n = 1

CreatesOn(c, u) ==
    /\ req[c].on = {u} /\ data[u].exists
    /\ req[c].n > 0 /\ req[c].n = data[u].count
    /\ req[c].pc = "insert" => version.frozen

RequestFits(c) ==
    /\ req[c].pc \in Deleting => \E u \in Uploads : DeletesFrom(c, u)
    /\ req[c].pc \in Creating => \E u \in Uploads : CreatesOn(c, u)

\* No row is counted twice.
OwnRows == \A c, d \in Clients :
    req[c].pc = "decrement" /\ req[d].pc = "decrement" /\ req[c].rows = req[d].rows
       /\ req[c].on = req[d].on => c = d

\* How far the cursor is: what lies behind it has its result.
Progress(e, u) ==
    /\ exp[e].pc \in {"load", "loop", "render", "success"}
    /\ exp[e].pc = "load" => exp[e].results = {} /\ exp[e].seen = 0 /\ exp[e].cursor = 0
    /\ exp[e].pc \in {"loop", "render"} => exp[e].plan = exp[e].total
    /\ exp[e].pc = "loop" => /\ exp[e].cursor \in Nat
                             /\ exp[e].results = {r \in data[u].rows : r <= exp[e].cursor}
                             /\ exp[e].seen = Cardinality(exp[e].results)
    /\ exp[e].pc = "render" => /\ exp[e].cursor \in data[u].rows
                               /\ exp[e].results = {r \in data[u].rows : r < exp[e].cursor}
                               /\ exp[e].seen = Cardinality(exp[e].results) + 1
    /\ exp[e].pc = "success" => exp[e].results = data[u].rows

RunsOver(e, u) ==
    /\ exp[e].on = {u} /\ data[u].exists /\ version.frozen
    /\ exp[e].total > 0 /\ exp[e].total = data[u].count
    /\ Progress(e, u)

RInv == Calm => /\ \A u \in Uploads : Tally(u)
                /\ \A c \in Clients : RequestFits(c)
                /\ OwnRows
                /\ \A e \in Experiments : exp[e].pc # "none" => \E u \in Uploads : RunsOver(e, u)

LEMMA ReachedInitially == Init => RInv
<1> SUFFICES ASSUME Init PROVE RInv
  OBVIOUS
<1>1. \A u \in Uploads : Tally(u)
  BY FS_EmptySet DEF Init, ImportInit, NoDataset, Tally
<1>2. (\A c \in Clients : RequestFits(c)) /\ OwnRows
  BY DEF Init, IdleRequest, RequestFits, OwnRows, Deleting, Creating
<1> QED
  BY <1>1, <1>2 DEF Init, NoExperiment, RInv

\* The least row of a set of rows.
LEMMA MinFound ==
  ASSUME NEW S, S \subseteq Nat, S # {}
  PROVE  Min(S) \in S /\ \A x \in S : Min(S) <= x
<1> DEFINE R == {p \in Nat \X Nat : p[1] < p[2]}
<1>1. IsWellFoundedOn(R, Nat)
  BY NatLessThanWellFounded DEF OpToRel
<1>2. PICK m \in S : \A y \in S : ~(<<y, m>> \in R)
  <2> HIDE DEF R
  <2> QED BY <1>1, WFMin
<1>3. ASSUME NEW y \in S PROVE m <= y
  <2>1. y \in Nat /\ m \in Nat /\ (<<y, m>> \in R <=> y < m)
    OBVIOUS
  <2> QED BY <1>2, <2>1
<1> QED BY <1>3 DEF Min

\* Nothing is being deleted from a dataset that is held.
LEMMA HeldIsWhole ==
  ASSUME RInv, Calm, NEW u \in Uploads, Held(u), data[u].exists
  PROVE  /\ \A c \in Clients : req[c].pc \in Deleting => req[c].on # {u}
         /\ Pending(u) = {}
         /\ IsFiniteSet(data[u].rows) /\ data[u].rows \subseteq Nat \ {0}
         /\ data[u].count = Cardinality(data[u].rows)
<1>1. \A c \in Clients : req[c].pc \in Deleting => req[c].on # {u}
  BY DEF RInv, RequestFits, DeletesFrom
<1>2. Pending(u) = {}
  BY <1>1 DEF Pending, Deleting
<1>3. Tally(u)
  BY DEF RInv
<1>4. data[u].rows \in SUBSET (data[u].rows \cup data[u].deleted)
  OBVIOUS
<1>5. IsFiniteSet(data[u].rows)
  BY <1>3, <1>4, FS_Subset DEF Tally
<1>6. data[u].rows \cup Pending(u) = data[u].rows
  BY <1>2
<1> QED
  BY <1>1, <1>2, <1>3, <1>5, <1>6 DEF Tally

LEMMA ReachedAnyway ==
  ASSUME RInv, UNCHANGED <<data, version, req, exp>>, happened \subseteq happened' PROVE RInv'
<1> SUFFICES ASSUME Calm' PROVE RInv'
  BY DEF RInv
<1>1. Calm
  BY DEF Calm
<1>2. \A u \in Uploads : Tally(u)'
  <2>1. \A u \in Uploads : Pending(u)' = Pending(u)
    BY DEF Pending
  <2> QED BY <1>1, <2>1 DEF RInv, Tally
<1>3. (\A c \in Clients : RequestFits(c)') /\ OwnRows'
  BY <1>1 DEF RInv, RequestFits, DeletesFrom, CreatesOn, OwnRows, Held
<1>4. \A e \in Experiments : exp'[e].pc # "none" => \E u \in Uploads : RunsOver(e, u)'
  BY <1>1 DEF RInv, RunsOver, Progress
<1> QED BY <1>2, <1>3, <1>4 DEF RInv

LEMMA ReachedImport ==
  ASSUME OInv, WInv, RInv, Import, UNCHANGED inputVars PROVE RInv'
<1>0. UNCHANGED <<version, req, exp>>
  BY DEF inputVars
<1>1. happened \subseteq happened'
  BY DEF Import, Serve, Sweep, CreateImport, AppendBatch, MarkPromoting, Promote,
         Commit, Answer, MarkFailed, ClearFailed, StatementFails, Outage, Age,
         FindStale, MarkAborted, ClearAborted, SweepFails
<1>2. \/ UNCHANGED data
      \/ \E u \in Uploads : Commit(u) /\ MayCommit(u)
  BY DEF Import, Serve, Sweep, CreateImport, AppendBatch, MarkPromoting, Promote,
         Commit, Answer, MarkFailed, ClearFailed, StatementFails, Outage, Age,
         FindStale, MarkAborted, ClearAborted, SweepFails
<1>3. CASE UNCHANGED data
  BY <1>0, <1>1, <1>3, ReachedAnyway
<1>4. ASSUME NEW u \in Uploads, Commit(u), MayCommit(u), Calm' PROVE RInv'
  <2>0. Calm /\ Standing(u) /\ up[u] \in Requests
    BY <1>1, <1>4 DEF Calm, WInv, OInv, TypeOK
  <2>1. imp[u] # "aborted" /\ up[u].pc = "commit" /\ \A v \in Uploads : ~data[v].exists
    BY <1>4 DEF MayCommit, NameTaken, Commit
  <2>2. /\ staged[u] = 1..(up[u].next - 1) /\ up[u].counted = Cardinality(staged[u])
        /\ data[u].deleted = {} /\ up[u].next \in Nat
    BY <2>0, <2>1 DEF Standing, Working, Requests
  <2> DEFINE d == [data[u] EXCEPT !.exists = TRUE, !.rows = staged[u], !.count = up[u].counted,
                                  !.file = 1..(up[u].next - 1)]
  <2>3. data' = [data EXCEPT ![u] = d] /\ IsDataset(data[u])
    BY <1>4 DEF Commit, WInv, DataShape
  <2>4. /\ d.rows = staged[u] /\ d.count = up[u].counted /\ d.deleted = {}
    BY <2>2, <2>3 DEF IsDataset
  <2> HIDE DEF d
  <2>5. \A v \in Uploads : data'[v] = IF v = u THEN d ELSE data[v]
    BY <2>3 DEF WInv, DataShape
  <2>6. /\ \A c \in Clients : req[c].pc \notin Deleting \cup Creating
        /\ \A e \in Experiments : exp[e].pc = "none"
    BY <2>0, <2>1 DEF RInv, RequestFits, DeletesFrom, CreatesOn, RunsOver
  <2>7. \A v \in Uploads : Pending(v)' = {}
    BY <1>0, <2>6 DEF Pending, Deleting
  <2>8. Tally(u)'
    <3> DEFINE S == staged[u]
    <3>1. IsFiniteSet(S) /\ S \subseteq Nat \ {0}
      <4>1. 1 \in Int /\ up[u].next - 1 \in Int
        BY <2>2
      <4>2. IsFiniteSet(1..(up[u].next - 1))
        BY <4>1, FS_Interval
      <4>3. 1..(up[u].next - 1) \subseteq Nat \ {0}
        BY <4>1
      <4> QED BY <2>2, <4>2, <4>3
    <3>2. /\ data'[u].rows = S /\ data'[u].deleted = {} /\ data'[u].count = Cardinality(S)
          /\ Pending(u)' = {}
      BY <2>2, <2>4, <2>5, <2>7
    <3>3. S \cup {} = S
      OBVIOUS
    <3> HIDE DEF S
    <3> QED BY <3>1, <3>2, <3>3 DEF Tally
  <2>9. ASSUME NEW v \in Uploads \ {u} PROVE Tally(v)'
    BY <2>0, <2>1, <2>5 DEF RInv, Tally
  <2> QED BY <1>0, <2>6, <2>8, <2>9 DEF RInv, RequestFits, OwnRows, Deleting
<1> QED
  BY <1>2, <1>3, <1>4 DEF RInv

\* A request that is at nothing of account, and then at nothing.
LEMMA ReachedIdle ==
  ASSUME RInv, NEW c \in Clients, UNCHANGED <<data, exp>>, happened \subseteq happened',
         version.frozen => version'.frozen, req[c].pc # "decrement",
         req'[c].pc \notin Deleting \cup Creating, \A d \in Clients \ {c} : req'[d] = req[d]
  PROVE  RInv'
<1> SUFFICES ASSUME Calm' PROVE RInv'
  BY DEF RInv
<1>1. Calm
  BY DEF Calm
<1>2. \A u \in Uploads : Pending(u)' = Pending(u) /\ (Held(u)' => Held(u))
  BY DEF Pending, Held, Deleting
<1>3. \A u \in Uploads : Tally(u)'
  BY <1>1, <1>2 DEF RInv, Tally
<1>4. ASSUME NEW d \in Clients PROVE RequestFits(d)'
  <2>1. CASE d = c
    BY <2>1 DEF RequestFits
  <2>2. CASE d # c
    BY <1>1, <1>2, <2>2 DEF RInv, RequestFits, DeletesFrom, CreatesOn
  <2> QED BY <2>1, <2>2
<1>5. OwnRows'
  BY <1>1 DEF RInv, OwnRows, Deleting
<1>6. \A e \in Experiments : exp'[e].pc # "none" => \E u \in Uploads : RunsOver(e, u)'
  BY <1>1 DEF RInv, RunsOver, Progress
<1> QED BY <1>3, <1>4, <1>5, <1>6 DEF RInv

LEMMA ReachedCrash ==
  ASSUME RInv, Crash PROVE RInv'
<1> SUFFICES ASSUME Calm' PROVE RInv'
  BY DEF RInv
<1>1. /\ UNCHANGED <<data, version, exp>> /\ Calm
      /\ \A c \in Clients : req'[c].pc = "idle" /\ req[c].pc # "decrement"
  <2>1. UNCHANGED <<data, version, exp>> /\ req' = [c \in Clients |-> IdleRequest]
    BY DEF Crash, ImportsEnd
  <2>2. happened' = happened \cup {"crash"}
                      \cup {"overlap" : c \in {d \in Clients : req[d].pc = "decrement"}}
    BY DEF Crash
  <2> QED BY <2>1, <2>2 DEF Calm, IdleRequest
<1>2. \A u \in Uploads : Pending(u)' = Pending(u)
  BY <1>1 DEF Pending
<1>3. \A u \in Uploads : Tally(u)'
  BY <1>1, <1>2 DEF RInv, Tally
<1>4. (\A c \in Clients : RequestFits(c)') /\ OwnRows'
  BY <1>1 DEF RequestFits, OwnRows, Deleting, Creating
<1>5. \A e \in Experiments : exp'[e].pc # "none" => \E u \in Uploads : RunsOver(e, u)'
  BY <1>1 DEF RInv, RunsOver, Progress
<1> QED BY <1>3, <1>4, <1>5 DEF RInv

LEMMA ReachedRequest ==
  ASSUME TInv, WInv, RInv, NEW c \in Clients, Request(c) PROVE RInv'
<1> DEFINE idle == [pc |-> "idle", on |-> {}, rows |-> {}, n |-> 0, exp |-> {}]
<1>i. IsRequest(idle) /\ idle.pc = "idle" /\ idle = IdleRequest
  BY DEF IsRequest, IdleRequest
<1> HIDE DEF idle
<1>0. InputShape /\ IsRequest(req[c])
  BY DEF TInv, InputShape
<1>1. CASE EditDraft(c)
  <2>1. UNCHANGED <<data, version, exp, happened>> /\ req[c].pc = "idle"
    BY <1>1 DEF EditDraft, importVars
  <2>2. PICK t \in Texts : req' = [req EXCEPT ![c] = [IdleRequest EXCEPT !.pc = "save", !.n = t]]
    BY <1>1 DEF EditDraft
  <2> DEFINE r == [IdleRequest EXCEPT !.pc = "save", !.n = t]
  <2>3. IsRequest(r) /\ r.pc = "save"
    BY DEF IsRequest, IdleRequest
  <2>4. req' = [req EXCEPT ![c] = r]
    BY <2>2
  <2> HIDE DEF r
  <2>5. req'[c].pc = "save" /\ \A d \in Clients \ {c} : req'[d] = req[d]
    BY <1>0, <2>3, <2>4, RequestBecomes
  <2> QED BY <2>1, <2>5, ReachedIdle DEF Deleting, Creating
<1>2. CASE SaveDraft(c)
  <2>1. /\ UNCHANGED <<data, exp, happened>> /\ req[c].pc = "save" /\ version'.frozen = version.frozen
        /\ req' = [req EXCEPT ![c] = idle]
    BY <1>0, <1>2, <1>i DEF SaveDraft, importVars, InputShape
  <2>2. req'[c].pc = "idle" /\ \A d \in Clients \ {c} : req'[d] = req[d]
    BY <1>0, <1>i, <2>1, RequestBecomes
  <2> QED BY <2>1, <2>2, ReachedIdle DEF Deleting, Creating
<1>3. CASE DeleteSamples(c)
  <2> SUFFICES ASSUME Calm' PROVE RInv'
    BY DEF RInv
  <2>1. UNCHANGED <<data, version, exp>> /\ req[c].pc = "idle"
    BY <1>3 DEF DeleteSamples
  <2>2. PICK u \in Uploads : \E s \in data[u].rows :
          /\ ~Referenced(u)
          /\ req' = [req EXCEPT ![c] = [IdleRequest EXCEPT !.pc = "delete", !.on = {u}, !.rows = {s}]]
          /\ happened' = happened \cup Overlaps(u, Creating)
    BY <1>3 DEF DeleteSamples
  <2>3. PICK s \in data[u].rows :
          req' = [req EXCEPT ![c] = [IdleRequest EXCEPT !.pc = "delete", !.on = {u}, !.rows = {s}]]
    BY <2>2
  <2> DEFINE r == [IdleRequest EXCEPT !.pc = "delete", !.on = {u}, !.rows = {s}]
  <2>4. IsRequest(r) /\ r.pc = "delete" /\ r.on = {u} /\ r.rows = {s}
    BY DEF IsRequest, IdleRequest
  <2>5. req' = [req EXCEPT ![c] = r]
    BY <2>3
  <2> HIDE DEF r
  <2>6. req'[c] = r /\ \A d \in Clients \ {c} : req'[d] = req[d]
    BY <1>0, <2>4, <2>5, RequestBecomes
  <2>7. Calm /\ ~Held(u) /\ data[u].exists
    <3>1. Calm /\ \A d \in Clients : ~(req[d].pc \in Creating /\ req[d].on = {u})
      BY <2>2 DEF Calm, Overlaps
    <3>2. data[u].exists
      BY <2>3 DEF WInv, Standing
    <3> QED BY <2>2, <3>1, <3>2 DEF Held, Referenced
  <2>8. \A v \in Uploads : Pending(v)' = Pending(v) /\ (Held(v)' => Held(v))
    BY <2>1, <2>4, <2>6 DEF Pending, Held, Creating
  <2>9. \A v \in Uploads : Tally(v)'
    BY <2>1, <2>7, <2>8 DEF RInv, Tally
  <2>10. ASSUME NEW d \in Clients PROVE RequestFits(d)'
    <3>1. CASE d = c
      <4>1. DeletesFrom(c, u)'
        BY <2>1, <2>4, <2>6, <2>7, <2>8 DEF DeletesFrom
      <4> QED BY <2>4, <2>6, <3>1, <4>1 DEF RequestFits, Creating
    <3>2. CASE d # c
      BY <2>1, <2>6, <2>7, <2>8, <3>2 DEF RInv, RequestFits, DeletesFrom, CreatesOn
    <3> QED BY <3>1, <3>2
  <2>11. OwnRows'
    BY <2>4, <2>6, <2>7 DEF RInv, OwnRows
  <2>12. \A e \in Experiments : exp'[e].pc # "none" => \E v \in Uploads : RunsOver(e, v)'
    BY <2>1, <2>7 DEF RInv, RunsOver, Progress
  <2> QED BY <2>9, <2>10, <2>11, <2>12 DEF RInv
<1>4. CASE HardDelete(c)
  <2> SUFFICES ASSUME Calm' PROVE RInv'
    BY DEF RInv
  <2>1. UNCHANGED <<version, exp, happened>> /\ req[c].pc = "delete" /\ Calm
    BY <1>4 DEF HardDelete, Calm
  <2>2. PICK u \in Uploads : DeletesFrom(c, u)
    BY <2>1 DEF RInv, RequestFits, Deleting
  <2>3. PICK s : req[c].rows = {s}
    BY <2>2 DEF DeletesFrom
  <2> DEFINE gone == {s} \cap data[u].rows
  <2>4. /\ data' = [data EXCEPT ![u].rows = @ \ gone, ![u].deleted = @ \cup gone]
        /\ req' = [req EXCEPT ![c] = IF gone = {} THEN IdleRequest
                                     ELSE [@ EXCEPT !.pc = "decrement", !.n = Cardinality(gone)]]
    BY <1>4, <2>2, <2>3 DEF HardDelete, DeletesFrom
  <2>5. CASE s \notin data[u].rows
    <3>1. gone = {}
      BY <2>5
    <3>2. data' = data
      <4>1. data' = [data EXCEPT ![u].rows = @ \ {}, ![u].deleted = @ \cup {}]
        BY <2>4, <3>1
      <4>2. [data[u] EXCEPT !.rows = @ \ {}, !.deleted = @ \cup {}] = data[u]
        BY DEF WInv, DataShape, IsDataset
      <4>3. data' = [data EXCEPT ![u] = [data[u] EXCEPT !.rows = @ \ {}, !.deleted = @ \cup {}]]
        BY <4>1
      <4> QED BY <4>2, <4>3 DEF WInv, DataShape
    <3>3. req' = [req EXCEPT ![c] = idle]
      BY <1>i, <2>4, <3>1
    <3>4. req'[c].pc = "idle" /\ \A d \in Clients \ {c} : req'[d] = req[d]
      BY <1>0, <1>i, <3>3, RequestBecomes
    <3> QED BY <2>1, <3>2, <3>4, ReachedIdle DEF Deleting, Creating
  <2>6. CASE s \in data[u].rows
    <3>1. gone = {s} /\ Cardinality(gone) = 1
      BY <2>6, FS_Singleton
    <3> DEFINE r == [req[c] EXCEPT !.pc = "decrement", !.n = 1]
               d == [data[u] EXCEPT !.rows = @ \ {s}, !.deleted = @ \cup {s}]
    <3>2. req' = [req EXCEPT ![c] = r] /\ data' = [data EXCEPT ![u] = d]
      BY <2>4, <3>1
    <3>3. IsRequest(r) /\ r.pc = "decrement" /\ r.n = 1 /\ r.on = {u} /\ r.rows = {s}
      BY <1>0, <2>2, <2>3 DEF IsRequest, DeletesFrom
    <3>4. /\ d.exists = data[u].exists /\ d.count = data[u].count
          /\ d.rows = data[u].rows \ {s} /\ d.deleted = data[u].deleted \cup {s}
      BY DEF WInv, DataShape, IsDataset
    <3> HIDE DEF r, d
    <3>5. req'[c] = r /\ \A x \in Clients \ {c} : req'[x] = req[x]
      BY <1>0, <3>2, <3>3, RequestBecomes
    <3>6. \A v \in Uploads : data'[v] = IF v = u THEN d ELSE data[v]
      BY <3>2 DEF WInv, DataShape
    <3>7. \A v \in Uploads : Held(v)' <=> Held(v)
      BY <2>1, <3>3, <3>5 DEF Held, Creating
    <3>8. /\ Pending(u)' = Pending(u) \cup {s}
          /\ \A v \in Uploads \ {u} : Pending(v)' = Pending(v)
      BY <2>1, <3>3, <3>5 DEF Pending
    <3>9. Tally(u)'
      <4>1. /\ data'[u].rows \cup data'[u].deleted = data[u].rows \cup data[u].deleted
            /\ data'[u].rows \cap data'[u].deleted = {}
            /\ data'[u].rows \cup Pending(u)' = data[u].rows \cup Pending(u)
            /\ data'[u].exists = data[u].exists /\ data'[u].count = data[u].count
        BY <2>1, <2>6, <3>4, <3>6, <3>8 DEF RInv, Tally
      <4> QED BY <2>1, <4>1 DEF RInv, Tally
    <3>10. ASSUME NEW v \in Uploads \ {u} PROVE Tally(v)'
      BY <2>1, <3>6, <3>8 DEF RInv, Tally
    <3>11. ASSUME NEW x \in Clients PROVE RequestFits(x)'
      <4>1. CASE x = c
        <5>1. DeletesFrom(c, u)'
          BY <2>2, <3>3, <3>4, <3>5, <3>6, <3>7 DEF DeletesFrom
        <5> QED BY <3>3, <3>5, <4>1, <5>1 DEF RequestFits, Creating
      <4>2. CASE x # c
        <5>1. ASSUME NEW v \in Uploads, DeletesFrom(x, v) PROVE DeletesFrom(x, v)'
          BY <3>4, <3>5, <3>6, <3>7, <4>2, <5>1 DEF DeletesFrom
        <5>2. ASSUME NEW v \in Uploads, CreatesOn(x, v), req[x].pc \in Creating PROVE CreatesOn(x, v)'
          BY <2>1, <2>2, <3>5, <3>6, <4>2, <5>2 DEF CreatesOn, DeletesFrom, Held
        <5> QED BY <2>1, <3>5, <4>2, <5>1, <5>2 DEF RInv, RequestFits
      <4> QED BY <4>1, <4>2
    <3>12. OwnRows'
      <4>1. \A x \in Clients \ {c} : req[x].pc = "decrement" /\ req[x].on = {u} => req[x].rows # {s}
        <5> SUFFICES ASSUME NEW x \in Clients \ {c}, req[x].pc = "decrement", req[x].on = {u}
                     PROVE  req[x].rows # {s}
          OBVIOUS
        <5>1. PICK v \in Uploads : DeletesFrom(x, v)
          BY <2>1 DEF RInv, RequestFits, Deleting
        <5>2. v = u
          BY <5>1 DEF DeletesFrom
        <5>3. PICK q : req[x].rows = {q} /\ q \in data[u].deleted
          BY <5>1, <5>2 DEF DeletesFrom
        <5>4. q # s
          BY <2>1, <2>6, <5>3 DEF RInv, Tally
        <5> QED BY <5>3, <5>4
      <4> QED BY <2>1, <3>3, <3>5, <4>1 DEF RInv, OwnRows
    <3>13. ASSUME NEW e \in Experiments, exp'[e].pc # "none"
           PROVE  \E v \in Uploads : RunsOver(e, v)'
      <4>1. PICK v \in Uploads : RunsOver(e, v)
        BY <2>1, <3>13 DEF RInv
      <4>2. v # u
        BY <2>1, <2>2, <3>13, <4>1 DEF DeletesFrom, Held, RunsOver
      <4>3. RunsOver(e, v)'
        BY <2>1, <3>6, <4>1, <4>2 DEF RunsOver, Progress
      <4> QED BY <4>3
    <3> QED BY <3>9, <3>10, <3>11, <3>12, <3>13 DEF RInv
  <2> QED BY <2>5, <2>6
<1>5. CASE Decrement(c)
  <2> SUFFICES ASSUME Calm' PROVE RInv'
    BY DEF RInv
  <2>1. UNCHANGED <<version, exp, happened>> /\ req[c].pc = "decrement" /\ Calm
    BY <1>5 DEF Decrement, Calm
  <2>2. PICK u \in Uploads : DeletesFrom(c, u)
    BY <2>1 DEF RInv, RequestFits, Deleting
  <2>3. PICK s : req[c].rows = {s} /\ s \in data[u].deleted
    BY <2>1, <2>2 DEF DeletesFrom
  <2> DEFINE n == IF data[u].count > 1 THEN data[u].count - 1 ELSE 0
             d == [data[u] EXCEPT !.count = n]
  <2>4. data' = [data EXCEPT ![u] = d] /\ req' = [req EXCEPT ![c] = idle]
    <3>1. req[c].on = {u} /\ req[c].n = 1
      BY <2>1, <2>2 DEF DeletesFrom
    <3> QED BY <1>5, <1>i, <3>1 DEF Decrement
  <2>5. /\ d.exists = data[u].exists /\ d.count = n
        /\ d.rows = data[u].rows /\ d.deleted = data[u].deleted
    BY DEF WInv, DataShape, IsDataset
  <2> HIDE DEF d
  <2>6. req'[c] = idle /\ \A x \in Clients \ {c} : req'[x] = req[x]
    BY <1>0, <1>i, <2>4, RequestBecomes
  <2>7. \A v \in Uploads : data'[v] = IF v = u THEN d ELSE data[v]
    BY <2>4 DEF WInv, DataShape
  <2>8. \A v \in Uploads : Held(v)' => Held(v)
    BY <1>i, <2>1, <2>6 DEF Held, Creating
  <2>9. \A x \in Clients \ {c} : req[x].pc = "decrement" /\ req[x].on = {u} => s \notin req[x].rows
    <3> SUFFICES ASSUME NEW x \in Clients \ {c}, req[x].pc = "decrement", req[x].on = {u}
                 PROVE  s \notin req[x].rows
      OBVIOUS
    <3>1. PICK q : req[x].rows = {q}
      BY <2>1 DEF RInv, RequestFits, Deleting, DeletesFrom
    <3>2. req[c].on = {u}
      BY <2>2 DEF DeletesFrom
    <3>3. req[x].rows # req[c].rows
      BY <2>1, <3>2 DEF RInv, OwnRows
    <3> QED BY <2>3, <3>1, <3>3
  <2>10. /\ Pending(u) = Pending(u)' \cup {s} /\ s \notin Pending(u)'
         /\ \A v \in Uploads \ {u} : Pending(v)' = Pending(v)
    <3>1. req[c].on = {u} /\ req'[c].pc = "idle"
      BY <1>i, <2>2, <2>6 DEF DeletesFrom
    <3>2. Pending(u)' = UNION {req[x].rows : x \in {y \in Clients \ {c} : req[y].pc = "decrement" /\ req[y].on = {u}}}
      BY <2>6, <3>1 DEF Pending
    <3>3. Pending(u) = Pending(u)' \cup {s}
      BY <2>1, <2>3, <3>1, <3>2 DEF Pending
    <3>4. s \notin Pending(u)'
      BY <2>9, <3>2
    <3>5. \A v \in Uploads \ {u} : Pending(v)' = Pending(v)
      BY <2>6, <3>1 DEF Pending
    <3> QED BY <3>3, <3>4, <3>5
  <2>11. Tally(u)'
    <3> DEFINE S == data[u].rows \cup Pending(u)
               T == data[u].rows \cup Pending(u)'
    <3>1. Tally(u) /\ data[u].exists
      BY <2>1, <2>2 DEF RInv, DeletesFrom
    <3>2. s \notin data[u].rows
      BY <2>3, <3>1 DEF Tally
    <3>3. T = S \ {s} /\ s \in S
      BY <2>10, <3>2
    <3>4. Pending(u) \subseteq data[u].deleted
      <4>1. ASSUME NEW x \in Clients, req[x].pc = "decrement", req[x].on = {u}
            PROVE  req[x].rows \subseteq data[u].deleted
        <5>1. PICK v \in Uploads : DeletesFrom(x, v)
          BY <2>1, <4>1 DEF RInv, RequestFits, Deleting
        <5> QED BY <4>1, <5>1 DEF DeletesFrom
      <4> QED BY <4>1 DEF Pending
    <3>5. IsFiniteSet(S)
      <4>1. S \in SUBSET (data[u].rows \cup data[u].deleted)
        BY <3>4
      <4> HIDE DEF S
      <4> QED BY <3>1, <4>1, FS_Subset DEF Tally
    <3>6. data[u].count = Cardinality(S)
      BY <3>1 DEF Tally
    <3> HIDE DEF S, T
    <3>7. Cardinality(S) \in Nat /\ Cardinality(S) # 0
      BY <3>3, <3>5, FS_CardinalityType, FS_EmptySet
    <3>8. Cardinality(T) = Cardinality(S) - 1
      BY <3>3, <3>5, FS_RemoveElement
    <3>9. n = Cardinality(T)
      BY <3>6, <3>7, <3>8
    <3>10. data'[u].count = Cardinality(data'[u].rows \cup Pending(u)')
      BY <2>5, <2>7, <3>9 DEF T
    <3> QED BY <2>5, <2>7, <3>1, <3>10 DEF Tally
  <2> HIDE DEF n
  <2>12. ASSUME NEW v \in Uploads \ {u} PROVE Tally(v)'
    BY <2>1, <2>7, <2>10 DEF RInv, Tally
  <2>13. ASSUME NEW x \in Clients PROVE RequestFits(x)'
    <3>1. CASE x = c
      BY <1>i, <2>6, <3>1 DEF RequestFits, Deleting, Creating
    <3>2. CASE x # c
      <4>1. ASSUME NEW v \in Uploads, DeletesFrom(x, v) PROVE DeletesFrom(x, v)'
        BY <2>5, <2>6, <2>7, <2>8, <3>2, <4>1 DEF DeletesFrom
      <4>2. ASSUME NEW v \in Uploads, CreatesOn(x, v), req[x].pc \in Creating PROVE CreatesOn(x, v)'
        BY <2>1, <2>2, <2>6, <2>7, <3>2, <4>2 DEF CreatesOn, DeletesFrom, Held
      <4> QED BY <2>1, <2>6, <3>2, <4>1, <4>2 DEF RInv, RequestFits
    <3> QED BY <3>1, <3>2
  <2>14. OwnRows'
    BY <1>i, <2>1, <2>6 DEF RInv, OwnRows
  <2>15. ASSUME NEW e \in Experiments, exp'[e].pc # "none"
         PROVE  \E v \in Uploads : RunsOver(e, v)'
    <3>1. PICK v \in Uploads : RunsOver(e, v)
      BY <2>1, <2>15 DEF RInv
    <3>2. v # u
      BY <2>1, <2>2, <2>15, <3>1 DEF DeletesFrom, Held, RunsOver
    <3>3. RunsOver(e, v)'
      BY <2>1, <2>7, <3>1, <3>2 DEF RunsOver, Progress
    <3> QED BY <3>3
  <2> QED BY <2>11, <2>12, <2>13, <2>14, <2>15 DEF RInv
<1>6. CASE CreateExperiment(c)
  <2> SUFFICES ASSUME Calm' PROVE RInv'
    BY DEF RInv
  <2>1. UNCHANGED <<data, version, exp>> /\ req[c].pc = "idle"
    BY <1>6 DEF CreateExperiment
  <2>2. PICK u \in Uploads : \E e \in Experiments :
          /\ data[u].exists /\ data[u].count > 0
          /\ req' = [req EXCEPT ![c] = [IdleRequest EXCEPT !.on = {u}, !.exp = {e}, !.n = data[u].count,
                                           !.pc = IF version.frozen THEN "insert" ELSE "freeze"]]
          /\ happened' = happened \cup Overlaps(u, Deleting)
    BY <1>6 DEF CreateExperiment
  <2>3. PICK e \in Experiments :
          req' = [req EXCEPT ![c] = [IdleRequest EXCEPT !.on = {u}, !.exp = {e}, !.n = data[u].count,
                                       !.pc = IF version.frozen THEN "insert" ELSE "freeze"]]
    BY <2>2
  <2> DEFINE pc == IF version.frozen THEN "insert" ELSE "freeze"
             n == data[u].count
             r == [IdleRequest EXCEPT !.on = {u}, !.exp = {e}, !.n = n, !.pc = pc]
  <2>4. pc \in Creating /\ (pc = "insert" => version.frozen) /\ pc \notin Deleting /\ n = data[u].count
    BY DEF Creating, Deleting
  <2>5. req' = [req EXCEPT ![c] = r]
    BY <2>3
  <2> HIDE DEF pc, n
  <2>6. IsRequest(r) /\ r.pc = pc /\ r.on = {u} /\ r.n = n
    BY DEF IsRequest, IdleRequest
  <2> HIDE DEF r
  <2>7. req'[c] = r /\ \A x \in Clients \ {c} : req'[x] = req[x]
    BY <1>0, <2>5, <2>6, RequestBecomes
  <2>8. Calm /\ \A x \in Clients : ~(req[x].pc \in Deleting /\ req[x].on = {u})
    BY <2>2 DEF Calm, Overlaps
  <2>9. /\ \A v \in Uploads : Pending(v)' = Pending(v)
        /\ \A v \in Uploads \ {u} : Held(v)' => Held(v)
    <3>1. req'[c].pc # "decrement"
      BY <2>4, <2>6, <2>7 DEF Deleting
    <3>2. \A v \in Uploads : Pending(v)' = Pending(v)
      BY <2>1, <2>7, <3>1 DEF Pending
    <3>3. \A v \in Uploads \ {u} : Held(v)' => Held(v)
      BY <2>1, <2>6, <2>7 DEF Held
    <3> QED BY <3>2, <3>3
  <2>10. \A v \in Uploads : Tally(v)'
    BY <2>1, <2>8, <2>9 DEF RInv, Tally
  <2>11. ASSUME NEW x \in Clients PROVE RequestFits(x)'
    <3>1. CASE x = c
      <4>1. CreatesOn(c, u)'
        BY <2>1, <2>2, <2>4, <2>6, <2>7 DEF CreatesOn
      <4> QED BY <2>4, <2>6, <2>7, <3>1, <4>1 DEF RequestFits
    <3>2. CASE x # c
      <4>1. ASSUME NEW v \in Uploads, DeletesFrom(x, v), req[x].pc \in Deleting PROVE DeletesFrom(x, v)'
        BY <2>1, <2>7, <2>8, <2>9, <3>2, <4>1 DEF DeletesFrom
      <4>2. ASSUME NEW v \in Uploads, CreatesOn(x, v) PROVE CreatesOn(x, v)'
        BY <2>1, <2>7, <3>2, <4>2 DEF CreatesOn
      <4> QED BY <2>7, <2>8, <3>2, <4>1, <4>2 DEF RInv, RequestFits
    <3> QED BY <3>1, <3>2
  <2>12. OwnRows'
    BY <2>4, <2>6, <2>7, <2>8 DEF RInv, OwnRows, Deleting
  <2>13. \A f \in Experiments : exp'[f].pc # "none" => \E v \in Uploads : RunsOver(f, v)'
    BY <2>1, <2>8 DEF RInv, RunsOver, Progress
  <2> QED BY <2>10, <2>11, <2>12, <2>13 DEF RInv
<1>7. CASE Freeze(c)
  <2> SUFFICES ASSUME Calm' PROVE RInv'
    BY DEF RInv
  <2> DEFINE r == [req[c] EXCEPT !.pc = "insert"]
  <2>1. /\ UNCHANGED <<data, exp>> /\ version' = [version EXCEPT !.frozen = TRUE]
        /\ req' = [req EXCEPT ![c] = r] /\ req[c].pc = "freeze" /\ Calm
    BY <1>7 DEF Freeze, Calm
  <2>2. IsRequest(r) /\ r.pc = "insert" /\ r.on = req[c].on /\ r.n = req[c].n
    BY <1>0 DEF IsRequest
  <2> HIDE DEF r
  <2>3. version'.frozen
    BY <1>0, <2>1 DEF InputShape
  <2>4. req'[c] = r /\ \A x \in Clients \ {c} : req'[x] = req[x]
    BY <1>0, <2>1, <2>2, RequestBecomes
  <2>5. \A v \in Uploads : Pending(v)' = Pending(v) /\ (Held(v)' => Held(v))
    BY <2>1, <2>2, <2>4 DEF Pending, Held, Creating
  <2>6. \A v \in Uploads : Tally(v)'
    BY <2>1, <2>5 DEF RInv, Tally
  <2>7. ASSUME NEW x \in Clients PROVE RequestFits(x)'
    <3>1. CASE x = c
      <4>1. PICK u \in Uploads : CreatesOn(c, u)
        BY <2>1 DEF RInv, RequestFits, Creating
      <4>2. CreatesOn(c, u)'
        BY <2>1, <2>2, <2>3, <2>4, <4>1 DEF CreatesOn
      <4> QED BY <2>2, <2>4, <3>1, <4>2 DEF RequestFits, Deleting
    <3>2. CASE x # c
      BY <2>1, <2>3, <2>4, <2>5, <3>2 DEF RInv, RequestFits, DeletesFrom, CreatesOn
    <3> QED BY <3>1, <3>2
  <2>8. OwnRows'
    BY <2>1, <2>2, <2>4 DEF RInv, OwnRows
  <2>9. \A e \in Experiments : exp'[e].pc # "none" => \E v \in Uploads : RunsOver(e, v)'
    BY <2>1, <2>3 DEF RInv, RunsOver, Progress
  <2> QED BY <2>6, <2>7, <2>8, <2>9 DEF RInv
<1>8. CASE InsertExperiment(c)
  <2> SUFFICES ASSUME Calm' PROVE RInv'
    BY DEF RInv
  <2>1. /\ UNCHANGED <<data, version>> /\ Calm /\ req' = [req EXCEPT ![c] = idle]
        /\ req[c].pc = "insert"
    BY <1>8, <1>i DEF InsertExperiment, importVars, Calm
  <2>2. PICK u \in Uploads : CreatesOn(c, u)
    BY <2>1 DEF RInv, RequestFits, Creating
  <2>3. PICK e : exp' = [exp EXCEPT ![e] = [NoExperiment EXCEPT !.pc = "load", !.on = req[c].on,
                                                               !.total = req[c].n]]
    BY <1>8 DEF InsertExperiment
  <2> DEFINE x == [NoExperiment EXCEPT !.pc = "load", !.on = req[c].on, !.total = req[c].n]
  <2>4. /\ IsExperiment(x) /\ x.pc = "load" /\ x.on = {u} /\ x.total = data[u].count
        /\ x.results = {} /\ x.seen = 0 /\ x.cursor = 0
    BY <2>2 DEF IsExperiment, NoExperiment, CreatesOn
  <2>5. exp' = [exp EXCEPT ![e] = x]
    BY <2>3
  <2> HIDE DEF x
  <2>6. \A f \in Experiments : exp'[f] = IF f = e THEN x ELSE exp[f]
    BY <1>0, <2>4, <2>5, ExperimentBecomes
  <2>7. req'[c] = idle /\ \A d \in Clients \ {c} : req'[d] = req[d]
    BY <1>0, <1>i, <2>1, RequestBecomes
  <2>8. \A v \in Uploads : Pending(v)' = Pending(v) /\ (Held(v)' => Held(v))
    <3>1. \A v \in Uploads : Pending(v)' = Pending(v)
      BY <1>i, <2>1, <2>7 DEF Pending
    <3>2. Held(u)
      BY <2>1, <2>2 DEF Held, Creating, CreatesOn
    <3>3. \A v \in Uploads \ {u} : Held(v)' => Held(v)
      BY <1>i, <2>4, <2>6, <2>7 DEF Held, Creating
    <3> QED BY <3>1, <3>2, <3>3
  <2>9. \A v \in Uploads : Tally(v)'
    BY <2>1, <2>8 DEF RInv, Tally
  <2>10. ASSUME NEW d \in Clients PROVE RequestFits(d)'
    <3>1. CASE d = c
      BY <1>i, <2>7, <3>1 DEF RequestFits, Deleting, Creating
    <3>2. CASE d # c
      BY <2>1, <2>7, <2>8, <3>2 DEF RInv, RequestFits, DeletesFrom, CreatesOn
    <3> QED BY <3>1, <3>2
  <2>11. OwnRows'
    BY <1>i, <2>1, <2>7 DEF RInv, OwnRows
  <2>12. ASSUME NEW f \in Experiments, exp'[f].pc # "none"
         PROVE  \E v \in Uploads : RunsOver(f, v)'
    <3>1. CASE f = e
      <4>1. RunsOver(f, u)'
        BY <2>1, <2>2, <2>4, <2>6, <3>1 DEF RunsOver, Progress, CreatesOn
      <4> QED BY <4>1
    <3>2. CASE f # e
      BY <2>1, <2>6, <2>12, <3>2 DEF RInv, RunsOver, Progress
    <3> QED BY <3>1, <3>2
  <2> QED BY <2>9, <2>10, <2>11, <2>12 DEF RInv
<1> QED
  BY <1>1, <1>2, <1>3, <1>4, <1>5, <1>6, <1>7, <1>8 DEF Request

\* A workflow moves on its own: what it holds on to, it holds already.
LEMMA ReachedMoves ==
  ASSUME TInv, RInv, Calm, NEW e \in Experiments, NEW x, NEW u \in Uploads,
         IsExperiment(x), exp' = [exp EXCEPT ![e] = x], UNCHANGED <<importVars, version, req>>,
         exp[e].pc # "none", RunsOver(e, u), x.on = exp[e].on, x.total = exp[e].total, Progress(e, u)'
  PROVE  RInv'
<1>1. \A f \in Experiments : exp'[f] = IF f = e THEN x ELSE exp[f]
  BY ExperimentBecomes DEF TInv
<1>2. UNCHANGED <<data, happened>>
  BY DEF importVars
<1>3. \A v \in Uploads : Pending(v)' = Pending(v) /\ (Held(v)' => Held(v))
  BY <1>1 DEF Pending, Held
<1>4. \A v \in Uploads : Tally(v)'
  BY <1>2, <1>3 DEF RInv, Tally
<1>5. (\A c \in Clients : RequestFits(c)') /\ OwnRows'
  BY <1>2, <1>3 DEF RInv, RequestFits, DeletesFrom, CreatesOn, OwnRows
<1>6. ASSUME NEW f \in Experiments, exp'[f].pc # "none"
      PROVE  \E v \in Uploads : RunsOver(f, v)'
  <2>1. CASE f = e
    <3>1. RunsOver(e, u)'
      BY <1>1, <1>2 DEF RunsOver
    <3> QED BY <2>1, <3>1
  <2>2. CASE f # e
    BY <1>1, <1>2, <1>6, <2>2 DEF RInv, RunsOver, Progress
  <2> QED BY <2>1, <2>2
<1> QED BY <1>4, <1>5, <1>6 DEF RInv

LEMMA ReachedRun ==
  ASSUME TInv, WInv, RInv, NEW e \in Experiments, Run(e) PROVE RInv'
<1> SUFFICES ASSUME Calm' PROVE RInv'
  BY DEF RInv
<1>1. UNCHANGED <<importVars, version, req, data>> /\ Calm
  BY DEF Run, LoadPlan, LoadBatch, RenderBatch, importVars, Calm
<1>2. exp[e].pc \in {"load", "loop", "render"} /\ IsExperiment(exp[e])
  BY DEF Run, LoadPlan, LoadBatch, RenderBatch, TInv, InputShape
<1>3. PICK u \in Uploads : RunsOver(e, u)
  BY <1>1, <1>2 DEF RInv
<1>4. /\ IsFiniteSet(data[u].rows) /\ data[u].rows \subseteq Nat \ {0}
      /\ exp[e].total = Cardinality(data[u].rows) /\ exp[e].total \in Nat
      /\ exp[e].on = {u} /\ exp[e].total > 0 /\ version.frozen /\ exp[e].total = data[u].count
  <2>1. data[u].exists /\ Held(u) /\ exp[e].total = data[u].count
    BY <1>2, <1>3 DEF RunsOver, Held
  <2>2. IsFiniteSet(data[u].rows) /\ data[u].rows \subseteq Nat \ {0}
        /\ data[u].count = Cardinality(data[u].rows)
    BY <1>1, <2>1, HeldIsWhole
  <2>3. Cardinality(data[u].rows) \in Nat
    BY <2>2, FS_CardinalityType
  <2> QED BY <1>3, <2>1, <2>2, <2>3 DEF RunsOver
<1>5. \A x : exp' = [exp EXCEPT ![e] = x] /\ IsExperiment(x) => exp'[e] = x
  BY ExperimentBecomes DEF TInv
<1>6. CASE LoadPlan(e)
  <2> DEFINE x == [exp[e] EXCEPT !.pc = "loop", !.plan = exp[e].total]
  <2>1. exp' = [exp EXCEPT ![e] = x] /\ exp[e].pc = "load"
    BY <1>4, <1>6 DEF LoadPlan
  <2>2. /\ IsExperiment(x) /\ x.pc = "loop" /\ x.plan = x.total /\ x.on = exp[e].on
        /\ x.total = exp[e].total /\ x.results = exp[e].results /\ x.seen = exp[e].seen
        /\ x.cursor = exp[e].cursor
    BY <1>2 DEF IsExperiment
  <2> HIDE DEF x
  <2>3. exp'[e] = x
    BY <1>5, <2>1, <2>2
  <2>4. x.results = {} /\ x.seen = 0 /\ x.cursor = 0
    BY <1>3, <2>1, <2>2 DEF RunsOver, Progress
  <2>5. {r \in data[u].rows : r <= 0} = {} /\ Cardinality({}) = 0
    BY <1>4, FS_EmptySet
  <2>6. x.seen = Cardinality(x.results) /\ x.results = {r \in data[u].rows : r <= x.cursor}
    <3>1. {r \in data[u].rows : r <= x.cursor} = {}
      BY <2>4, <2>5
    <3> QED BY <2>4, <2>5, <3>1
  <2>7. Progress(e, u)'
    <3>1. /\ exp'[e].results = {r \in data'[u].rows : r <= exp'[e].cursor}
          /\ exp'[e].seen = Cardinality(exp'[e].results)
      BY <1>1, <2>3, <2>6
    <3>2. exp'[e].pc = "loop" /\ exp'[e].plan = exp'[e].total /\ exp'[e].cursor \in Nat
      BY <2>2, <2>3, <2>4
    <3> QED BY <3>1, <3>2 DEF Progress
  <2> QED BY <1>1, <1>2, <1>3, <2>1, <2>2, <2>7, ReachedMoves
<1>7. CASE LoadBatch(e)
  <2> DEFINE left == {r \in data[u].rows : r > exp[e].cursor}
             cur == Min(left)
             n == exp[e].seen + 1
             x == [exp[e] EXCEPT !.pc = "render", !.cursor = cur, !.seen = n]
             y == [exp[e] EXCEPT !.pc = "success"]
  <2>1. /\ exp[e].pc = "loop" /\ exp[e].plan = exp[e].total /\ exp[e].cursor \in Nat
        /\ exp[e].results = {r \in data[u].rows : r <= exp[e].cursor}
        /\ exp[e].seen = Cardinality(exp[e].results)
    BY <1>3, <1>7 DEF LoadBatch, RunsOver, Progress
  <2>2. exp[e].results \in SUBSET data[u].rows
    BY <2>1
  <2>3. /\ IsFiniteSet(exp[e].results) /\ exp[e].seen \in Nat /\ exp[e].seen <= exp[e].total
        /\ exp[e].seen = exp[e].total => exp[e].results = data[u].rows
    <3> DEFINE S == data[u].rows
               T == exp[e].results
    <3>1. /\ IsFiniteSet(T) /\ Cardinality(T) <= Cardinality(S)
          /\ Cardinality(S) = Cardinality(T) => S = T
      BY <1>4, <2>2, FS_Subset
    <3>2. Cardinality(T) \in Nat
      BY <3>1, FS_CardinalityType
    <3> QED BY <1>4, <2>1, <3>1, <3>2
  <2>4. CASE exp[e].seen < exp[e].plan /\ left # {}
    <3>1. exp' = [exp EXCEPT ![e] = x]
      <4> DEFINE goes == exp[e].seen < exp[e].plan /\ left # {}
      <4>1. exp' = [exp EXCEPT ![e] = IF goes THEN x ELSE y]
        BY <1>4, <1>7 DEF LoadBatch
      <4>2. goes
        BY <2>4
      <4> HIDE DEF goes, x, y
      <4> QED BY <4>1, <4>2
    <3>2. cur \in left /\ \A r \in left : cur <= r
      <4>1. left \subseteq Nat
        BY <1>4
      <4> HIDE DEF left
      <4> QED BY <2>4, <4>1, MinFound
    <3> HIDE DEF cur, n
    <3>3. /\ IsExperiment(x) /\ x.pc = "render" /\ x.plan = exp[e].plan /\ x.on = exp[e].on
          /\ x.total = exp[e].total /\ x.results = exp[e].results /\ x.seen = n /\ x.cursor = cur
      BY <1>2 DEF IsExperiment
    <3> HIDE DEF x
    <3>4. exp'[e] = x
      BY <1>5, <3>1, <3>3
    <3>5. cur \in data[u].rows /\ exp[e].results = {r \in data[u].rows : r < cur}
      BY <1>4, <2>1, <3>2
    <3>6. Progress(e, u)'
      BY <1>1, <2>1, <3>3, <3>4, <3>5 DEF Progress, n
    <3> QED BY <1>1, <1>2, <1>3, <3>1, <3>3, <3>6, ReachedMoves
  <2>5. CASE ~(exp[e].seen < exp[e].plan /\ left # {})
    <3>1. exp' = [exp EXCEPT ![e] = y]
      BY <1>4, <1>7, <2>5 DEF LoadBatch
    <3>2. exp[e].results = data[u].rows
      <4>1. CASE left = {}
        BY <1>4, <2>1, <4>1
      <4>2. CASE ~(exp[e].seen < exp[e].plan)
        BY <1>4, <2>1, <2>3, <4>2
      <4> QED BY <2>5, <4>1, <4>2
    <3>3. /\ IsExperiment(y) /\ y.pc = "success" /\ y.on = exp[e].on
          /\ y.total = exp[e].total /\ y.results = exp[e].results
      BY <1>2 DEF IsExperiment
    <3> HIDE DEF y
    <3>4. exp'[e] = y
      BY <1>5, <3>1, <3>3
    <3>5. Progress(e, u)'
      BY <1>1, <3>2, <3>3, <3>4 DEF Progress
    <3> QED BY <1>1, <1>2, <1>3, <3>1, <3>3, <3>5, ReachedMoves
  <2> QED BY <2>4, <2>5
<1>8. CASE RenderBatch(e)
  <2>1. /\ exp[e].pc = "render" /\ exp[e].plan = exp[e].total /\ exp[e].cursor \in data[u].rows
        /\ exp[e].results = {r \in data[u].rows : r < exp[e].cursor}
        /\ exp[e].seen = Cardinality(exp[e].results) + 1
    BY <1>3, <1>8 DEF RenderBatch, RunsOver, Progress
  <2> DEFINE T == exp[e].texts \cup {version.text : r \in {exp[e].cursor} \cap data[u].rows}
             R == exp[e].results \cup ({exp[e].cursor} \cap data[u].rows)
             x == [exp[e] EXCEPT !.pc = "loop", !.texts = T, !.results = R]
  <2>2. exp' = [exp EXCEPT ![e] = x]
    BY <1>4, <1>8 DEF RenderBatch
  <2>3. R = exp[e].results \cup {exp[e].cursor}
    BY <2>1
  <2> HIDE DEF T, R
  <2>4. /\ IsExperiment(x) /\ x.pc = "loop" /\ x.plan = exp[e].plan /\ x.on = exp[e].on
        /\ x.total = exp[e].total /\ x.results = R /\ x.seen = exp[e].seen /\ x.cursor = exp[e].cursor
    BY <1>2 DEF IsExperiment
  <2> HIDE DEF x
  <2>5. exp'[e] = x
    BY <1>5, <2>2, <2>4
  <2>6. exp[e].cursor \in Nat /\ R = {r \in data[u].rows : r <= exp[e].cursor}
    BY <1>4, <2>1, <2>3
  <2>7. Cardinality(R) = exp[e].seen
    <3>1. exp[e].results \in SUBSET data[u].rows /\ exp[e].cursor \notin exp[e].results
      BY <1>4, <2>1
    <3>2. IsFiniteSet(exp[e].results)
      BY <1>4, <3>1, FS_Subset
    <3> QED BY <2>1, <2>3, <3>1, <3>2, FS_AddElement
  <2>8. Progress(e, u)'
    BY <1>1, <2>1, <2>4, <2>5, <2>6, <2>7 DEF Progress
  <2> QED BY <1>1, <1>2, <1>3, <2>2, <2>4, <2>8, ReachedMoves
<1> QED BY <1>6, <1>7, <1>8 DEF Run

LEMMA ReachedStep ==
  ASSUME OInv, TInv, WInv, RInv, [Next]_vars PROVE RInv'
<1>1. CASE UNCHANGED vars
  BY <1>1, ReachedAnyway DEF vars, importVars, inputVars
<1> QED
  BY <1>1, ReachedImport, ReachedRequest, ReachedRun, ReachedCrash DEF Next

\* ExperimentInputs' ResultsFitInputs, both halves: besides the text, an
\* experiment that ends has succeeded and has as many results as the
\* samples it counted at its creation, unless samples were being deleted then.
THEOREM ResultsReached == Spec => []ResultsFitInputs
<1>1. RInv => TotalIsReached
  <2> SUFFICES ASSUME RInv, Calm, NEW e \in Experiments, exp[e].pc \in {"success", "failed"}
               PROVE  exp[e].pc = "success" /\ Cardinality(exp[e].results) = exp[e].total
    BY DEF TotalIsReached, Calm
  <2>1. PICK u \in Uploads : RunsOver(e, u)
    BY DEF RInv
  <2>2. exp[e].pc = "success" /\ exp[e].results = data[u].rows /\ exp[e].total = data[u].count
    BY <2>1 DEF RunsOver, Progress
  <2>3. Held(u) /\ data[u].exists
    BY <2>1, <2>2 DEF Held, RunsOver
  <2> QED BY <2>2, <2>3, HeldIsWhole
<1>2. RInv /\ TextIsFixed => ResultsFitInputs
  BY <1>1 DEF ResultsFitInputs
<1> QED
  BY OwnedInitially, OwnedStep, FixedInitially, FixedStep, WholeInitially, WholeStep,
     ReachedInitially, ReachedStep, TextFixed, <1>2, PTL DEF Spec
=============================================================================
