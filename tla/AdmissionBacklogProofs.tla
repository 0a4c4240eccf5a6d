----------------------- MODULE AdmissionBacklogProofs -----------------------
(***************************************************************************)
(* Proofs about AdmissionBacklog, for any number of jobs, keys, workflows, *)
(* dispatchers and faults.                                                 *)
(***************************************************************************)
EXTENDS AdmissionBacklog, SequenceTheorems, WellFoundedInduction, TLAPS

-----------------------------------------------------------------------------
(* Lists: LREM of one job.                                                  *)

LEMMA MinIsLeast ==
  ASSUME NEW I \in SUBSET Nat, I # {}
  PROVE  Min(I) \in I /\ \A i \in I : Min(I) <= i
<1> DEFINE R == OpToRel(<, Nat)
<1>1. IsWellFoundedOn(R, Nat)
  BY NatLessThanWellFounded
<1> HIDE DEF R
<1>2. PICK x \in I : \A y \in I : ~(<<y, x>> \in R)
  BY <1>1, WFMin
<1>3. \A y \in I : x <= y
  <2> SUFFICES ASSUME NEW y \in I, y < x PROVE FALSE
    OBVIOUS
  <2>1. <<y, x>> \in R
    BY DEF R, OpToRel
  <2> QED BY <1>2, <2>1
<1> QED BY <1>3 DEF Min

LEMMA RemoveFirstShape ==
  ASSUME NEW S, NEW s \in Seq(S), NEW e
  PROVE  RemoveFirst(s, e) \in Seq(S)
<1>1. CASE \E i \in 1..Len(s) : s[i] = e
  <2> DEFINE I == {i \in 1..Len(s) : s[i] = e}
  <2>1. I # {} /\ I \in SUBSET Nat
    BY <1>1
  <2>2. Min(I) \in I
    BY <2>1, MinIsLeast
  <2> DEFINE m == Min(I)
  <2>3. SelectInSeq(s, LAMBDA v : v = e) = m
    BY <2>1 DEF SelectInSeq
  <2> HIDE DEF m
  <2>4. RemoveFirst(s, e) = SubSeq(s, 1, m - 1) \o SubSeq(s, m + 1, Len(s))
    BY <1>1, <2>3 DEF RemoveFirst, RemoveAt
  <2>5. m \in 1..Len(s)
    BY <2>2 DEF m
  <2>6. /\ SubSeq(s, 1, m - 1) \in Seq(S)
        /\ SubSeq(s, m + 1, Len(s)) \in Seq(S)
    BY <2>5
  <2> QED BY <2>4, <2>6, ConcatProperties
<1>2. CASE ~ \E i \in 1..Len(s) : s[i] = e
  BY <1>2 DEF RemoveFirst
<1> QED BY <1>1, <1>2

LEMMA RemoveHead ==
  ASSUME NEW S, NEW s \in Seq(S), s # <<>>, NEW e, e = Head(s)
  PROVE  RemoveFirst(s, e) = Tail(s)
<1> DEFINE I == {i \in 1..Len(s) : s[i] = e}
<1>1. 1 \in 1..Len(s) /\ s[1] = e
  BY EmptySeq
<1>2. 1 \in I /\ I \in SUBSET Nat /\ \A i \in I : 1 <= i
  BY <1>1
<1>3. Min(I) = 1
  <2> HIDE DEF I
  <2>1. Min(I) \in I /\ Min(I) <= 1
    BY <1>2, MinIsLeast
  <2>2. Min(I) \in Nat /\ 1 <= Min(I)
    BY <1>2, <2>1
  <2> QED BY <2>1, <2>2
<1>4. SelectInSeq(s, LAMBDA v : v = e) = 1
  BY <1>2, <1>3 DEF SelectInSeq
<1>5. RemoveFirst(s, e) = SubSeq(s, 1, 1 - 1) \o SubSeq(s, 1 + 1, Len(s))
  BY <1>1, <1>4 DEF RemoveFirst, RemoveAt
<1>6. SubSeq(s, 1, 0) = <<>>
  BY SubSeqEmpty
<1>7. SubSeq(s, 2, Len(s)) = Tail(s) /\ Tail(s) \in Seq(S)
  BY TailIsSubSeq, HeadTailProperties
<1>8. <<>> \o Tail(s) = Tail(s)
  BY <1>7, ConcatEmptySeq
<1> QED BY <1>5, <1>6, <1>7, <1>8

-----------------------------------------------------------------------------
(* Shape.  A loop that has taken a key or a job holds one.                  *)

DispatcherHolds ==
    \A d \in Dispatchers :
       /\ disp[d].pc \notin {"idle", "due", "keys"} => disp[d].key \in Keys
       /\ disp[d].pc \in {"fetch", "pop", "check", "reserve", "add", "mark"} => disp[d].job \in Jobs

CleanupHolds ==
    \A w \in Workflows :
       wf[w].pc \in {"multi", "llen", "rezadd", "remove", "undedupe"} => wf[w].job \in Jobs

Shape == TypeOK /\ DispatcherHolds /\ CleanupHolds

LEMMA InitShape == Init => Shape
<1> USE BacklogAssumption DEF Init
<1>1. IdleDispatcher \in DispatcherType /\ IdleWorkflow \in CleanupType
  BY DEF IdleDispatcher, DispatcherType, IdleWorkflow, CleanupType
<1>2. Init => TypeOK
  BY <1>1, EmptySeq DEF TypeOK, BullStates
<1>3. Init => DispatcherHolds /\ CleanupHolds
  BY DEF DispatcherHolds, CleanupHolds, IdleDispatcher, IdleWorkflow
<1> QED BY <1>2, <1>3 DEF Shape

\* A dispatcher whose new locals have their shape.
LEMMA DispatcherMoves ==
  ASSUME Shape, NEW d \in Dispatchers, NEW r \in DispatcherType,
         r.pc \notin {"idle", "due", "keys"} => r.key \in Keys,
         r.pc \in {"fetch", "pop", "check", "reserve", "add", "mark"} => r.job \in Jobs,
         disp' = [disp EXCEPT ![d] = r]
  PROVE  disp' \in [Dispatchers -> DispatcherType] /\ DispatcherHolds'
<1>1. disp' \in [Dispatchers -> DispatcherType]
  BY DEF Shape, TypeOK
<1>2. \A e \in Dispatchers : disp'[e] = IF e = d THEN r ELSE disp[e]
  BY DEF Shape, TypeOK
<1> QED BY <1>1, <1>2 DEF Shape, DispatcherHolds

LEMMA CleanupMoves ==
  ASSUME Shape, NEW w \in Workflows, NEW r \in CleanupType,
         r.pc \in {"multi", "llen", "rezadd", "remove", "undedupe"} => r.job \in Jobs,
         wf' = [wf EXCEPT ![w] = r]
  PROVE  wf' \in [Workflows -> CleanupType] /\ CleanupHolds'
<1>1. wf' \in [Workflows -> CleanupType]
  BY DEF Shape, TypeOK
<1>2. \A v \in Workflows : wf'[v] = IF v = w THEN r ELSE wf[v]
  BY DEF Shape, TypeOK
<1> QED BY <1>1, <1>2 DEF Shape, CleanupHolds

\* A step of the loop that changes only the locals named in r, and one that
\* goes on with the same key and job.
LEMMA LoopStep ==
  ASSUME Shape, NEW d \in Dispatchers, NEW r \in DispatcherType,
         r.pc \notin {"idle", "due", "keys"} => r.key \in Keys,
         r.pc \in {"fetch", "pop", "check", "reserve", "add", "mark"} => r.job \in Jobs,
         disp' = [disp EXCEPT ![d] = r],
         dedupe' \in [Jobs -> {"none", "pending", "ready"}], doc' \subseteq Jobs,
         list' \in [Keys -> Seq(Jobs)], sched' \in [Keys -> {"none", "due", "later"}],
         bull' \in [Jobs -> BullStates], leader' \in Dispatchers \cup {None},
         UNCHANGED <<wfVars, accepted>>, added' \in [Jobs -> Nat], faults' \in 0..MaxFaults
  PROVE  Shape'
<1>1. DispatcherHolds' /\ disp' \in [Dispatchers -> DispatcherType]
  BY DispatcherMoves
<1>2. TypeOK'
  BY <1>1 DEF Shape, TypeOK, wfVars
<1>3. CleanupHolds'
  BY DEF Shape, CleanupHolds, wfVars
<1> QED BY <1>1, <1>2, <1>3 DEF Shape

LEMMA LoopGoes ==
  ASSUME Shape, NEW d \in Dispatchers,
         NEW p \in {"idle", "due", "keys", "head", "unschedule", "fetch", "pop", "check",
                    "reserve", "add", "defer", "mark"},
         p \notin {"idle", "due", "keys"} => disp[d].key \in Keys,
         p \in {"fetch", "pop", "check", "reserve", "add", "mark"} => disp[d].job \in Jobs,
         Goto(d, p),
         dedupe' \in [Jobs -> {"none", "pending", "ready"}], doc' \subseteq Jobs,
         list' \in [Keys -> Seq(Jobs)], sched' \in [Keys -> {"none", "due", "later"}],
         bull' \in [Jobs -> BullStates], leader' \in Dispatchers \cup {None},
         UNCHANGED <<wfVars, accepted>>, added' \in [Jobs -> Nat], faults' \in 0..MaxFaults
  PROVE  Shape'
<1> DEFINE r == [disp[d] EXCEPT !.pc = p]
<1>1. disp[d] \in DispatcherType
  BY DEF Shape, TypeOK
<1>2. r \in DispatcherType /\ r.pc = p /\ r.key = disp[d].key /\ r.job = disp[d].job
  BY <1>1 DEF DispatcherType
<1>3. disp' = [disp EXCEPT ![d] = r]
  BY DEF Goto
<1> HIDE DEF r
<1> QED BY <1>2, <1>3, LoopStep

\* One more fault stays below the bound.
LEMMA FaultCounted == TypeOK /\ faults < MaxFaults => faults + 1 \in 0..MaxFaults
BY BacklogAssumption DEF TypeOK

LEMMA DispatcherShape ==
  ASSUME Shape, NEW d \in Dispatchers,
         Dispatch(d) \/ Granted(d) \/ Refused(d) \/ AddFails(d) \/ MarkFails(d) \/ Abort(d)
  PROVE  Shape'
<1>0. TypeOK /\ DispatcherHolds /\ disp[d] \in DispatcherType
  BY DEF Shape, TypeOK
<1>1. CASE Lead(d)
  BY <1>0, <1>1, LoopGoes DEF Lead, TypeOK, redisVars, history
<1>2. CASE ReadDue(d)
  <2> DEFINE r == [disp[d] EXCEPT !.pc = "keys", !.due = {k \in Keys : sched[k] = "due"}]
  <2>1. r \in DispatcherType /\ r.pc = "keys"
    BY <1>0 DEF DispatcherType
  <2>2. disp' = [disp EXCEPT ![d] = r]
    BY <1>2 DEF ReadDue
  <2> HIDE DEF r
  <2> QED BY <1>0, <1>2, <2>1, <2>2, LoopStep DEF ReadDue, TypeOK, redisVars, history
<1>3. CASE NextKey(d)
  <2>0. IdleDispatcher \in DispatcherType /\ IdleDispatcher.pc = "idle"
    BY DEF IdleDispatcher, DispatcherType
  <2>1. PICK r \in DispatcherType :
           /\ disp' = [disp EXCEPT ![d] = r]
           /\ r.pc \in {"head", "idle"} /\ (r.pc = "head" => r.key \in Keys)
    <3>1. CASE \E k \in disp[d].due :
                  disp' = [disp EXCEPT ![d].pc = "head", ![d].key = k, ![d].due = @ \ {k}]
      <4>1. PICK k \in disp[d].due :
                  disp' = [disp EXCEPT ![d].pc = "head", ![d].key = k, ![d].due = @ \ {k}]
        BY <3>1
      <4> DEFINE r == [disp[d] EXCEPT !.pc = "head", !.key = k, !.due = @ \ {k}]
      <4>2. k \in Keys /\ r \in DispatcherType /\ r.pc = "head" /\ r.key = k
        BY <1>0 DEF DispatcherType
      <4>3. disp' = [disp EXCEPT ![d] = r]
        BY <4>1
      <4> HIDE DEF r
      <4> QED BY <4>2, <4>3
    <3>2. CASE disp' = [disp EXCEPT ![d] = IdleDispatcher]
      BY <2>0, <3>2
    <3> QED BY <1>3, <3>1, <3>2 DEF NextKey
  <2> QED BY <1>0, <1>3, <2>1, LoopStep DEF NextKey, TypeOK, redisVars, history
<1>4. CASE PeekHead(d)
  <2> DEFINE l == list[disp[d].key]
             r == IF l = <<>> THEN [disp[d] EXCEPT !.pc = "unschedule"]
                  ELSE [disp[d] EXCEPT !.pc = "fetch", !.job = Head(l)]
  <2>1. disp[d].key \in Keys
    BY <1>0, <1>4 DEF DispatcherHolds, PeekHead, At
  <2>2. l \in Seq(Jobs) /\ (l # <<>> => Head(l) \in Jobs)
    BY <1>0, <2>1, HeadTailProperties DEF TypeOK
  <2>3. /\ r \in DispatcherType /\ r.pc \in {"unschedule", "fetch"} /\ r.key \in Keys
        /\ r.pc = "fetch" => r.job \in Jobs
    BY <1>0, <2>1, <2>2 DEF DispatcherType
  <2>4. disp' = [disp EXCEPT ![d] = r]
    BY <1>4 DEF PeekHead
  <2> HIDE DEF r
  <2> QED BY <1>0, <1>4, <2>3, <2>4, LoopStep DEF PeekHead, TypeOK, redisVars, history
<1>5. CASE Unschedule(d)
  BY <1>0, <1>5, LoopGoes DEF Unschedule, TypeOK, history
<1>6. CASE FetchDoc(d)
  BY <1>0, <1>6, LoopGoes DEF FetchDoc, At, DispatcherHolds, TypeOK, redisVars, history
<1>7. CASE PopHead(d)
  <2>1. disp[d].key \in Keys
    BY <1>0, <1>7 DEF PopHead, At, DispatcherHolds
  <2>2. list' \in [Keys -> Seq(Jobs)]
    BY <1>0, <1>7, <2>1, HeadTailProperties DEF PopHead, TypeOK
  <2> QED BY <1>0, <1>7, <2>1, <2>2, LoopGoes DEF PopHead, TypeOK, history
<1>8. CASE CheckExisting(d)
  BY <1>0, <1>8, LoopGoes DEF CheckExisting, At, DispatcherHolds, TypeOK, redisVars, history
<1>9. CASE Granted(d)
  BY <1>0, <1>9, LoopGoes DEF Granted, At, DispatcherHolds, TypeOK, redisVars, history
<1>10. CASE Refused(d)
  BY <1>0, <1>10, LoopGoes DEF Refused, At, DispatcherHolds, TypeOK, redisVars, history
<1>11. CASE Defer(d)
  BY <1>0, <1>11, LoopGoes DEF Defer, TypeOK, history
<1>12. CASE AddReady(d)
  <2>1. CASE Known(disp[d].job)
    BY <1>0, <1>12, <2>1, LoopGoes DEF AddReady, At, DispatcherHolds, TypeOK, redisVars
  <2>2. CASE ~Known(disp[d].job)
    <3>1. bull' \in [Jobs -> BullStates]
      BY <1>0, <1>12, <2>2 DEF AddReady, TypeOK, BullStates
    <3>2. added' \in [Jobs -> Nat]
      BY <1>0, <1>12, <2>2 DEF AddReady, TypeOK
    <3> QED BY <1>0, <1>12, <3>1, <3>2, LoopGoes DEF AddReady, At, DispatcherHolds, TypeOK, redisVars
  <2> QED BY <2>1, <2>2
<1>13. CASE AddFails(d)
  BY <1>0, <1>13, FaultCounted, LoopGoes DEF AddFails, At, DispatcherHolds, TypeOK, redisVars
<1>14. CASE MarkReady(d)
  <2>1. disp[d].key \in Keys
    BY <1>0, <1>14 DEF MarkReady, At, DispatcherHolds
  <2>2. Left(list[disp[d].key], disp[d].job) \in Seq(Jobs)
    BY <1>0, <2>1, RemoveFirstShape DEF Left, TypeOK
  <2>3. list' \in [Keys -> Seq(Jobs)] /\ sched' \in [Keys -> {"none", "due", "later"}]
    BY <1>0, <1>14, <2>2 DEF MarkReady, TypeOK, Scheduled
  <2>4. doc' \subseteq Jobs /\ dedupe' \in [Jobs -> {"none", "pending", "ready"}]
    BY <1>0, <1>14 DEF MarkReady, TypeOK
  <2> QED BY <1>0, <1>14, <2>3, <2>4, LoopGoes DEF MarkReady, TypeOK, history
<1>15. CASE MarkFails(d)
  BY <1>0, <1>15, FaultCounted, LoopGoes DEF MarkFails, TypeOK, redisVars
<1>16. CASE Abort(d)
  <2>1. IdleDispatcher \in DispatcherType /\ IdleDispatcher.pc = "idle"
    BY DEF IdleDispatcher, DispatcherType
  <2> QED BY <1>0, <1>16, <2>1, FaultCounted, LoopStep DEF Abort, TypeOK, redisVars
<1> QED BY <1>1, <1>2, <1>3, <1>4, <1>5, <1>6, <1>7, <1>8, <1>9, <1>10, <1>11, <1>12, <1>13,
           <1>14, <1>15, <1>16 DEF Dispatch

\* A step of a cleanup that leaves the locals r behind, and one that goes on
\* with the same job.
LEMMA CleanupStep ==
  ASSUME Shape, NEW w \in Workflows, NEW r \in CleanupType,
         r.pc \in {"multi", "llen", "rezadd", "remove", "undedupe"} => r.job \in Jobs,
         wf' = [wf EXCEPT ![w] = r],
         dedupe' \in [Jobs -> {"none", "pending", "ready"}], doc' \subseteq Jobs,
         list' \in [Keys -> Seq(Jobs)], sched' \in [Keys -> {"none", "due", "later"}],
         bull' \in [Jobs -> BullStates], awaited' \subseteq Jobs, stopping' \subseteq Cleaners,
         UNCHANGED <<leader, disp, history>>
  PROVE  Shape'
<1>1. CleanupHolds' /\ wf' \in [Workflows -> CleanupType]
  BY CleanupMoves
<1>2. TypeOK'
  BY <1>1 DEF Shape, TypeOK, history
<1>3. DispatcherHolds'
  BY DEF Shape, DispatcherHolds
<1> QED BY <1>1, <1>2, <1>3 DEF Shape

LEMMA CleanupShape ==
  ASSUME Shape, NEW w \in Workflows, StartCleanup(w) \/ Cleanup(w)
  PROVE  Shape'
<1>0. TypeOK /\ CleanupHolds /\ wf[w] \in CleanupType
  BY DEF Shape, TypeOK
<1>00. IdleWorkflow \in CleanupType /\ IdleWorkflow.pc = "idle"
  BY DEF IdleWorkflow, CleanupType
<1>1. CASE StartCleanup(w)
  <2> DEFINE r == [IdleWorkflow EXCEPT !.pc = "pending", !.todo = AwaitedBy(w)]
  <2>1. r \in CleanupType /\ r.pc = "pending"
    BY <1>0, <1>00 DEF CleanupType, AwaitedBy, TypeOK
  <2>2. wf' = [wf EXCEPT ![w] = r]
    BY <1>1 DEF StartCleanup
  <2> HIDE DEF r
  <2> QED BY <1>0, <1>1, <2>1, <2>2, CleanupStep DEF StartCleanup, TypeOK, redisVars
<1>2. CASE ReadDoc(w)
  <2> DEFINE c(j) == [wf[w] EXCEPT !.todo = @ \ {j}]
             r(j) == IF j \in doc THEN [c(j) EXCEPT !.pc = "multi", !.job = j]
                     ELSE [c(j) EXCEPT !.rest = @ \cup {j}]
  <2>1. PICK j \in wf[w].todo : wf' = [wf EXCEPT ![w] = r(j)]
    BY <1>2 DEF ReadDoc
  <2>2. j \in Jobs
    BY <1>0 DEF CleanupType
  <2>3. r(j) \in CleanupType /\ ((r(j).pc = "multi" /\ r(j).job = j) \/ r(j).pc = "pending")
    BY <1>0, <1>2, <2>2 DEF CleanupType, ReadDoc, InCleanup
  <2> HIDE DEF r
  <2> QED BY <1>0, <1>2, <2>1, <2>2, <2>3, CleanupStep DEF ReadDoc, TypeOK, redisVars
<1>3. CASE RemovePending(w)
  <2>1. wf[w].job \in Jobs
    BY <1>0, <1>3 DEF RemovePending, InCleanup, CleanupHolds
  <2> DEFINE r == [wf[w] EXCEPT !.pc = "llen"]
  <2>2. r \in CleanupType /\ r.job \in Jobs
    BY <1>0, <2>1 DEF CleanupType
  <2>3. wf' = [wf EXCEPT ![w] = r]
    BY <1>3 DEF RemovePending
  <2>4. list' \in [Keys -> Seq(Jobs)]
    BY <1>0, <1>3, RemoveFirstShape DEF RemovePending, TypeOK
  <2> HIDE DEF r
  <2> QED BY <1>0, <1>3, <2>2, <2>3, <2>4, CleanupStep DEF RemovePending, TypeOK
<1>4. CASE ReadLength(w)
  <2>1. wf[w].job \in Jobs /\ KeyOf[wf[w].job] \in Keys
    BY <1>0, <1>4, BacklogAssumption DEF ReadLength, InCleanup, CleanupHolds
  <2> DEFINE r == [wf[w] EXCEPT !.pc = "rezadd", !.remaining = Len(list[KeyOf[wf[w].job]])]
  <2>2. r \in CleanupType /\ r.job \in Jobs
    BY <1>0, <2>1, LenProperties DEF CleanupType, TypeOK
  <2>3. wf' = [wf EXCEPT ![w] = r]
    BY <1>4 DEF ReadLength
  <2> HIDE DEF r
  <2> QED BY <1>0, <1>4, <2>2, <2>3, CleanupStep DEF ReadLength, TypeOK, redisVars
<1>5. CASE RescheduleKey(w)
  <2>1. wf[w].job \in Jobs
    BY <1>0, <1>5 DEF RescheduleKey, InCleanup, CleanupHolds
  <2> DEFINE r == [wf[w] EXCEPT !.pc = "pending", !.remaining = 0, !.gone = @ \cup {wf[w].job}]
  <2>2. r \in CleanupType /\ r.pc = "pending"
    BY <1>0, <2>1 DEF CleanupType
  <2>3. wf' = [wf EXCEPT ![w] = r]
    BY <1>5 DEF RescheduleKey
  <2>4. list' \in [Keys -> Seq(Jobs)] /\ sched' \in [Keys -> {"none", "due", "later"}]
    <3>1. <<>> \in Seq(Jobs)
      BY EmptySeq
    <3>2. CASE wf[w].remaining > 0
      <4>1. wf[w].remaining # 0
        BY <1>0, <3>2 DEF CleanupType
      <4>2. sched' = [sched EXCEPT ![KeyOf[wf[w].job]] = "due"] /\ list' = list
        BY <1>5, <4>1 DEF RescheduleKey
      <4> QED BY <1>0, <4>2 DEF TypeOK
    <3>3. CASE wf[w].remaining = 0
      BY <1>0, <1>5, <3>1, <3>3 DEF RescheduleKey, TypeOK
    <3> QED BY <1>5, <3>2, <3>3 DEF RescheduleKey
  <2> HIDE DEF r
  <2> QED BY <1>0, <1>5, <2>2, <2>3, <2>4, CleanupStep DEF RescheduleKey, TypeOK
<1>6. CASE StartBullPhase(w)
  <2> DEFINE r == [wf[w] EXCEPT !.pc = "bull"]
  <2>2. r \in CleanupType /\ r.pc = "bull"
    BY <1>0 DEF CleanupType
  <2>3. wf' = [wf EXCEPT ![w] = r]
    BY <1>6 DEF StartBullPhase
  <2> HIDE DEF r
  <2> QED BY <1>0, <1>6, <2>2, <2>3, CleanupStep DEF StartBullPhase, TypeOK, redisVars
<1>7. CASE InspectBull(w)
  <2> DEFINE c(j) == [wf[w] EXCEPT !.rest = @ \ {j}]
             r(j) == CASE bull[j] = "absent" -> [c(j) EXCEPT !.gone = @ \cup {j}]
                       [] bull[j] = "active" -> c(j)
                       [] OTHER -> [c(j) EXCEPT !.pc = "remove", !.job = j,
                                                !.terminal = (bull[j] = "terminal")]
  <2>1. PICK j \in wf[w].rest : wf' = [wf EXCEPT ![w] = r(j)]
    BY <1>7 DEF InspectBull
  <2>2. j \in Jobs
    BY <1>0 DEF CleanupType
  <2>3. c(j) \in CleanupType /\ c(j).pc = "bull"
    BY <1>0, <1>7, <2>2 DEF CleanupType, InspectBull, InCleanup
  <2>4. r(j) \in CleanupType /\ ((r(j).pc = "remove" /\ r(j).job = j) \/ r(j).pc = "bull")
    <3> HIDE DEF c
    <3>1. CASE bull[j] = "absent"
      BY <2>2, <2>3, <3>1 DEF CleanupType
    <3>2. CASE bull[j] = "active"
      BY <2>3, <3>2
    <3>3. CASE bull[j] \notin {"absent", "active"}
      BY <2>2, <2>3, <3>3 DEF CleanupType
    <3> QED BY <3>1, <3>2, <3>3
  <2> HIDE DEF r
  <2> QED BY <1>0, <1>7, <2>1, <2>2, <2>4, CleanupStep DEF InspectBull, TypeOK, redisVars
<1>8. CASE RemoveBull(w)
  <2>1. wf[w].job \in Jobs
    BY <1>0, <1>8 DEF RemoveBull, InCleanup, CleanupHolds
  <2>2. \A p \in {"bull", "undedupe"} :
          /\ [wf[w] EXCEPT !.pc = p] \in CleanupType
          /\ [wf[w] EXCEPT !.pc = p].job = wf[w].job
    BY <1>0 DEF CleanupType
  <2>3. bull' \in [Jobs -> BullStates]
    BY <1>0, <1>8 DEF RemoveBull, TypeOK, BullStates
  <2>4. PICK p \in {"bull", "undedupe"} : wf' = [wf EXCEPT ![w] = [wf[w] EXCEPT !.pc = p]]
    BY <1>8 DEF RemoveBull
  <2> QED BY <1>0, <1>8, <2>1, <2>2, <2>3, <2>4, CleanupStep DEF RemoveBull, TypeOK, redisVars
<1>9. CASE ClearDedupe(w)
  <2>1. wf[w].job \in Jobs
    BY <1>0, <1>9 DEF ClearDedupe, InCleanup, CleanupHolds
  <2>2. PICK r \in CleanupType : wf' = [wf EXCEPT ![w] = r] /\ r.pc = "bull"
    <3> DEFINE r1 == [wf[w] EXCEPT !.pc = "bull"]
               r2 == [wf[w] EXCEPT !.pc = "bull", !.gone = @ \cup {wf[w].job}]
    <3>1. r1 \in CleanupType /\ r1.pc = "bull" /\ r2 \in CleanupType /\ r2.pc = "bull"
      BY <1>0, <2>1 DEF CleanupType
    <3>2. wf' = [wf EXCEPT ![w] = r1] \/ wf' = [wf EXCEPT ![w] = r2]
      BY <1>9 DEF ClearDedupe
    <3> HIDE DEF r1, r2
    <3> QED BY <3>1, <3>2
  <2>3. dedupe' \in [Jobs -> {"none", "pending", "ready"}] /\ awaited' \subseteq Jobs
    BY <1>0, <1>9 DEF ClearDedupe, TypeOK
  <2> QED BY <1>0, <1>9, <2>2, <2>3, CleanupStep DEF ClearDedupe, TypeOK
<1>10. CASE EndCleanup(w)
  BY <1>0, <1>00, <1>10, CleanupStep DEF EndCleanup, TypeOK, redisVars
<1>11. CASE Stopped(w)
  <2>1. TypeOK'
    BY <1>0, <1>11 DEF Stopped, TypeOK, redisVars, history
  <2>2. DispatcherHolds' /\ CleanupHolds'
    BY <1>11 DEF Shape, Stopped, DispatcherHolds, CleanupHolds
  <2> QED BY <2>1, <2>2 DEF Shape
<1> QED BY <1>1, <1>2, <1>3, <1>4, <1>5, <1>6, <1>7, <1>8, <1>9, <1>10, <1>11 DEF Cleanup

\* The steps of producers, workers and clocks leave the two loops alone.
LEMMA OtherShape ==
  ASSUME Shape,
         \/ \E j \in Jobs : Enqueue(j) \/ Settle(j) \/ StartJob(j) \/ EndJob(j)
         \/ \E k \in Keys : KeyBecomesDue(k)
         \/ LeaderExpires
  PROVE  Shape'
<1>0. TypeOK
  BY DEF Shape
<1>1. ASSUME NEW j \in Jobs, Enqueue(j) PROVE Shape'
  <2>1. CASE Accepts(j)
    <3>1. KeyOf[j] \in Keys
      BY BacklogAssumption
    <3>2. list' \in [Keys -> Seq(Jobs)]
      <4>1. list' = [list EXCEPT ![KeyOf[j]] = Append(@, j)]
        BY <1>1, <2>1 DEF Enqueue, Accepts, Pushed
      <4>2. Append(list[KeyOf[j]], j) \in Seq(Jobs)
        BY <1>0, <3>1, AppendProperties DEF TypeOK
      <4> QED BY <1>0, <4>1, <4>2 DEF TypeOK
    <3>3. accepted' \in [Jobs -> 0..MaxAccepts]
      <4>1. accepted' = [accepted EXCEPT ![j] = @ + 1] /\ accepted[j] < MaxAccepts
        BY <1>1, <2>1 DEF Enqueue, Accepts
      <4>2. accepted[j] + 1 \in 0..MaxAccepts
        BY <1>0, <4>1, BacklogAssumption DEF TypeOK
      <4> QED BY <1>0, <4>1, <4>2 DEF TypeOK
    <3>4. TypeOK'
      BY <1>0, <1>1, <2>1, <3>2, <3>3 DEF Enqueue, Accepts, TypeOK
    <3> QED BY <1>1, <3>4 DEF Shape, Enqueue, DispatcherHolds, CleanupHolds
  <2>2. CASE ~Accepts(j)
    BY <1>0, <1>1, <2>2 DEF Shape, TypeOK, Enqueue, redisVars, DispatcherHolds, CleanupHolds
  <2> QED BY <2>1, <2>2
<1>2. ASSUME NEW j \in Jobs, Settle(j) PROVE Shape'
  BY <1>0, <1>2 DEF Shape, TypeOK, Settle, redisVars, history, DispatcherHolds, CleanupHolds
<1>3. ASSUME NEW j \in Jobs, StartJob(j) \/ EndJob(j) PROVE Shape'
  <2>1. bull' \in [Jobs -> BullStates]
    BY <1>0, <1>3 DEF TypeOK, StartJob, EndJob, BullStates
  <2>2. UNCHANGED <<redisVars, leader, disp, wfVars, history>>
    BY <1>3 DEF StartJob, EndJob
  <2> QED BY <1>0, <2>1, <2>2 DEF Shape, TypeOK, redisVars, wfVars, history, DispatcherHolds, CleanupHolds
<1>4. ASSUME NEW k \in Keys, KeyBecomesDue(k) PROVE Shape'
  BY <1>0, <1>4 DEF Shape, TypeOK, KeyBecomesDue, wfVars, history, DispatcherHolds, CleanupHolds
<1>5. CASE LeaderExpires
  BY <1>0, <1>5 DEF Shape, TypeOK, LeaderExpires, redisVars, wfVars, history, DispatcherHolds, CleanupHolds
<1> QED BY <1>1, <1>2, <1>3, <1>4, <1>5

LEMMA ShapeStays == Shape /\ [Next]_vars => Shape'
<1> SUFFICES ASSUME Shape, [Next]_vars PROVE Shape'
  OBVIOUS
<1>1. CASE UNCHANGED vars
  BY <1>1 DEF Shape, TypeOK, DispatcherHolds, CleanupHolds, vars, redisVars, wfVars, history
<1> QED BY <1>1, DispatcherShape, CleanupShape, OtherShape DEF Next

\* The keys, lists and queues of the backlog keep their shape, and a dispatcher
\* or a cleanup that goes on with a key or a job has one.
THEOREM TypeCorrect == Spec => []TypeOK
<1>1. Shape => TypeOK
  BY DEF Shape
<1> QED BY <1>1, InitShape, ShapeStays, PTL DEF Spec

-----------------------------------------------------------------------------
(* One handover for each acceptance.                                        *)

\* The leader key does its work: no dispatcher begins a tick before another
\* one has ended its own.
OneTick ==
    \A c, d \in Dispatchers : disp[c].pc # "idle" /\ disp[d].pc # "idle" => c = d

\* A dispatcher has read the document of j and may still add j to BullMQ.
Holds(d, j) == disp[d].pc \in {"check", "reserve", "add"} /\ disp[d].job = j
InHand(j) == \E d \in Dispatchers : Holds(d, j)

\* The jobs a cleanup removes from the backlog and from BullMQ, those it will
\* still look at, and those it is done with.
FromBacklog(w) == {j \in {wf[w].job} : wf[w].pc \in {"multi", "llen", "rezadd"}}
FromBull(w) == {j \in {wf[w].job} : wf[w].pc \in {"remove", "undedupe"}}
Ahead(w) == wf[w].todo \cup wf[w].rest \cup FromBull(w)
Behind(w) == wf[w].gone \cup {j \in FromBacklog(w) : wf[w].pc # "multi"}

\* A cleanup looks only at jobs of its own workflow, which enqueues nothing
\* meanwhile, and in BullMQ only for jobs that have no document any more.
CleanupFit(w) ==
    /\ wf[w].pc = "idle" => wf[w] = IdleWorkflow
    /\ wf[w].pc # "idle" => w \in stopping
    /\ \A j \in Ahead(w) \cup FromBacklog(w) : OwnerOf[j] = w
    /\ \A j \in FromBacklog(w) : j \notin wf[w].todo \cup wf[w].rest
    /\ \A j \in wf[w].rest \cup FromBull(w) : j \notin doc

CleanupFits == \A w \in Workflows : CleanupFit(w)

\* A job that a cleanup removed from the backlog while a dispatcher had it in
\* hand is not looked for in BullMQ by that cleanup, nor by a later one.
HandFit(j) ==
    InHand(j) /\ j \notin doc =>
       /\ dedupe[j] = "none"
       /\ j \notin Ahead(OwnerOf[j])
       /\ j \in awaited => j \in Behind(OwnerOf[j])

HandFits == \A j \in Jobs : HandFit(j)

\* What may still be added has been accepted once more than it was added.
Owed == \A j \in Jobs : (j \in doc \/ InHand(j)) /\ ~Known(j) => added[j] < accepted[j]

HandInv == CleanupFits /\ HandFits /\ Owed /\ OneHandoverPerAcceptance

LEMMA InitHand == Init => HandInv
<1> SUFFICES ASSUME Init PROVE HandInv
  OBVIOUS
<1>1. \A j : ~InHand(j)
  BY DEF Init, InHand, Holds, IdleDispatcher
<1>2. CleanupFits
  BY DEF Init, CleanupFits, CleanupFit, Ahead, FromBacklog, FromBull, IdleWorkflow
<1> QED BY <1>1, <1>2 DEF Init, HandInv, HandFits, HandFit, Owed, OneHandoverPerAcceptance

\* A step that takes up no job but one with a document.
LEMMA HandQuiet ==
  ASSUME HandInv,
         \A j \in Jobs : InHand(j)' => InHand(j) \/ j \in doc,
         \A j \in Jobs : Known(j)' = Known(j),
         UNCHANGED <<dedupe, doc, wfVars, accepted, added>>
  PROVE  HandInv'
<1>1. CleanupFits'
  BY DEF HandInv, CleanupFits, CleanupFit, Ahead, FromBacklog, FromBull, wfVars
<1>2. HandFits'
  BY DEF HandInv, HandFits, HandFit, Ahead, Behind, FromBacklog, FromBull, wfVars
<1>3. Owed' /\ OneHandoverPerAcceptance'
  BY DEF HandInv, Owed, OneHandoverPerAcceptance
<1> QED BY <1>1, <1>2, <1>3 DEF HandInv

LEMMA EnqueueHand ==
  ASSUME Shape, HandInv, NEW j \in Jobs, Enqueue(j)
  PROVE  HandInv'
<1>0. TypeOK
  BY DEF Shape
<1>1. \A i : InHand(i)' <=> InHand(i)
  BY DEF Enqueue, InHand, Holds
<1>2. \A w \in Workflows : /\ Ahead(w)' = Ahead(w) /\ Behind(w)' = Behind(w)
                          /\ FromBacklog(w)' = FromBacklog(w) /\ FromBull(w)' = FromBull(w)
  BY DEF Enqueue, Ahead, Behind, FromBacklog, FromBull
<1>3. OwnerOf[j] \in Workflows /\ wf[OwnerOf[j]] = IdleWorkflow
  BY BacklogAssumption DEF HandInv, CleanupFits, CleanupFit, Enqueue
<1>4. CASE Accepts(j)
  <2>1. /\ dedupe' = [dedupe EXCEPT ![j] = "pending"] /\ doc' = doc \cup {j}
        /\ accepted' = [accepted EXCEPT ![j] = @ + 1]
        /\ UNCHANGED <<bull, wf, stopping, added>> /\ awaited' = awaited \cup {j}
    BY <1>4 DEF Enqueue, Accepts
  <2>2. CleanupFits'
    <3> SUFFICES ASSUME NEW w \in Workflows, NEW i \in wf[w].rest \cup FromBull(w)
                 PROVE  i # j
      BY <1>2, <2>1 DEF HandInv, CleanupFits, CleanupFit
    <3>1. wf[w] # IdleWorkflow /\ OwnerOf[i] = w
      BY DEF HandInv, CleanupFits, CleanupFit, Ahead, FromBull, IdleWorkflow
    <3> QED BY <1>3, <3>1
  <2>3. HandFits'
    <3> SUFFICES ASSUME NEW i \in Jobs, InHand(i), i \notin doc'
                 PROVE  /\ dedupe'[i] = "none" /\ i \notin Ahead(OwnerOf[i])'
                        /\ i \in awaited' => i \in Behind(OwnerOf[i])'
      BY <1>1 DEF HandFits, HandFit
    <3>1. i # j /\ i \notin doc /\ OwnerOf[i] \in Workflows
      BY <2>1, BacklogAssumption
    <3> QED BY <1>0, <1>2, <2>1, <3>1 DEF HandInv, HandFits, HandFit, TypeOK
  <2>4. Owed' /\ OneHandoverPerAcceptance'
    <3> SUFFICES ASSUME NEW i \in Jobs
                 PROVE  /\ (i \in doc' \/ InHand(i)) /\ ~Known(i)' => added'[i] < accepted'[i]
                        /\ added'[i] <= accepted'[i]
      BY <1>1 DEF Owed, OneHandoverPerAcceptance
    <3>1. added[i] \in Nat /\ accepted[i] \in Nat
      BY <1>0, BacklogAssumption DEF TypeOK
    <3>2. accepted'[i] = IF i = j THEN accepted[i] + 1 ELSE accepted[i]
      BY <1>0, <2>1 DEF TypeOK
    <3>3. added'[i] = added[i] /\ Known(i)' = Known(i)
      BY <2>1 DEF Known
    <3> QED BY <2>1, <3>1, <3>2, <3>3 DEF HandInv, Owed, OneHandoverPerAcceptance
  <2> QED BY <2>2, <2>3, <2>4 DEF HandInv
<1>5. CASE dedupe[j] # "none" /\ UNCHANGED <<redisVars, accepted>>
  <2>1. CleanupFits'
    BY <1>2, <1>5 DEF Enqueue, redisVars, HandInv, CleanupFits, CleanupFit
  <2>2. HandFits'
    <3> SUFFICES ASSUME NEW i \in Jobs, InHand(i), i \notin doc
                 PROVE  /\ dedupe[i] = "none" /\ i \notin Ahead(OwnerOf[i])
                        /\ i \in awaited' => i \in Behind(OwnerOf[i])
      BY <1>1, <1>2, <1>5, BacklogAssumption DEF HandFits, HandFit, redisVars
    <3>1. i # j
      BY <1>5 DEF HandInv, HandFits, HandFit
    <3> QED BY <3>1 DEF HandInv, HandFits, HandFit, Enqueue
  <2>3. Owed' /\ OneHandoverPerAcceptance'
    BY <1>1, <1>5 DEF Enqueue, redisVars, HandInv, Owed, OneHandoverPerAcceptance, Known
  <2> QED BY <2>1, <2>2, <2>3 DEF HandInv
<1> QED BY <1>4, <1>5 DEF Enqueue


LEMMA SettleHand ==
  ASSUME HandInv, NEW j \in Jobs, Settle(j)
  PROVE  HandInv'
<1>1. \A i : (InHand(i)' <=> InHand(i)) /\ (Known(i)' <=> Known(i))
  BY DEF Settle, InHand, Holds, Known
<1>2. \A w \in Workflows : Ahead(w)' = Ahead(w) /\ Behind(w)' = Behind(w)
  BY DEF Settle, Ahead, Behind, FromBacklog, FromBull
<1>3. CleanupFits'
  BY DEF Settle, redisVars, HandInv, CleanupFits, CleanupFit, Ahead, FromBacklog, FromBull
<1>4. HandFits'
  BY <1>1, <1>2, BacklogAssumption DEF Settle, redisVars, HandInv, HandFits, HandFit
<1>5. Owed' /\ OneHandoverPerAcceptance'
  BY <1>1 DEF Settle, redisVars, history, HandInv, Owed, OneHandoverPerAcceptance
<1> QED BY <1>3, <1>4, <1>5 DEF HandInv

\* What a dispatcher's new locals take up.
LEMMA TakenUp ==
  ASSUME Shape, NEW d \in Dispatchers, NEW r, disp' = [disp EXCEPT ![d] = r],
         \A j \in Jobs : r.pc \in {"check", "reserve", "add"} /\ r.job = j
                           => Holds(d, j) \/ j \in doc
  PROVE  \A j \in Jobs : InHand(j)' => InHand(j) \/ j \in doc
<1>1. \A e \in Dispatchers : disp'[e] = IF e = d THEN r ELSE disp[e]
  BY DEF Shape, TypeOK
<1> QED BY <1>1 DEF InHand, Holds

LEMMA QuietDispatch ==
  ASSUME Shape, HandInv, NEW d \in Dispatchers,
         \/ Lead(d) \/ ReadDue(d) \/ NextKey(d) \/ PeekHead(d) \/ Unschedule(d) \/ FetchDoc(d)
         \/ PopHead(d) \/ CheckExisting(d) \/ Defer(d) \/ Granted(d) \/ Refused(d) \/ AddFails(d)
         \/ MarkFails(d) \/ Abort(d)
  PROVE  HandInv'
<1>1. /\ UNCHANGED <<dedupe, doc, wfVars, accepted, added, bull>>
  BY DEF Lead, ReadDue, NextKey, PeekHead, Unschedule, FetchDoc, PopHead, CheckExisting, Defer,
         Granted, Refused, AddFails, MarkFails, Abort, redisVars, history
<1>2. \A j \in Jobs : Known(j)' = Known(j)
  BY <1>1 DEF Known
<1>3. PICK r : /\ disp' = [disp EXCEPT ![d] = r]
               /\ \/ r.pc \notin {"check", "reserve", "add"}
                  \/ r.job = disp[d].job /\ (disp[d].pc \in {"check", "reserve", "add"} \/ disp[d].job \in doc)
  <2>0. disp[d] \in DispatcherType /\ IdleDispatcher.pc = "idle"
    BY DEF Shape, TypeOK, IdleDispatcher
  <2>1. CASE \/ Lead(d) \/ Unschedule(d) \/ PopHead(d) \/ CheckExisting(d) \/ Defer(d)
             \/ Granted(d) \/ Refused(d) \/ AddFails(d) \/ MarkFails(d) \/ FetchDoc(d)
    <3> DEFINE r(p) == [disp[d] EXCEPT !.pc = p]
    <3>1. \A p : r(p).pc = p /\ r(p).job = disp[d].job
      BY <2>0 DEF DispatcherType
    <3>2. PICK p : /\ Goto(d, p)
                   /\ (p \notin {"check", "reserve", "add"} \/ disp[d].pc \in {"check", "reserve", "add"})
                      \/ disp[d].job \in doc
      BY <2>1 DEF Lead, Unschedule, PopHead, CheckExisting, Defer, Granted, Refused, AddFails,
                  MarkFails, FetchDoc, At
    <3>3. disp' = [disp EXCEPT ![d] = r(p)]
      BY <3>2 DEF Goto
    <3> HIDE DEF r
    <3> QED BY <3>1, <3>2, <3>3
  <2>2. CASE ReadDue(d)
    <3> DEFINE r == [disp[d] EXCEPT !.pc = "keys", !.due = {k \in Keys : sched[k] = "due"}]
    <3>1. disp' = [disp EXCEPT ![d] = r] /\ r.pc = "keys"
      BY <2>0, <2>2 DEF ReadDue, DispatcherType
    <3> HIDE DEF r
    <3> QED BY <3>1
  <2>3. CASE NextKey(d)
    <3>1. CASE \E k \in disp[d].due :
                  disp' = [disp EXCEPT ![d].pc = "head", ![d].key = k, ![d].due = @ \ {k}]
      <4>1. PICK k \in disp[d].due :
                  disp' = [disp EXCEPT ![d].pc = "head", ![d].key = k, ![d].due = @ \ {k}]
        BY <3>1
      <4> DEFINE r == [disp[d] EXCEPT !.pc = "head", !.key = k, !.due = @ \ {k}]
      <4>2. r.pc = "head" /\ disp' = [disp EXCEPT ![d] = r]
        BY <2>0, <4>1 DEF DispatcherType
      <4> HIDE DEF r
      <4> QED BY <4>2
    <3>2. CASE disp' = [disp EXCEPT ![d] = IdleDispatcher]
      BY <2>0, <3>2
    <3> QED BY <2>3, <3>1, <3>2 DEF NextKey
  <2>4. CASE PeekHead(d)
    <3> DEFINE l == list[disp[d].key]
               r == IF l = <<>> THEN [disp[d] EXCEPT !.pc = "unschedule"]
                    ELSE [disp[d] EXCEPT !.pc = "fetch", !.job = Head(l)]
    <3>1. disp' = [disp EXCEPT ![d] = r] /\ r.pc \in {"unschedule", "fetch"}
      BY <2>0, <2>4 DEF PeekHead, DispatcherType
    <3> HIDE DEF r
    <3> QED BY <3>1
  <2>5. CASE Abort(d)
    BY <2>0, <2>5 DEF Abort
  <2> QED BY <2>1, <2>2, <2>3, <2>4, <2>5
<1>4. \A j \in Jobs : r.pc \in {"check", "reserve", "add"} /\ r.job = j => Holds(d, j) \/ j \in doc
  BY <1>3 DEF Holds
<1>5. \A j \in Jobs : InHand(j)' => InHand(j) \/ j \in doc
  BY <1>3, <1>4, TakenUp
<1> QED BY <1>1, <1>2, <1>5, HandQuiet

LEMMA AddHand ==
  ASSUME Shape, HandInv, NEW d \in Dispatchers, AddReady(d)
  PROVE  HandInv'
<1> DEFINE j == disp[d].job
<1>0. TypeOK /\ j \in Jobs /\ InHand(j)
  BY DEF Shape, DispatcherHolds, AddReady, At, InHand, Holds
<1>1. \A i \in Jobs : InHand(i)' => InHand(i)
  <2>1. \A e \in Dispatchers : disp'[e] = IF e = d THEN [disp[d] EXCEPT !.pc = "mark"] ELSE disp[e]
    BY <1>0 DEF AddReady, Goto, TypeOK
  <2>2. [disp[d] EXCEPT !.pc = "mark"].pc = "mark"
    BY <1>0 DEF TypeOK, DispatcherType
  <2> QED BY <2>1, <2>2 DEF InHand, Holds
<1>2. CASE Known(j)
  <2>1. UNCHANGED <<dedupe, doc, wfVars, accepted, added>> /\ \A i \in Jobs : Known(i)' = Known(i)
    BY <1>2 DEF AddReady, redisVars, Known
  <2> QED BY <1>1, <2>1, HandQuiet
<1>3. CASE ~Known(j)
  <2>1. /\ bull' = [bull EXCEPT ![j] = "waiting"] /\ added' = [added EXCEPT ![j] = @ + 1]
        /\ UNCHANGED <<dedupe, doc, wfVars, accepted>>
    BY <1>3 DEF AddReady, redisVars
  <2>2. CleanupFits'
    BY <2>1 DEF HandInv, CleanupFits, CleanupFit, Ahead, FromBacklog, FromBull, wfVars
  <2>3. HandFits'
    BY <1>1, <2>1 DEF HandInv, HandFits, HandFit, Ahead, Behind, FromBacklog, FromBull, wfVars
  <2>4. added[j] < accepted[j]
    BY <1>0, <1>3 DEF HandInv, Owed
  <2>5. Owed' /\ OneHandoverPerAcceptance'
    <3> SUFFICES ASSUME NEW i \in Jobs
                 PROVE  /\ (i \in doc \/ InHand(i)') /\ ~Known(i)' => added'[i] < accepted[i]
                        /\ added'[i] <= accepted[i]
      BY <2>1 DEF Owed, OneHandoverPerAcceptance
    <3>1. added[i] \in Nat /\ accepted[i] \in Nat
      BY <1>0, BacklogAssumption DEF TypeOK
    <3>2. CASE i = j
      <4>1. Known(i)' /\ added'[i] = added[i] + 1
        BY <1>0, <2>1, <3>2 DEF Known, TypeOK
      <4> HIDE DEF j
      <4> QED BY <2>4, <3>1, <3>2, <4>1
    <3>3. CASE i # j
      <4>1. Known(i)' = Known(i) /\ added'[i] = added[i]
        BY <1>0, <2>1, <3>3 DEF Known, TypeOK
      <4> QED BY <1>1, <4>1 DEF HandInv, Owed, OneHandoverPerAcceptance
    <3> QED BY <3>2, <3>3
  <2> QED BY <2>2, <2>3, <2>5 DEF HandInv
<1> QED BY <1>2, <1>3

\* The only step that needs the leader key: nobody else has a job in hand.
LEMMA MarkHand ==
  ASSUME Shape, HandInv, OneTick, NEW d \in Dispatchers, MarkReady(d)
  PROVE  HandInv'
<1>0. TypeOK
  BY DEF Shape
<1>1. \A i : ~InHand(i)'
  <2>1. \A e \in Dispatchers : e # d => disp'[e] = disp[e] /\ disp[e].pc = "idle"
    BY <1>0 DEF OneTick, MarkReady, At, Goto, TypeOK
  <2>2. disp'[d].pc = "keys"
    BY <1>0 DEF MarkReady, Goto, TypeOK, DispatcherType
  <2> QED BY <2>1, <2>2 DEF InHand, Holds
<1>2. doc' \subseteq doc /\ UNCHANGED <<bull, wfVars, accepted, added>>
  BY DEF MarkReady, history
<1>3. CleanupFits'
  BY <1>2 DEF HandInv, CleanupFits, CleanupFit, Ahead, FromBacklog, FromBull, wfVars
<1>4. HandFits'
  BY <1>1 DEF HandFits, HandFit
<1>5. Owed' /\ OneHandoverPerAcceptance'
  BY <1>1, <1>2 DEF HandInv, Owed, OneHandoverPerAcceptance, Known
<1> QED BY <1>3, <1>4, <1>5 DEF HandInv

\* A step of one cleanup: what is left to show is about its own jobs.
LEMMA CleanupHand ==
  ASSUME HandInv, NEW w \in Workflows,
         UNCHANGED <<disp, accepted, added>>,
         \A v \in Workflows : v # w => wf'[v] = wf[v],
         stopping \subseteq stopping', doc' \subseteq doc,
         \A j \in Jobs : OwnerOf[j] # w => /\ dedupe'[j] = dedupe[j]
                                           /\ j \in doc => j \in doc'
                                           /\ j \in awaited' => j \in awaited,
         \A j \in Jobs : j \in doc \/ InHand(j) => Known(j)' = Known(j),
         CleanupFit(w)', \A j \in Jobs : OwnerOf[j] = w => HandFit(j)'
  PROVE  HandInv'
<1>1. \A j : InHand(j)' <=> InHand(j)
  BY DEF InHand, Holds
<1>2. \A v \in Workflows : v # w => /\ Ahead(v)' = Ahead(v) /\ Behind(v)' = Behind(v)
                                    /\ FromBacklog(v)' = FromBacklog(v) /\ FromBull(v)' = FromBull(v)
  BY DEF Ahead, Behind, FromBacklog, FromBull
<1>3. CleanupFits'
  <2> SUFFICES ASSUME NEW v \in Workflows, v # w PROVE CleanupFit(v)'
    BY DEF CleanupFits
  <2> QED BY <1>2 DEF HandInv, CleanupFits, CleanupFit
<1>4. HandFits'
  <2> SUFFICES ASSUME NEW j \in Jobs, OwnerOf[j] # w PROVE HandFit(j)'
    BY DEF HandFits
  <2> QED BY <1>1, <1>2, BacklogAssumption DEF HandInv, HandFits, HandFit
<1>5. Owed' /\ OneHandoverPerAcceptance'
  BY <1>1 DEF HandInv, Owed, OneHandoverPerAcceptance
<1> QED BY <1>3, <1>4, <1>5 DEF HandInv

\* One that looks at fewer jobs than before and is done with more.
LEMMA CleanupNarrows ==
  ASSUME HandInv, NEW w \in Workflows,
         UNCHANGED <<disp, accepted, added, dedupe, doc, bull, awaited, stopping>>,
         \A v \in Workflows : v # w => wf'[v] = wf[v],
         CleanupFit(w)', Ahead(w)' \subseteq Ahead(w), Behind(w) \subseteq Behind(w)'
  PROVE  HandInv'
<1>1. \A j : (InHand(j)' <=> InHand(j)) /\ Known(j)' = Known(j)
  BY DEF InHand, Holds, Known
<1>2. ASSUME NEW j \in Jobs, OwnerOf[j] = w PROVE HandFit(j)'
  BY <1>1, <1>2 DEF HandInv, HandFits, HandFit
<1> QED BY <1>1, <1>2, CleanupHand

LEMMA StartHand ==
  ASSUME Shape, HandInv, NEW w \in Workflows, StartCleanup(w)
  PROVE  HandInv'
<1>0. TypeOK /\ wf[w] = IdleWorkflow
  BY DEF Shape, StartCleanup, InCleanup, HandInv, CleanupFits, CleanupFit
<1> DEFINE r == [IdleWorkflow EXCEPT !.pc = "pending", !.todo = AwaitedBy(w)]
<1>1. /\ r.pc = "pending" /\ r.todo = AwaitedBy(w) /\ r.rest = {} /\ r.gone = {}
  BY DEF IdleWorkflow
<1>2. wf' = [wf EXCEPT ![w] = r]
  BY DEF StartCleanup
<1> HIDE DEF r
<1>3. wf'[w] = r /\ \A v \in Workflows : v # w => wf'[v] = wf[v]
  BY <1>0, <1>2 DEF TypeOK
<1>4. /\ Ahead(w)' = AwaitedBy(w) /\ FromBacklog(w)' = {} /\ FromBull(w)' = {}
      /\ Behind(w) = {}
  <2>1. wf[w].pc = "idle" /\ wf[w].gone = {}
    BY <1>0 DEF IdleWorkflow
  <2> QED BY <1>1, <1>3, <2>1 DEF Ahead, FromBacklog, FromBull, Behind
<1>5. CleanupFit(w)'
  BY <1>1, <1>3, <1>4 DEF CleanupFit, AwaitedBy, StartCleanup
<1>6. \A j : (InHand(j)' <=> InHand(j)) /\ Known(j)' = Known(j)
  BY DEF InHand, Holds, Known, StartCleanup
<1>7. ASSUME NEW j \in Jobs, OwnerOf[j] = w PROVE HandFit(j)'
  BY <1>4, <1>6, <1>7 DEF HandInv, HandFits, HandFit, StartCleanup, redisVars, AwaitedBy
<1> QED BY <1>3, <1>5, <1>6, <1>7, CleanupHand DEF StartCleanup, redisVars, history

LEMMA ReadDocHand ==
  ASSUME Shape, HandInv, NEW w \in Workflows, ReadDoc(w)
  PROVE  HandInv'
<1>0. TypeOK /\ wf[w] \in CleanupType /\ wf[w].pc = "pending" /\ CleanupFit(w)
  BY DEF Shape, TypeOK, ReadDoc, InCleanup, HandInv, CleanupFits
<1> DEFINE c(j) == [wf[w] EXCEPT !.todo = @ \ {j}]
           r(j) == IF j \in doc THEN [c(j) EXCEPT !.pc = "multi", !.job = j]
                   ELSE [c(j) EXCEPT !.rest = @ \cup {j}]
<1>1. PICK j \in wf[w].todo : wf' = [wf EXCEPT ![w] = r(j)]
  BY DEF ReadDoc
<1>2. /\ r(j).pc = IF j \in doc THEN "multi" ELSE "pending"
      /\ j \in doc => r(j).job = j
      /\ r(j).todo = wf[w].todo \ {j} /\ r(j).gone = wf[w].gone
      /\ r(j).rest = IF j \in doc THEN wf[w].rest ELSE wf[w].rest \cup {j}
  BY <1>0 DEF CleanupType
<1> HIDE DEF r
<1>3. wf'[w] = r(j) /\ \A v \in Workflows : v # w => wf'[v] = wf[v]
  BY <1>0, <1>1 DEF TypeOK
<1>4. /\ FromBacklog(w)' = (IF j \in doc THEN {j} ELSE {}) /\ FromBull(w)' = {}
      /\ Ahead(w)' \subseteq Ahead(w) /\ Behind(w) \subseteq Behind(w)'
  BY <1>0, <1>1, <1>2, <1>3 DEF FromBacklog, FromBull, Ahead, Behind
<1>5. CleanupFit(w)'
  <2>1. UNCHANGED <<doc, stopping>>
    BY DEF ReadDoc, redisVars
  <2>2. \A i \in wf[w].rest : i \notin doc
    BY <1>0 DEF CleanupFit
  <2>3. \A i \in Ahead(w)' \cup FromBacklog(w)' : OwnerOf[i] = w
    BY <1>0, <1>1, <1>4 DEF CleanupFit, Ahead
  <2> QED BY <1>0, <1>2, <1>3, <1>4, <2>1, <2>2, <2>3 DEF CleanupFit
<1> QED BY <1>3, <1>4, <1>5, CleanupNarrows DEF ReadDoc, redisVars, history

LEMMA RemovePendingHand ==
  ASSUME Shape, HandInv, NEW w \in Workflows, RemovePending(w)
  PROVE  HandInv'
<1> DEFINE j == wf[w].job
<1>0. TypeOK /\ wf[w] \in CleanupType /\ wf[w].pc = "multi" /\ CleanupFit(w) /\ j \in Jobs
  BY DEF Shape, TypeOK, RemovePending, InCleanup, HandInv, CleanupFits, CleanupHolds
<1> DEFINE r == [wf[w] EXCEPT !.pc = "llen"]
<1>1. /\ r.pc = "llen" /\ r.job = j /\ r.todo = wf[w].todo /\ r.rest = wf[w].rest
      /\ r.gone = wf[w].gone
  BY <1>0 DEF CleanupType
<1>2. wf' = [wf EXCEPT ![w] = r]
  BY DEF RemovePending
<1> HIDE DEF r
<1>3. wf'[w] = r /\ \A v \in Workflows : v # w => wf'[v] = wf[v]
  BY <1>0, <1>2 DEF TypeOK
<1>4. /\ doc' = doc \ {j} /\ dedupe' = [dedupe EXCEPT ![j] = "none"]
      /\ UNCHANGED <<bull, disp, awaited, stopping, history>>
  BY DEF RemovePending
<1>5. /\ FromBacklog(w) = {j} /\ FromBacklog(w)' = {j} /\ FromBull(w) = {} /\ FromBull(w)' = {}
      /\ Ahead(w)' = Ahead(w) /\ Ahead(w) = wf[w].todo \cup wf[w].rest
      /\ Behind(w)' = Behind(w) \cup {j}
  BY <1>0, <1>1, <1>3 DEF FromBacklog, FromBull, Ahead, Behind
<1>6. CleanupFit(w)' /\ OwnerOf[j] = w /\ j \notin Ahead(w)
  BY <1>0, <1>1, <1>3, <1>4, <1>5 DEF CleanupFit
<1> HIDE DEF j
<1>7. \A i : (InHand(i)' <=> InHand(i)) /\ Known(i)' = Known(i)
  BY <1>4 DEF InHand, Holds, Known
<1>8. ASSUME NEW i \in Jobs, OwnerOf[i] = w PROVE HandFit(i)'
  BY <1>0, <1>4, <1>5, <1>6, <1>7, <1>8 DEF HandInv, HandFits, HandFit, TypeOK
<1>9. \A i \in Jobs : OwnerOf[i] # w => dedupe'[i] = dedupe[i] /\ (i \in doc => i \in doc')
  BY <1>0, <1>4, <1>6 DEF TypeOK
<1> QED BY <1>3, <1>4, <1>6, <1>7, <1>8, <1>9, CleanupHand DEF history

\* The length read, the key rescheduled, on to BullMQ and on to its next job.
LEMMA ScanHand ==
  ASSUME Shape, HandInv, NEW w \in Workflows,
         ReadLength(w) \/ RescheduleKey(w) \/ StartBullPhase(w) \/ InspectBull(w)
  PROVE  HandInv'
<1>0. TypeOK /\ wf[w] \in CleanupType /\ CleanupFit(w)
  BY DEF Shape, TypeOK, HandInv, CleanupFits
<1>1. UNCHANGED <<disp, accepted, added, dedupe, doc, bull, awaited, stopping>>
  BY DEF ReadLength, RescheduleKey, StartBullPhase, InspectBull, redisVars, history
<1>2. SUFFICES \E r : /\ wf' = [wf EXCEPT ![w] = r]
                      /\ CleanupFit(w)' /\ Ahead(w)' \subseteq Ahead(w)
                      /\ Behind(w) \subseteq Behind(w)'
  <2>1. PICK r : wf' = [wf EXCEPT ![w] = r] /\ CleanupFit(w)' /\ Ahead(w)' \subseteq Ahead(w)
                 /\ Behind(w) \subseteq Behind(w)'
    BY <1>2
  <2>2. \A v \in Workflows : v # w => wf'[v] = wf[v]
    BY <1>0, <2>1 DEF TypeOK
  <2> QED BY <1>1, <2>1, <2>2, CleanupNarrows
<1>3. ASSUME NEW r, wf' = [wf EXCEPT ![w] = r] PROVE wf'[w] = r
  BY <1>0, <1>3 DEF TypeOK
<1>4. CASE ReadLength(w)
  <2> DEFINE r == [wf[w] EXCEPT !.pc = "rezadd", !.remaining = Len(list[KeyOf[wf[w].job]])]
  <2>1. /\ wf[w].pc = "llen" /\ r.pc = "rezadd" /\ r.job = wf[w].job /\ r.todo = wf[w].todo
        /\ r.rest = wf[w].rest /\ r.gone = wf[w].gone
    BY <1>0, <1>4 DEF CleanupType, ReadLength, InCleanup
  <2>2. wf' = [wf EXCEPT ![w] = r]
    BY <1>4 DEF ReadLength
  <2> HIDE DEF r
  <2>3. wf'[w] = r
    BY <1>3, <2>2
  <2> QED BY <1>0, <1>1, <2>1, <2>2, <2>3 DEF CleanupFit, Ahead, Behind, FromBacklog, FromBull
<1>5. CASE RescheduleKey(w)
  <2> DEFINE r == [wf[w] EXCEPT !.pc = "pending", !.remaining = 0, !.gone = @ \cup {wf[w].job}]
  <2>1. /\ wf[w].pc = "rezadd" /\ r.pc = "pending" /\ r.todo = wf[w].todo
        /\ r.rest = wf[w].rest /\ r.gone = wf[w].gone \cup {wf[w].job}
    BY <1>0, <1>5 DEF CleanupType, RescheduleKey, InCleanup
  <2>2. wf' = [wf EXCEPT ![w] = r]
    BY <1>5 DEF RescheduleKey
  <2> HIDE DEF r
  <2>3. wf'[w] = r
    BY <1>3, <2>2
  <2> QED BY <1>0, <1>1, <2>1, <2>2, <2>3 DEF CleanupFit, Ahead, Behind, FromBacklog, FromBull
<1>6. CASE StartBullPhase(w)
  <2> DEFINE r == [wf[w] EXCEPT !.pc = "bull"]
  <2>1. /\ wf[w].pc = "pending" /\ r.pc = "bull" /\ r.todo = wf[w].todo
        /\ r.rest = wf[w].rest /\ r.gone = wf[w].gone
    BY <1>0, <1>6 DEF CleanupType, StartBullPhase, InCleanup
  <2>2. wf' = [wf EXCEPT ![w] = r]
    BY <1>6 DEF StartBullPhase
  <2> HIDE DEF r
  <2>3. wf'[w] = r
    BY <1>3, <2>2
  <2> QED BY <1>0, <1>1, <2>1, <2>2, <2>3 DEF CleanupFit, Ahead, Behind, FromBacklog, FromBull
<1>7. CASE InspectBull(w)
  <2> DEFINE c(j) == [wf[w] EXCEPT !.rest = @ \ {j}]
             r(j) == CASE bull[j] = "absent" -> [c(j) EXCEPT !.gone = @ \cup {j}]
                       [] bull[j] = "active" -> c(j)
                       [] OTHER -> [c(j) EXCEPT !.pc = "remove", !.job = j,
                                                !.terminal = (bull[j] = "terminal")]
  <2>1. PICK j \in wf[w].rest : wf' = [wf EXCEPT ![w] = r(j)]
    BY <1>7 DEF InspectBull
  <2>2. /\ wf[w].pc = "bull" /\ r(j).todo = wf[w].todo /\ r(j).rest = wf[w].rest \ {j}
        /\ (r(j).pc = "remove" /\ r(j).job = j) \/ r(j).pc = "bull"
        /\ wf[w].gone \subseteq r(j).gone
    <3>1. wf[w].pc = "bull"
      BY <1>7 DEF InspectBull, InCleanup
    <3>2. /\ c(j).todo = wf[w].todo /\ c(j).rest = wf[w].rest \ {j} /\ c(j).pc = "bull"
          /\ c(j).gone = wf[w].gone /\ c(j) \in CleanupType
      BY <1>0, <3>1 DEF CleanupType
    <3> HIDE DEF c
    <3>3. CASE bull[j] = "absent"
      BY <3>1, <3>2, <3>3 DEF CleanupType
    <3>4. CASE bull[j] = "active"
      BY <3>1, <3>2, <3>4
    <3>5. CASE bull[j] \notin {"absent", "active"}
      BY <3>1, <3>2, <3>5 DEF CleanupType
    <3> QED BY <3>3, <3>4, <3>5
  <2> HIDE DEF r
  <2>3. wf'[w] = r(j)
    BY <1>3, <2>1
  <2>4. /\ FromBacklog(w)' = {} /\ FromBull(w)' \subseteq {j}
        /\ Ahead(w)' \subseteq Ahead(w) /\ Behind(w) \subseteq Behind(w)'
    BY <2>1, <2>2, <2>3 DEF Ahead, Behind, FromBacklog, FromBull
  <2>5. CleanupFit(w)'
    BY <1>0, <1>1, <2>1, <2>2, <2>3, <2>4 DEF CleanupFit
  <2> QED BY <2>1, <2>4, <2>5
<1> QED BY <1>4, <1>5, <1>6, <1>7

\* The job a cleanup removes from BullMQ is in no dispatcher's hand.
LEMMA RemoveBullHand ==
  ASSUME Shape, HandInv, NEW w \in Workflows, RemoveBull(w)
  PROVE  HandInv'
<1> DEFINE j == wf[w].job
<1>0. TypeOK /\ wf[w] \in CleanupType /\ wf[w].pc = "remove" /\ CleanupFit(w) /\ j \in Jobs
  BY DEF Shape, TypeOK, RemoveBull, InCleanup, HandInv, CleanupFits, CleanupHolds
<1>1. \A p : LET r == [wf[w] EXCEPT !.pc = p] IN
             /\ r.pc = p /\ r.job = j /\ r.todo = wf[w].todo /\ r.rest = wf[w].rest
             /\ r.gone = wf[w].gone
  BY <1>0 DEF CleanupType
<1>2. PICK p \in {"bull", "undedupe"} :
         /\ wf' = [wf EXCEPT ![w] = [wf[w] EXCEPT !.pc = p]]
         /\ p = "bull" => UNCHANGED bull
         /\ p = "undedupe" => bull' = [bull EXCEPT ![j] = "absent"]
  BY DEF RemoveBull
<1>3. wf'[w] = [wf[w] EXCEPT !.pc = p] /\ \A v \in Workflows : v # w => wf'[v] = wf[v]
  BY <1>0, <1>2 DEF TypeOK
<1>4. /\ wf'[w].pc = p /\ wf'[w].job = j /\ wf'[w].todo = wf[w].todo /\ wf'[w].rest = wf[w].rest
      /\ wf'[w].gone = wf[w].gone
  BY <1>1, <1>3
<1>5. UNCHANGED <<disp, accepted, added, dedupe, doc, awaited, stopping>>
  BY DEF RemoveBull, redisVars, history
<1>6. /\ FromBacklog(w) = {} /\ FromBacklog(w)' = {} /\ FromBull(w) = {j} /\ FromBull(w)' \subseteq {j}
      /\ Ahead(w)' \subseteq Ahead(w) /\ j \in Ahead(w) /\ Behind(w)' = Behind(w)
  BY <1>0, <1>2, <1>4 DEF FromBacklog, FromBull, Ahead, Behind
<1>7. CleanupFit(w)' /\ OwnerOf[j] = w /\ j \notin doc
  BY <1>0, <1>2, <1>4, <1>5, <1>6 DEF CleanupFit
<1>8. \A i : InHand(i)' <=> InHand(i)
  BY <1>5 DEF InHand, Holds
<1>9. ~InHand(j)
  BY <1>0, <1>6, <1>7 DEF HandInv, HandFits, HandFit
<1> HIDE DEF j
<1>10. \A i \in Jobs : i \in doc \/ InHand(i) => Known(i)' = Known(i)
  BY <1>0, <1>2, <1>7, <1>9 DEF Known, TypeOK
<1>11. ASSUME NEW i \in Jobs, OwnerOf[i] = w PROVE HandFit(i)'
  BY <1>5, <1>6, <1>8, <1>11 DEF HandInv, HandFits, HandFit
<1> QED BY <1>3, <1>5, <1>7, <1>10, <1>11, CleanupHand

LEMMA ClearHand ==
  ASSUME Shape, HandInv, NEW w \in Workflows, ClearDedupe(w)
  PROVE  HandInv'
<1> DEFINE j == wf[w].job
<1>0. TypeOK /\ wf[w] \in CleanupType /\ wf[w].pc = "undedupe" /\ CleanupFit(w) /\ j \in Jobs
  BY DEF Shape, TypeOK, ClearDedupe, InCleanup, HandInv, CleanupFits, CleanupHolds
<1>1. PICK r : /\ wf' = [wf EXCEPT ![w] = r]
               /\ r.pc = "bull" /\ r.todo = wf[w].todo /\ r.rest = wf[w].rest
               /\ wf[w].gone \subseteq r.gone
  <2> DEFINE r1 == [wf[w] EXCEPT !.pc = "bull"]
             r2 == [wf[w] EXCEPT !.pc = "bull", !.gone = @ \cup {wf[w].job}]
  <2>1. \A r \in {r1, r2} : /\ r.pc = "bull" /\ r.todo = wf[w].todo /\ r.rest = wf[w].rest
                            /\ wf[w].gone \subseteq r.gone
    BY <1>0 DEF CleanupType
  <2>2. wf' = [wf EXCEPT ![w] = r1] \/ wf' = [wf EXCEPT ![w] = r2]
    BY DEF ClearDedupe
  <2> HIDE DEF r1, r2
  <2> QED BY <2>1, <2>2
<1>2. wf'[w] = r /\ \A v \in Workflows : v # w => wf'[v] = wf[v]
  BY <1>0, <1>1 DEF TypeOK
<1>3. /\ dedupe' = [dedupe EXCEPT ![j] = "none"] /\ awaited' \subseteq awaited
      /\ UNCHANGED <<disp, accepted, added, doc, bull, stopping>>
  BY DEF ClearDedupe, history
<1>4. /\ FromBacklog(w)' = {} /\ FromBull(w)' = {} /\ FromBull(w) = {j} /\ FromBacklog(w) = {}
      /\ Ahead(w)' \subseteq Ahead(w) /\ Behind(w) \subseteq Behind(w)'
  BY <1>0, <1>1, <1>2 DEF FromBacklog, FromBull, Ahead, Behind
<1>5. CleanupFit(w)' /\ OwnerOf[j] = w
  BY <1>0, <1>1, <1>2, <1>3, <1>4 DEF CleanupFit, Ahead
<1> HIDE DEF j
<1>6. \A i : (InHand(i)' <=> InHand(i)) /\ Known(i)' = Known(i)
  BY <1>3 DEF InHand, Holds, Known
<1>7. \A i \in Jobs : dedupe'[i] = IF i = j THEN "none" ELSE dedupe[i]
  BY <1>0, <1>3 DEF TypeOK
<1>8. ASSUME NEW i \in Jobs, OwnerOf[i] = w PROVE HandFit(i)'
  BY <1>3, <1>4, <1>6, <1>7, <1>8 DEF HandInv, HandFits, HandFit
<1> QED BY <1>2, <1>3, <1>5, <1>6, <1>7, <1>8, CleanupHand

LEMMA EndHand ==
  ASSUME Shape, HandInv, NEW w \in Workflows, EndCleanup(w)
  PROVE  HandInv'
<1>0. TypeOK /\ wf[w] \in CleanupType /\ wf[w].pc = "bull" /\ CleanupFit(w)
  BY DEF Shape, TypeOK, EndCleanup, InCleanup, HandInv, CleanupFits
<1>1. IdleWorkflow.pc = "idle" /\ IdleWorkflow.todo = {} /\ IdleWorkflow.rest = {}
  BY DEF IdleWorkflow
<1>2. wf'[w] = IdleWorkflow /\ \A v \in Workflows : v # w => wf'[v] = wf[v]
  BY <1>0 DEF EndCleanup, TypeOK
<1>3. /\ awaited' = awaited \ wf[w].gone
      /\ UNCHANGED <<disp, accepted, added, dedupe, doc, bull, stopping>>
  BY DEF EndCleanup, Dropped, redisVars, history
<1>4. Ahead(w)' = {} /\ FromBacklog(w)' = {} /\ FromBull(w)' = {} /\ Behind(w) = wf[w].gone
  BY <1>0, <1>1, <1>2 DEF FromBacklog, FromBull, Ahead, Behind
<1>5. CleanupFit(w)'
  BY <1>1, <1>2, <1>4 DEF CleanupFit
<1>6. \A i : (InHand(i)' <=> InHand(i)) /\ Known(i)' = Known(i)
  BY <1>3 DEF InHand, Holds, Known
<1>7. ASSUME NEW i \in Jobs, OwnerOf[i] = w PROVE HandFit(i)'
  BY <1>3, <1>4, <1>6, <1>7 DEF HandInv, HandFits, HandFit
<1> QED BY <1>2, <1>3, <1>5, <1>6, <1>7, CleanupHand

\* The end of a stopped experiment, and the steps of workers and clocks.
LEMMA AsideHand ==
  ASSUME Shape, HandInv,
         \/ \E j \in Jobs : StartJob(j) \/ EndJob(j)
         \/ \E w \in Workflows : Stopped(w)
         \/ \E k \in Keys : KeyBecomesDue(k)
         \/ LeaderExpires
  PROVE  HandInv'
<1>1. CASE \E w \in Workflows : Stopped(w)
  <2>1. PICK w \in Workflows : Stopped(w)
    BY <1>1
  <2>2. /\ wf[w].pc = "idle" /\ stopping' = stopping \ {w}
        /\ UNCHANGED <<disp, dedupe, doc, bull, wf, awaited, accepted, added>>
    BY <2>1 DEF Stopped, InCleanup, redisVars, history
  <2>3. \A v : /\ Ahead(v)' = Ahead(v) /\ Behind(v)' = Behind(v)
               /\ FromBacklog(v)' = FromBacklog(v) /\ FromBull(v)' = FromBull(v)
    BY <2>2 DEF Ahead, Behind, FromBacklog, FromBull
  <2>4. CleanupFits'
    BY <2>2, <2>3 DEF HandInv, CleanupFits, CleanupFit
  <2>5. \A i : (InHand(i)' <=> InHand(i)) /\ Known(i)' = Known(i)
    BY <2>2 DEF InHand, Holds, Known
  <2>6. HandFits'
    BY <2>2, <2>3, <2>5 DEF HandInv, HandFits, HandFit
  <2>7. Owed' /\ OneHandoverPerAcceptance'
    BY <2>2, <2>5 DEF HandInv, Owed, OneHandoverPerAcceptance
  <2> QED BY <2>4, <2>6, <2>7 DEF HandInv
<1>2. CASE \E j \in Jobs : StartJob(j) \/ EndJob(j)
  <2>1. PICK j \in Jobs : StartJob(j) \/ EndJob(j)
    BY <1>2
  <2>2. \A i \in Jobs : Known(i)' = Known(i)
    <3>1. PICK s \in {"active", "terminal", "waiting"} : bull' = [bull EXCEPT ![j] = s]
      BY <2>1 DEF StartJob, EndJob
    <3>2. bull[j] # "absent" /\ bull \in [Jobs -> BullStates]
      BY <2>1 DEF Shape, TypeOK, StartJob, EndJob
    <3> QED BY <3>1, <3>2 DEF Known
  <2>3. UNCHANGED <<disp, dedupe, doc, wfVars, accepted, added>>
    BY <2>1 DEF StartJob, EndJob, redisVars, history
  <2> QED BY <2>2, <2>3, HandQuiet DEF InHand, Holds
<1>3. CASE LeaderExpires \/ \E k \in Keys : KeyBecomesDue(k)
  <2>1. UNCHANGED <<disp, dedupe, doc, bull, wfVars, accepted, added>>
    BY <1>3 DEF LeaderExpires, KeyBecomesDue, redisVars, history
  <2> QED BY <2>1, HandQuiet DEF InHand, Holds, Known
<1> QED BY <1>1, <1>2, <1>3

LEMMA HandStays == Shape /\ HandInv /\ OneTick /\ [Next]_vars => HandInv'
<1> SUFFICES ASSUME Shape, HandInv, OneTick, [Next]_vars PROVE HandInv'
  OBVIOUS
<1>1. CASE UNCHANGED vars
  <2>1. UNCHANGED <<disp, dedupe, doc, bull, wfVars, accepted, added>>
    BY <1>1 DEF vars, redisVars, history
  <2> QED BY <2>1, HandQuiet DEF InHand, Holds, Known
<1>2. CASE \E j \in Jobs : Enqueue(j) \/ Settle(j) \/ StartJob(j) \/ EndJob(j)
  BY <1>2, EnqueueHand, SettleHand, AsideHand
<1>3. CASE \E d \in Dispatchers :
              Dispatch(d) \/ Granted(d) \/ Refused(d) \/ AddFails(d) \/ MarkFails(d) \/ Abort(d)
  BY <1>3, QuietDispatch, AddHand, MarkHand DEF Dispatch
<1>4. CASE \E w \in Workflows : StartCleanup(w) \/ Cleanup(w)
  BY <1>4, StartHand, ReadDocHand, RemovePendingHand, ScanHand, RemoveBullHand, ClearHand, EndHand,
     AsideHand DEF Cleanup
<1>5. CASE LeaderExpires \/ \E k \in Keys : KeyBecomesDue(k)
  BY <1>5, AsideHand
<1> QED BY <1>1, <1>2, <1>3, <1>4, <1>5 DEF Next

\* As long as the leader key keeps the ticks of the dispatchers apart, BullMQ
\* is given a job at most once for each time the backlog accepted it, with any
\* number of cleanups, crashes and failed calls between.
THEOREM OneHandover == Spec /\ []OneTick => []OneHandoverPerAcceptance
<1>1. HandInv => OneHandoverPerAcceptance
  BY DEF HandInv
<1> QED BY <1>1, InitShape, ShapeStays, InitHand, HandStays, PTL DEF Spec

-----------------------------------------------------------------------------
(* No accepted job is lost, and first in is first out, while no experiment  *)
(* is being stopped.                                                        *)

NoStop == stopping = {}

\* Every entry of a list is a pending job of the key with its document, once;
\* only the head can be in BullMQ; the schedule has the keys with a list.
ListFit(k) ==
    /\ \A i \in 1..Len(list[k]) :
          /\ KeyOf[list[k][i]] = k /\ list[k][i] \in doc /\ dedupe[list[k][i]] = "pending"
          /\ i > 1 => ~Known(list[k][i])
          /\ \A n \in 1..Len(list[k]) : list[k][i] = list[k][n] => i = n
    /\ sched[k] = "none" <=> list[k] = <<>>

ListsFit == \A k \in Keys : ListFit(k)

PendingListed ==
    \A j \in Jobs : /\ dedupe[j] = "pending" => \E i \in 1..Len(list[KeyOf[j]]) : list[KeyOf[j]][i] = j
                    /\ dedupe[j] = "none" => ~Known(j)

\* A dispatcher works on the head of a list, and never finds one empty.
TickFit(d) ==
    /\ disp[d].pc \notin {"unschedule", "pop"}
    /\ disp[d].pc = "idle" => disp[d].due = {}
    /\ \A k \in disp[d].due : list[k] # <<>>
    /\ disp[d].pc \notin {"idle", "due", "keys"} =>
          disp[d].key \notin disp[d].due /\ list[disp[d].key] # <<>>
    /\ disp[d].pc \in {"fetch", "check", "reserve", "add", "mark"} =>
          disp[d].job = Head(list[disp[d].key])
    /\ disp[d].pc = "mark" => Known(disp[d].job)

TicksFit == \A d \in Dispatchers : TickFit(d)

NoCleanup == \A w \in Workflows : wf[w].pc = "idle"

QueueInv == ListsFit /\ PendingListed /\ TicksFit /\ NoCleanup

LEMMA InitQueue == Init => QueueInv
<1> SUFFICES ASSUME Init PROVE QueueInv
  OBVIOUS
<1>1. ListsFit
  BY EmptySeq DEF Init, ListsFit, ListFit
<1>2. PendingListed
  BY DEF Init, PendingListed, Known
<1>3. TicksFit /\ NoCleanup
  BY DEF Init, TicksFit, TickFit, NoCleanup, IdleDispatcher, IdleWorkflow
<1> QED BY <1>1, <1>2, <1>3 DEF QueueInv

LEMMA HeadIsFirst ==
  ASSUME NEW S, NEW l \in Seq(S), l # <<>>
  PROVE  Len(l) >= 1 /\ Head(l) = l[1] /\ Head(l) \in S
<1>1. Len(l) \in Nat /\ Len(l) # 0
  BY EmptySeq, LenProperties
<1> QED BY <1>1, HeadTailProperties

\* The pending job in hand is the head of its key's list.
LEMMA HeadFits ==
  ASSUME Shape, QueueInv, NEW k \in Keys, list[k] # <<>>
  PROVE  /\ list[k] \in Seq(Jobs) /\ Len(list[k]) >= 1
         /\ Head(list[k]) \in Jobs /\ Head(list[k]) \in doc /\ dedupe[Head(list[k])] = "pending"
         /\ KeyOf[Head(list[k])] = k
         /\ \A i \in 1..Len(list[k]) : i > 1 => list[k][i] # Head(list[k])
<1>1. list[k] \in Seq(Jobs) /\ Len(list[k]) \in Nat
  BY DEF Shape, TypeOK
<1>2. Len(list[k]) >= 1 /\ Head(list[k]) = list[k][1] /\ Head(list[k]) \in Jobs
  BY <1>1, HeadIsFirst
<1>3. 1 \in 1..Len(list[k]) /\ ListFit(k)
  BY <1>1, <1>2 DEF QueueInv, ListsFit
<1> QED BY <1>1, <1>2, <1>3 DEF ListFit

\* A step that leaves the backlog and what BullMQ knows as they are, and of the
\* schedule which keys it has.
LEMMA BacklogAside ==
  ASSUME QueueInv, UNCHANGED <<dedupe, doc, list>>, \A j : Known(j)' = Known(j),
         \A k \in Keys : sched'[k] = "none" <=> sched[k] = "none"
  PROVE  ListsFit' /\ PendingListed'
BY DEF QueueInv, ListsFit, ListFit, PendingListed

LEMMA LoopAside ==
  ASSUME Shape, QueueInv, NEW d \in Dispatchers, NEW r,
         disp' = [disp EXCEPT ![d] = r], TickFit(d)', UNCHANGED <<dedupe, doc, list, bull, wf>>,
         \A k \in Keys : sched'[k] = "none" <=> sched[k] = "none"
  PROVE  QueueInv'
<1>1. \A e \in Dispatchers : e # d => disp'[e] = disp[e]
  BY DEF Shape, TypeOK
<1>2. TicksFit'
  BY <1>1 DEF QueueInv, TicksFit, TickFit, Known
<1>3. NoCleanup' /\ ListsFit' /\ PendingListed'
  BY BacklogAside DEF QueueInv, NoCleanup, Known
<1> QED BY <1>2, <1>3 DEF QueueInv

LEMMA QuietTick ==
  ASSUME Shape, QueueInv, NEW d \in Dispatchers,
         \/ Lead(d) \/ ReadDue(d) \/ NextKey(d) \/ PeekHead(d) \/ Unschedule(d) \/ FetchDoc(d)
         \/ PopHead(d) \/ CheckExisting(d) \/ Defer(d) \/ Granted(d) \/ Refused(d) \/ AddFails(d)
         \/ MarkFails(d) \/ Abort(d)
  PROVE  QueueInv'
<1>0. TypeOK /\ disp[d] \in DispatcherType /\ TickFit(d)
  BY DEF Shape, TypeOK, QueueInv, TicksFit
<1>1. ~Unschedule(d) /\ ~PopHead(d)
  BY <1>0 DEF TickFit, Unschedule, PopHead, At
<1>2. UNCHANGED <<dedupe, doc, list, bull, wf>>
  BY <1>1 DEF Lead, ReadDue, NextKey, PeekHead, FetchDoc, CheckExisting, Defer, Granted, Refused,
              AddFails, MarkFails, Abort, redisVars, wfVars
<1>3. \A k \in Keys : sched'[k] = "none" <=> sched[k] = "none"
  <2>1. CASE Defer(d)
    <3> DEFINE k == disp[d].key
    <3>1. k \in Keys /\ list[k] # <<>>
      BY <1>0, <2>1 DEF Shape, DispatcherHolds, TickFit, Defer, At
    <3>2. sched[k] # "none"
      BY <3>1 DEF QueueInv, ListsFit, ListFit
    <3>3. sched' = [sched EXCEPT ![k] = "later"]
      BY <2>1 DEF Defer
    <3> QED BY <1>0, <3>2, <3>3 DEF TypeOK
  <2>2. CASE ~Defer(d)
    BY <1>1, <2>2 DEF Lead, ReadDue, NextKey, PeekHead, FetchDoc, CheckExisting, Granted, Refused,
              AddFails, MarkFails, Abort, redisVars
  <2> QED BY <2>1, <2>2
<1>4. SUFFICES \E r : disp' = [disp EXCEPT ![d] = r] /\ TickFit(d)'
  BY <1>2, <1>3, LoopAside
<1>5. ASSUME NEW r, disp' = [disp EXCEPT ![d] = r] PROVE disp'[d] = r
  BY <1>0, <1>5 DEF TypeOK
<1>6. IdleDispatcher.pc = "idle" /\ IdleDispatcher.due = {}
  BY DEF IdleDispatcher
<1>7. CASE \/ Lead(d) \/ FetchDoc(d) \/ CheckExisting(d) \/ Defer(d) \/ Granted(d) \/ Refused(d)
           \/ AddFails(d) \/ MarkFails(d)
  <2> DEFINE k == disp[d].key
             r(p) == [disp[d] EXCEPT !.pc = p]
  <2>1. \A p : r(p).pc = p /\ r(p).job = disp[d].job /\ r(p).key = k /\ r(p).due = disp[d].due
    BY <1>0 DEF DispatcherType
  <2>2. PICK p : /\ Goto(d, p)
                 /\ \/ p \in {"due", "keys"}
                    \/ p = "defer" /\ disp[d].pc \in {"reserve", "add"}
                    \/ p \in {"check", "reserve", "add", "mark"}
                       /\ disp[d].pc \in {"fetch", "check", "reserve"}
                 /\ p = "mark" => Known(disp[d].job)
    <3>1. CASE FetchDoc(d)
      <4>1. k \in Keys /\ list[k] # <<>> /\ disp[d].job = Head(list[k])
        BY <1>0, <3>1 DEF Shape, DispatcherHolds, TickFit, FetchDoc, At
      <4>2. disp[d].job \in doc
        BY <4>1, HeadFits
      <4> QED BY <3>1, <4>2 DEF FetchDoc, At
    <3>2. CASE ~FetchDoc(d)
      BY <1>7, <3>2 DEF Lead, CheckExisting, Defer, Granted, Refused, AddFails, MarkFails, At
    <3> QED BY <3>1, <3>2
  <2>3. disp' = [disp EXCEPT ![d] = r(p)]
    BY <2>2 DEF Goto
  <2>4. disp'[d] = r(p)
    BY <1>5, <2>3
  <2> HIDE DEF r
  <2>5. TickFit(d)'
    BY <1>0, <1>2, <2>1, <2>2, <2>4 DEF TickFit, Known
  <2> QED BY <2>3, <2>5
<1>8. CASE ReadDue(d)
  <2> DEFINE r == [disp[d] EXCEPT !.pc = "keys", !.due = {k \in Keys : sched[k] = "due"}]
  <2>1. disp' = [disp EXCEPT ![d] = r] /\ r.pc = "keys" /\ r.due = {k \in Keys : sched[k] = "due"}
    BY <1>0, <1>8 DEF ReadDue, DispatcherType
  <2> HIDE DEF r
  <2>2. \A k \in r.due : list[k] # <<>>
    BY <2>1 DEF QueueInv, ListsFit, ListFit
  <2> QED BY <1>2, <1>5, <2>1, <2>2 DEF TickFit
<1>9. CASE NextKey(d)
  <2>1. CASE \E k \in disp[d].due :
                disp' = [disp EXCEPT ![d].pc = "head", ![d].key = k, ![d].due = @ \ {k}]
    <3>1. PICK k \in disp[d].due :
                disp' = [disp EXCEPT ![d].pc = "head", ![d].key = k, ![d].due = @ \ {k}]
      BY <2>1
    <3> DEFINE r == [disp[d] EXCEPT !.pc = "head", !.key = k, !.due = @ \ {k}]
    <3>2. r.pc = "head" /\ r.key = k /\ r.due = disp[d].due \ {k} /\ disp' = [disp EXCEPT ![d] = r]
      BY <1>0, <3>1 DEF DispatcherType
    <3> HIDE DEF r
    <3> QED BY <1>0, <1>2, <1>5, <3>2 DEF TickFit
  <2>2. CASE disp' = [disp EXCEPT ![d] = IdleDispatcher]
    BY <1>5, <1>6, <2>2 DEF TickFit
  <2> QED BY <1>9, <2>1, <2>2 DEF NextKey
<1>10. CASE PeekHead(d)
  <2> DEFINE k == disp[d].key
             r == [disp[d] EXCEPT !.pc = "fetch", !.job = Head(list[k])]
  <2>1. list[k] # <<>> /\ disp[d].pc = "head"
    BY <1>0, <1>10 DEF TickFit, PeekHead, At
  <2>2. /\ r.pc = "fetch" /\ r.job = Head(list[k]) /\ r.key = k /\ r.due = disp[d].due
        /\ disp' = [disp EXCEPT ![d] = r]
    BY <1>0, <1>10, <2>1 DEF PeekHead, DispatcherType
  <2> HIDE DEF r
  <2> QED BY <1>0, <1>2, <1>5, <2>1, <2>2 DEF TickFit
<1>11. CASE Abort(d)
  BY <1>5, <1>6, <1>11 DEF TickFit, Abort
<1> QED BY <1>1, <1>7, <1>8, <1>9, <1>10, <1>11

\* An accepted job goes to the end of its key's list, where it was not.
LEMMA Appended ==
  ASSUME Shape, QueueInv, NEW j \in Jobs, Enqueue(j), Accepts(j)
  PROVE  LET k == KeyOf[j] IN
         /\ k \in Keys /\ list[k] \in Seq(Jobs) /\ Len(list[k]) \in Nat /\ ~Known(j)
         /\ list' = [list EXCEPT ![k] = Append(list[k], j)]
         /\ Len(Append(list[k], j)) = Len(list[k]) + 1
         /\ \A i \in 1..Len(list[k]) : Append(list[k], j)[i] = list[k][i] /\ list[k][i] # j
         /\ Append(list[k], j)[Len(list[k]) + 1] = j
<1> DEFINE k == KeyOf[j]
<1>1. k \in Keys /\ list[k] \in Seq(Jobs) /\ Len(list[k]) \in Nat
  BY BacklogAssumption, LenProperties DEF Shape, TypeOK
<1>2. dedupe[j] = "none" /\ list' = [list EXCEPT ![k] = Append(list[k], j)]
  BY DEF Enqueue, Accepts, Pushed
<1>3. ~Known(j)
  BY <1>2 DEF QueueInv, PendingListed
<1>4. \A i \in 1..Len(list[k]) : list[k][i] # j
  BY <1>1, <1>2 DEF QueueInv, ListsFit, ListFit
<1> QED BY <1>1, <1>2, <1>3, <1>4, AppendProperties

LEMMA EnqueueQueue ==
  ASSUME Shape, QueueInv, NEW j \in Jobs, Enqueue(j)
  PROVE  QueueInv'
<1>0. TypeOK
  BY DEF Shape
<1>1. CASE Accepts(j)
  <2> DEFINE k == KeyOf[j]
             l == list[k]
             m == Append(l, j)
  <2>1. /\ k \in Keys /\ l \in Seq(Jobs) /\ Len(l) \in Nat /\ ~Known(j)
        /\ list' = [list EXCEPT ![k] = m] /\ Len(m) = Len(l) + 1 /\ m[Len(l) + 1] = j
        /\ \A i \in 1..Len(l) : m[i] = l[i] /\ l[i] # j
    BY <1>1, Appended
  <2>2. m # <<>> /\ (l # <<>> => Head(m) = Head(l))
    BY <2>1, AppendProperties, HeadTailAppend
  <2>3. /\ dedupe' = [dedupe EXCEPT ![j] = "pending"] /\ doc' = doc \cup {j}
        /\ sched' = [sched EXCEPT ![k] = "due"] /\ UNCHANGED <<bull, disp, wf>>
    BY <1>1 DEF Enqueue, Accepts
  <2> HIDE DEF m
  <2>4. list'[k] = m /\ sched'[k] = "due" /\ \A h \in Keys : h # k => list'[h] = list[h] /\ sched'[h] = sched[h]
    BY <1>0, <2>1, <2>3 DEF TypeOK
  <2>5. \A h \in Keys : list[h] # <<>> => list'[h] # <<>> /\ Head(list'[h]) = Head(list[h])
    BY <2>2, <2>4
  <2>6. \A i : (Known(i)' <=> Known(i)) /\ (i \in doc => i \in doc')
    BY <2>3 DEF Known
  <2>7. \A i \in Jobs : dedupe'[i] = IF i = j THEN "pending" ELSE dedupe[i]
    BY <1>0, <2>3 DEF TypeOK
  <2>8. ListFit(k)'
    <3>1. ListFit(k)
      BY <2>1 DEF QueueInv, ListsFit
    <3>2. ASSUME NEW i \in 1..Len(m)
          PROVE  /\ KeyOf[m[i]] = k /\ m[i] \in doc' /\ dedupe'[m[i]] = "pending"
                 /\ i > 1 => ~Known(m[i])
                 /\ \A n \in 1..Len(m) : m[i] = m[n] => i = n
      <4>1. CASE i \in 1..Len(l)
        <5>1. m[i] = l[i] /\ l[i] # j /\ l[i] \in Jobs
          BY <2>1, <4>1
        <5>2. KeyOf[l[i]] = k /\ l[i] \in doc /\ dedupe[l[i]] = "pending" /\ (i > 1 => ~Known(l[i]))
          BY <3>1, <4>1 DEF ListFit
        <5>3. ASSUME NEW n \in 1..Len(m), m[i] = m[n] PROVE i = n
          <6>1. n # Len(l) + 1
            BY <2>1, <5>1, <5>3
          <6>2. n \in 1..Len(l) /\ m[n] = l[n]
            BY <2>1, <6>1
          <6> QED BY <3>1, <4>1, <5>1, <5>3, <6>2 DEF ListFit
        <5> QED BY <2>6, <2>7, <5>1, <5>2, <5>3
      <4>2. CASE i = Len(l) + 1
        <5>1. m[i] = j
          BY <2>1, <4>2
        <5>2. ASSUME NEW n \in 1..Len(m), m[n] = j PROVE n = i
          BY <2>1, <4>2, <5>2
        <5>3. j \in doc' /\ dedupe'[j] = "pending" /\ ~Known(j)
          BY <2>1, <2>3, <2>7
        <5> QED BY <5>1, <5>2, <5>3
      <4> QED BY <2>1, <4>1, <4>2
    <3> QED BY <2>2, <2>4, <2>6, <3>2 DEF ListFit
  <2>9. ListsFit'
    <3> SUFFICES ASSUME NEW h \in Keys, h # k PROVE ListFit(h)'
      BY <2>8 DEF ListsFit
    <3>1. ListFit(h) /\ list[h] \in Seq(Jobs)
      BY <1>0 DEF QueueInv, ListsFit, TypeOK
    <3>2. \A i \in 1..Len(list[h]) : list[h][i] # j /\ list[h][i] \in Jobs
      BY <3>1 DEF ListFit
    <3> QED BY <2>4, <2>6, <2>7, <3>1, <3>2 DEF ListFit
  <2>10. PendingListed'
    <3> SUFFICES ASSUME NEW i \in Jobs, dedupe'[i] = "pending"
                 PROVE  \E n \in 1..Len(list'[KeyOf[i]]) : list'[KeyOf[i]][n] = i
      BY <2>6, <2>7 DEF QueueInv, PendingListed
    <3>1. CASE i = j
      <4>1. Len(l) + 1 \in 1..Len(m)
        BY <2>1
      <4> QED BY <2>1, <2>4, <3>1, <4>1
    <3>2. CASE i # j
      <4>1. PICK n \in 1..Len(list[KeyOf[i]]) : list[KeyOf[i]][n] = i
        BY <2>7, <3>2 DEF QueueInv, PendingListed
      <4>2. CASE KeyOf[i] = k
        <5>1. n \in 1..Len(l) /\ n \in 1..Len(m) /\ m[n] = i
          BY <2>1, <4>1, <4>2
        <5> QED BY <2>4, <4>2, <5>1
      <4>3. CASE KeyOf[i] # k
        BY <2>4, <4>1, <4>3, BacklogAssumption
      <4> QED BY <4>2, <4>3
    <3> QED BY <3>1, <3>2
  <2>11. TicksFit' /\ NoCleanup'
    <3>1. NoCleanup'
      BY <2>3 DEF QueueInv, NoCleanup
    <3> SUFFICES ASSUME NEW d \in Dispatchers PROVE TickFit(d)'
      BY <3>1 DEF TicksFit
    <3>2. /\ TickFit(d) /\ disp[d].due \subseteq Keys
          /\ disp[d].pc \notin {"idle", "due", "keys"} => disp[d].key \in Keys
      BY <1>0 DEF Shape, TypeOK, DispatcherType, DispatcherHolds, QueueInv, TicksFit
    <3> QED BY <2>3, <2>5, <2>6, <3>2 DEF TickFit
  <2> QED BY <2>9, <2>10, <2>11 DEF QueueInv
<1>2. CASE dedupe[j] # "none" /\ UNCHANGED <<redisVars, accepted>>
  <2>1. UNCHANGED <<dedupe, doc, list, sched, bull, disp, wf>>
    BY <1>2 DEF Enqueue, redisVars
  <2> QED BY <2>1, BacklogAside DEF QueueInv, TicksFit, TickFit, NoCleanup, Known
<1> QED BY <1>1, <1>2 DEF Enqueue

\* The job in hand is the head of its list and of no other.
LEMMA InHandIsHead ==
  ASSUME Shape, QueueInv, NEW d \in Dispatchers, disp[d].pc \in {"add", "mark"}
  PROVE  LET j == disp[d].job
             k == disp[d].key IN
         /\ j \in Jobs /\ k \in Keys /\ list[k] \in Seq(Jobs) /\ list[k] # <<>> /\ j = Head(list[k])
         /\ Len(list[k]) \in Nat /\ Len(list[k]) >= 1 /\ list[k][1] = j
         /\ KeyOf[j] = k /\ dedupe[j] = "pending"
         /\ \A i \in 1..Len(list[k]) : i > 1 => list[k][i] # j
         /\ \A h \in Keys : h # k => \A i \in 1..Len(list[h]) : list[h][i] # j
<1> DEFINE j == disp[d].job
           k == disp[d].key
<1>1. TickFit(d) /\ j \in Jobs /\ k \in Keys
  BY DEF QueueInv, TicksFit, Shape, DispatcherHolds
<1>2. list[k] # <<>> /\ j = Head(list[k])
  BY <1>1 DEF TickFit
<1>3. list[k] \in Seq(Jobs) /\ Len(list[k]) >= 1 /\ list[k][1] = j
  BY <1>1, <1>2, HeadFits, HeadIsFirst
<1>4. KeyOf[j] = k /\ dedupe[j] = "pending" /\ \A i \in 1..Len(list[k]) : i > 1 => list[k][i] # j
  BY <1>1, <1>2, HeadFits
<1>5. \A h \in Keys : h # k => \A i \in 1..Len(list[h]) : list[h][i] # j
  BY <1>4 DEF QueueInv, ListsFit, ListFit
<1> QED BY <1>1, <1>2, <1>3, <1>4, <1>5, LenProperties

LEMMA AddQueue ==
  ASSUME Shape, QueueInv, NEW d \in Dispatchers, AddReady(d)
  PROVE  QueueInv'
<1> DEFINE j == disp[d].job
           k == disp[d].key
           r == [disp[d] EXCEPT !.pc = "mark"]
<1>0. TypeOK /\ TickFit(d) /\ disp[d].pc = "add" /\ disp[d] \in DispatcherType
  BY DEF Shape, TypeOK, QueueInv, TicksFit, AddReady, At
<1>1. /\ j \in Jobs /\ k \in Keys /\ list[k] \in Seq(Jobs) /\ j = Head(list[k])
      /\ KeyOf[j] = k /\ dedupe[j] = "pending"
      /\ \A i \in 1..Len(list[k]) : i > 1 => list[k][i] # j
      /\ \A h \in Keys : h # k => \A i \in 1..Len(list[h]) : list[h][i] # j
  BY <1>0, InHandIsHead
<1>2. /\ UNCHANGED <<dedupe, doc, list, sched, wf>> /\ disp' = [disp EXCEPT ![d] = r]
      /\ r.pc = "mark" /\ r.job = j /\ r.key = k /\ r.due = disp[d].due
  BY <1>0 DEF AddReady, Goto, redisVars, wfVars, DispatcherType
<1> HIDE DEF r
<1>3. disp'[d] = r /\ \A e \in Dispatchers : e # d => disp'[e] = disp[e]
  BY <1>0, <1>2 DEF TypeOK
<1> HIDE DEF j, k
<1>4. \A i \in Jobs : Known(i)' <=> Known(i) \/ i = j
  BY <1>0, <1>1 DEF AddReady, Known, TypeOK, j
<1>5. ListsFit'
  <2> SUFFICES ASSUME NEW h \in Keys PROVE ListFit(h)'
    BY DEF ListsFit
  <2>1. ListFit(h) /\ list[h] \in Seq(Jobs)
    BY <1>0 DEF QueueInv, ListsFit, TypeOK
  <2>2. \A i \in 1..Len(list[h]) : list[h][i] \in Jobs /\ (i > 1 => list[h][i] # j)
    BY <1>1, <2>1
  <2> QED BY <1>2, <1>4, <2>1, <2>2 DEF ListFit
<1>6. PendingListed'
  BY <1>1, <1>2, <1>4 DEF QueueInv, PendingListed
<1>7. TicksFit'
  <2> SUFFICES ASSUME NEW e \in Dispatchers PROVE TickFit(e)'
    BY DEF TicksFit
  <2>1. TickFit(e) /\ (disp[e].pc = "mark" => disp[e].job \in Jobs)
    BY DEF QueueInv, TicksFit, Shape, DispatcherHolds
  <2>2. CASE e = d
    BY <1>0, <1>1, <1>2, <1>3, <1>4, <2>2 DEF TickFit, j, k
  <2>3. CASE e # d
    BY <1>2, <1>3, <1>4, <2>1, <2>3 DEF TickFit
  <2> QED BY <2>2, <2>3
<1> QED BY <1>2, <1>5, <1>6, <1>7 DEF QueueInv, NoCleanup

\* LREM takes the head off the list.
LEMMA MarkedHead ==
  ASSUME Shape, QueueInv, NEW d \in Dispatchers, MarkReady(d)
  PROVE  LET k == disp[d].key IN
         /\ list' = [list EXCEPT ![k] = Tail(list[k])]
         /\ sched' = [sched EXCEPT ![k] = Scheduled(Tail(list[k]))]
         /\ Tail(list[k]) \in Seq(Jobs) /\ Len(Tail(list[k])) = Len(list[k]) - 1
         /\ \A i \in 1..Len(Tail(list[k])) : Tail(list[k])[i] = list[k][i + 1]
<1> DEFINE k == disp[d].key
<1>1. k \in Keys /\ list[k] \in Seq(Jobs) /\ list[k] # <<>> /\ disp[d].job = Head(list[k])
  BY InHandIsHead DEF MarkReady, At
<1>2. RemoveFirst(list[k], disp[d].job) = Tail(list[k])
  BY <1>1, RemoveHead
<1>3. /\ Tail(list[k]) \in Seq(Jobs) /\ Len(Tail(list[k])) = Len(list[k]) - 1
      /\ \A i \in 1..Len(Tail(list[k])) : Tail(list[k])[i] = list[k][i + 1]
  BY <1>1, HeadTailProperties
<1> QED BY <1>2, <1>3 DEF MarkReady, Left

LEMMA MarkQueue ==
  ASSUME Shape, QueueInv, OneTick, NEW d \in Dispatchers, MarkReady(d)
  PROVE  QueueInv'
<1> DEFINE j == disp[d].job
           k == disp[d].key
           l == list[k]
           m == Tail(l)
           r == [disp[d] EXCEPT !.pc = "keys"]
<1>0. TypeOK /\ TickFit(d) /\ disp[d].pc = "mark" /\ disp[d] \in DispatcherType
  BY DEF Shape, TypeOK, QueueInv, TicksFit, MarkReady, At
<1>1. /\ j \in Jobs /\ k \in Keys /\ l \in Seq(Jobs) /\ l # <<>>
      /\ Len(l) \in Nat /\ Len(l) >= 1 /\ l[1] = j
      /\ KeyOf[j] = k /\ dedupe[j] = "pending"
      /\ \A i \in 1..Len(l) : i > 1 => l[i] # j
      /\ \A h \in Keys : h # k => \A i \in 1..Len(list[h]) : list[h][i] # j
  BY <1>0, InHandIsHead
<1>2. /\ list' = [list EXCEPT ![k] = m] /\ sched' = [sched EXCEPT ![k] = Scheduled(m)]
      /\ m \in Seq(Jobs) /\ Len(m) = Len(l) - 1 /\ \A i \in 1..Len(m) : m[i] = l[i + 1]
  BY MarkedHead
<1>3. /\ doc' = doc \ {j} /\ dedupe' = [dedupe EXCEPT ![j] = "ready"]
      /\ UNCHANGED <<bull, wf>> /\ disp' = [disp EXCEPT ![d] = r]
  BY DEF MarkReady, Goto, wfVars
<1>4. r.pc = "keys" /\ r.due = disp[d].due
  BY <1>0 DEF DispatcherType
<1> HIDE DEF r
<1>5. /\ disp'[d] = r
      /\ \A e \in Dispatchers : e # d => disp'[e] = disp[e] /\ disp[e].pc = "idle"
  BY <1>0, <1>3 DEF TypeOK, OneTick
<1>6. list'[k] = m /\ sched'[k] = Scheduled(m) /\ \A h \in Keys : h # k => list'[h] = list[h] /\ sched'[h] = sched[h]
  BY <1>0, <1>1, <1>2 DEF TypeOK
<1>7. \A i \in Jobs : dedupe'[i] = IF i = j THEN "ready" ELSE dedupe[i]
  BY <1>0, <1>3 DEF TypeOK
<1>8. \A i : Known(i)' <=> Known(i)
  BY <1>3 DEF Known
<1>9. disp[d].due \subseteq Keys /\ k \notin disp[d].due /\ \A h \in disp[d].due : list[h] # <<>>
  BY <1>0 DEF DispatcherType, TickFit
<1> HIDE DEF j, k, l, m
<1>10. ListsFit'
  <2> SUFFICES ASSUME NEW h \in Keys PROVE ListFit(h)'
    BY DEF ListsFit
  <2>1. ListFit(h) /\ list[h] \in Seq(Jobs)
    BY <1>0 DEF QueueInv, ListsFit, TypeOK
  <2>2. CASE h # k
    <3>1. \A i \in 1..Len(list[h]) : list[h][i] \in Jobs /\ list[h][i] # j
      BY <1>1, <2>1, <2>2
    <3> QED BY <1>3, <1>6, <1>7, <1>8, <2>1, <2>2, <3>1 DEF ListFit
  <2>3. CASE h = k
    <3>1. ASSUME NEW i \in 1..Len(m)
          PROVE  /\ KeyOf[m[i]] = k /\ m[i] \in doc' /\ dedupe'[m[i]] = "pending"
                 /\ i > 1 => ~Known(m[i])
                 /\ \A n \in 1..Len(m) : m[i] = m[n] => i = n
      <4>0. \A n \in 1..Len(m) : n \in Nat /\ n + 1 \in 1..Len(l) /\ n + 1 > 1
        BY <1>1, <1>2
      <4>1. /\ i + 1 \in 1..Len(l) /\ i + 1 > 1 /\ m[i] = l[i + 1]
            /\ \A n \in 1..Len(m) : n + 1 \in 1..Len(l) /\ m[n] = l[n + 1]
        BY <1>2, <4>0
      <4>2. l[i + 1] \in Jobs /\ l[i + 1] # j /\ list[h] = l
        BY <1>1, <2>3, <4>1 DEF l
      <4>3. \A n \in 1..Len(m) : l[i + 1] = l[n + 1] => i + 1 = n + 1
        BY <2>1, <4>1, <4>2 DEF ListFit
      <4>4. /\ KeyOf[l[i + 1]] = k /\ l[i + 1] \in doc /\ dedupe[l[i + 1]] = "pending"
            /\ ~Known(l[i + 1])
        BY <2>1, <2>3, <4>1, <4>2 DEF ListFit
      <4> QED BY <1>3, <1>7, <4>1, <4>2, <4>3, <4>4
    <3>2. Scheduled(m) = "none" <=> m = <<>>
      BY DEF Scheduled
    <3> QED BY <1>6, <1>8, <2>3, <3>1, <3>2 DEF ListFit
  <2> QED BY <2>2, <2>3
<1>11. PendingListed'
  <2> SUFFICES ASSUME NEW i \in Jobs, dedupe'[i] = "pending"
               PROVE  \E n \in 1..Len(list'[KeyOf[i]]) : list'[KeyOf[i]][n] = i
    BY <1>7, <1>8 DEF QueueInv, PendingListed
  <2>1. i # j /\ dedupe[i] = "pending" /\ KeyOf[i] \in Keys
    BY <1>7, BacklogAssumption
  <2>2. PICK n \in 1..Len(list[KeyOf[i]]) : list[KeyOf[i]][n] = i
    BY <2>1 DEF QueueInv, PendingListed
  <2>3. CASE KeyOf[i] = k
    <3>1. n \in 1..Len(l) /\ l[n] = i /\ n # 1
      BY <1>1, <2>1, <2>2, <2>3 DEF l
    <3>2. n - 1 \in 1..Len(m) /\ m[n - 1] = l[n]
      <4>1. n - 1 \in 1..Len(m) /\ (n - 1) + 1 = n
        BY <1>1, <1>2, <3>1
      <4>2. m[n - 1] = l[(n - 1) + 1]
        BY <1>2, <4>1
      <4> QED BY <4>1, <4>2
    <3> QED BY <1>6, <2>3, <3>1, <3>2
  <2>4. CASE KeyOf[i] # k
    BY <1>6, <2>1, <2>2, <2>4
  <2> QED BY <2>3, <2>4
<1>12. TicksFit'
  <2> SUFFICES ASSUME NEW e \in Dispatchers PROVE TickFit(e)'
    BY DEF TicksFit
  <2>1. CASE e = d
    <3>1. \A h \in disp[d].due : list'[h] # <<>>
      BY <1>6, <1>9
    <3> QED BY <1>4, <1>5, <2>1, <3>1 DEF TickFit
  <2>2. CASE e # d
    <3>1. TickFit(e)
      BY DEF QueueInv, TicksFit
    <3> QED BY <1>5, <2>2, <3>1 DEF TickFit
  <2> QED BY <2>1, <2>2
<1> QED BY <1>3, <1>10, <1>11, <1>12 DEF QueueInv, NoCleanup

\* Settled jobs, workers and clocks.
LEMMA AsideQueue ==
  ASSUME Shape, QueueInv,
         \/ \E j \in Jobs : Settle(j) \/ StartJob(j) \/ EndJob(j)
         \/ \E k \in Keys : KeyBecomesDue(k)
         \/ LeaderExpires
         \/ UNCHANGED vars
  PROVE  QueueInv' /\ UNCHANGED list /\ \A j : Known(j)' = Known(j)
<1>1. UNCHANGED <<dedupe, doc, list, disp, wf>>
  BY DEF Settle, StartJob, EndJob, KeyBecomesDue, LeaderExpires, vars, redisVars, wfVars
<1>2. \A j : Known(j)' = Known(j)
  <2>1. CASE \E j \in Jobs : StartJob(j) \/ EndJob(j)
    <3>1. PICK j \in Jobs, s \in {"active", "terminal", "waiting"} :
                bull[j] # "absent" /\ bull' = [bull EXCEPT ![j] = s]
      BY <2>1 DEF StartJob, EndJob
    <3>2. bull \in [Jobs -> BullStates]
      BY DEF Shape, TypeOK
    <3> QED BY <3>1, <3>2 DEF Known
  <2>2. CASE ~ \E j \in Jobs : StartJob(j) \/ EndJob(j)
    BY <2>2 DEF Settle, KeyBecomesDue, LeaderExpires, vars, Known
  <2> QED BY <2>1, <2>2
<1>3. \A k \in Keys : sched'[k] = "none" <=> sched[k] = "none"
  BY DEF Settle, StartJob, EndJob, KeyBecomesDue, LeaderExpires, vars, redisVars, Shape, TypeOK
<1>4. ListsFit' /\ PendingListed'
  BY <1>1, <1>2, <1>3, BacklogAside
<1>5. TicksFit' /\ NoCleanup'
  BY <1>1, <1>2 DEF QueueInv, TicksFit, TickFit, NoCleanup
<1> QED BY <1>1, <1>2, <1>4, <1>5 DEF QueueInv

\* No cleanup is on its way, and none begins.
LEMMA NoCleanupStep ==
  ASSUME QueueInv, NoStop, NoStop', NEW w \in Workflows, StartCleanup(w) \/ Cleanup(w)
  PROVE  FALSE
<1>1. wf[w].pc = "idle"
  BY DEF QueueInv, NoCleanup
<1>2. ~StartCleanup(w) /\ ~Stopped(w)
  BY DEF NoStop, StartCleanup, Stopped
<1> QED BY <1>1, <1>2 DEF Cleanup, ReadDoc, RemovePending, ReadLength, RescheduleKey, StartBullPhase,
                          InspectBull, RemoveBull, ClearDedupe, EndCleanup, InCleanup

LEMMA QueueStays ==
  Shape /\ QueueInv /\ OneTick /\ NoStop /\ NoStop' /\ [Next]_vars => QueueInv'
<1> SUFFICES ASSUME Shape, QueueInv, OneTick, NoStop, NoStop', [Next]_vars PROVE QueueInv'
  OBVIOUS
<1>1. CASE \E j \in Jobs : Enqueue(j) \/ Settle(j) \/ StartJob(j) \/ EndJob(j)
  BY <1>1, EnqueueQueue, AsideQueue
<1>2. CASE \E d \in Dispatchers :
              Dispatch(d) \/ Granted(d) \/ Refused(d) \/ AddFails(d) \/ MarkFails(d) \/ Abort(d)
  BY <1>2, QuietTick, AddQueue, MarkQueue DEF Dispatch
<1>3. CASE \E w \in Workflows : StartCleanup(w) \/ Cleanup(w)
  BY <1>3, NoCleanupStep
<1>4. CASE LeaderExpires \/ (\E k \in Keys : KeyBecomesDue(k)) \/ UNCHANGED vars
  BY <1>4, AsideQueue
<1> QED BY <1>1, <1>2, <1>3, <1>4 DEF Next

\* A pending job keeps its document, its place in the list of its key and the
\* key its place in the schedule, whatever fails on the way to BullMQ, as long
\* as the ticks do not overlap and nothing is cleaned up.
THEOREM NothingPendingIsLost == Spec /\ [](OneTick /\ NoStop) => []NoLostPendingJob
<1>1. Shape /\ QueueInv => NoLostPendingJob
  <2> SUFFICES ASSUME Shape, QueueInv, NEW j \in Jobs, dedupe[j] = "pending"
               PROVE  j \in doc /\ Listed(j) /\ sched[KeyOf[j]] # "none"
    BY DEF NoLostPendingJob
  <2> DEFINE k == KeyOf[j]
  <2>1. k \in Keys /\ list[k] \in Seq(Jobs)
    BY BacklogAssumption DEF Shape, TypeOK
  <2>2. PICK i \in 1..Len(list[k]) : list[k][i] = j
    BY DEF QueueInv, PendingListed
  <2>3. ListFit(k)
    BY <2>1 DEF QueueInv, ListsFit
  <2>4. j \in doc
    BY <2>2, <2>3 DEF ListFit
  <2>5. Listed(j)
    BY <2>1, <2>2, LenProperties DEF Listed
  <2>6. list[k] # <<>>
    BY <2>1, <2>2, EmptySeq
  <2> QED BY <2>3, <2>4, <2>5, <2>6 DEF ListFit
<1> QED BY <1>1, InitShape, ShapeStays, InitQueue, QueueStays, PTL DEF Spec

-----------------------------------------------------------------------------
(* The lists and BullMQ implement the queues of JobHandoff, step by step.   *)

Queue == [k \in Keys |-> Waiting(list[k])]
Handed == {j \in Jobs : Known(j)}

LEMMA InitHandoff == Init => Handoff!Init
BY DEF Init, Handoff!Init, Waiting, Known

\* Nothing moves in the abstract queues unless a list moves or BullMQ learns
\* of a job.
LEMMA HandoffStutters ==
  ASSUME \A k \in Keys : Waiting(list[k])' = Waiting(list[k]),
         \A j \in Jobs : Known(j)' = Known(j)
  PROVE  UNCHANGED Handoff!vars
<1>1. [k \in Keys |-> Waiting(list[k])]' = [k \in Keys |-> Waiting(list[k])]
  OBVIOUS
<1>2. {j \in Jobs : Known(j)}' = {j \in Jobs : Known(j)}
  OBVIOUS
<1> QED BY <1>1, <1>2 DEF Handoff!vars

LEMMA AsideStutters ==
  ASSUME UNCHANGED list, \A j : Known(j)' = Known(j)
  PROVE  UNCHANGED Handoff!vars
<1>1. \A k \in Keys : Waiting(list[k])' = Waiting(list[k])
  BY DEF Waiting
<1> QED BY <1>1, HandoffStutters

\* An accepted job waits at the end of its key's queue.
LEMMA EnqueueHandsOff ==
  ASSUME Shape, QueueInv, NEW j \in Jobs, Enqueue(j), Accepts(j)
  PROVE  Handoff!Accept(j)
<1> DEFINE k == KeyOf[j]
           l == list[k]
           m == Append(l, j)
<1>1. /\ k \in Keys /\ l \in Seq(Jobs) /\ Len(l) \in Nat /\ ~Known(j)
      /\ list' = [list EXCEPT ![k] = m]
      /\ \A i \in 1..Len(l) : l[i] # j
  BY Appended
<1>2. list'[k] = m /\ \A h \in Keys : h # k => list'[h] = list[h]
  BY <1>1 DEF Shape, TypeOK
<1>3. \A i : Known(i)' <=> Known(i)
  BY DEF Enqueue, Known
<1>4. Waiting(l) \in Seq(Jobs) /\ \A i \in 1..Len(Waiting(l)) : Waiting(l)[i] # j
  <2>1. CASE l # <<>> /\ Known(Head(l))
    <3>1. /\ Tail(l) \in Seq(Jobs) /\ Len(Tail(l)) = Len(l) - 1
          /\ \A i \in 1..Len(Tail(l)) : Tail(l)[i] = l[i + 1]
      BY <1>1, <2>1, HeadTailProperties
    <3>2. \A i \in 1..Len(Tail(l)) : i + 1 \in 1..Len(l)
      BY <1>1, <3>1
    <3> QED BY <1>1, <2>1, <3>1, <3>2 DEF Waiting
  <2>2. CASE ~(l # <<>> /\ Known(Head(l)))
    BY <1>1, <2>2 DEF Waiting
  <2> QED BY <2>1, <2>2
<1>5. Waiting(m) = Append(Waiting(l), j)
  <2>1. CASE l = <<>>
    <3>1. Head(m) = j /\ Waiting(l) = l
      BY <1>1, <2>1, HeadTailAppend DEF Waiting
    <3> QED BY <1>1, <3>1 DEF Waiting
  <2>2. CASE l # <<>>
    <3>1. m # <<>> /\ Head(m) = Head(l) /\ Tail(m) = Append(Tail(l), j)
      BY <1>1, <2>2, AppendProperties, HeadTailAppend
    <3> HIDE DEF m
    <3>2. CASE Known(Head(l))
      BY <2>2, <3>1, <3>2 DEF Waiting
    <3>3. CASE ~Known(Head(l))
      BY <2>2, <3>1, <3>3 DEF Waiting, m
    <3> QED BY <3>2, <3>3
  <2> QED BY <2>1, <2>2
<1>6. ~Handoff!Waits(j)
  <2>1. Queue[KeyOf[j]] = Waiting(l)
    BY <1>1 DEF Queue
  <2>2. DOMAIN Waiting(l) = 1..Len(Waiting(l))
    BY <1>4, LenProperties
  <2> QED BY <1>4, <2>1, <2>2 DEF Handoff!Waits, Queue
<1>7. Queue' = [Queue EXCEPT ![k] = Append(@, j)]
  <2>1. ASSUME NEW h \in Keys
        PROVE  Queue'[h] = IF h = k THEN Append(Waiting(l), j) ELSE Queue[h]
    <3>1. Queue'[h] = Waiting(list[h])'
      BY DEF Queue
    <3>2. CASE h = k
      <4>1. Waiting(list[h])' = Waiting(m)
        BY <1>2, <1>3, <3>2 DEF Waiting
      <4> QED BY <1>5, <3>1, <3>2, <4>1
    <3>3. CASE h # k
      BY <1>2, <1>3, <3>1, <3>3 DEF Waiting, Queue
    <3> QED BY <3>2, <3>3
  <2> QED BY <1>1, <2>1 DEF Queue
<1>8. Handed' = Handed /\ j \notin Handed
  BY <1>1, <1>3 DEF Handed
<1> QED BY <1>6, <1>7, <1>8 DEF Handoff!Accept, Queue, Handed

\* The head of a queue is handed over.
LEMMA AddHandsOff ==
  ASSUME Shape, QueueInv, NEW d \in Dispatchers, AddReady(d), ~Known(disp[d].job)
  PROVE  Handoff!HandOver(disp[d].key)
<1>0. PICK j, k : j = disp[d].job /\ k = disp[d].key
  OBVIOUS
<1> DEFINE l == list[k]
<1>1. /\ j \in Jobs /\ k \in Keys /\ l \in Seq(Jobs) /\ l # <<>> /\ j = Head(l)
      /\ \A h \in Keys : h # k => \A i \in 1..Len(list[h]) : list[h][i] # j
  BY <1>0, InHandIsHead DEF AddReady, At
<1>2. UNCHANGED list
  BY DEF AddReady, redisVars
<1>3. \A i \in Jobs : Known(i)' <=> Known(i) \/ i = j
  BY <1>0, <1>1 DEF AddReady, Known, Shape, TypeOK
<1>4. Waiting(l) = l /\ Waiting(list[k])' = Tail(l)
  BY <1>0, <1>1, <1>2, <1>3 DEF Waiting
<1>5. \A h \in Keys : h # k => Waiting(list[h])' = Waiting(list[h])
  <2> SUFFICES ASSUME NEW h \in Keys, h # k, list[h] # <<>>
               PROVE  Known(Head(list[h]))' <=> Known(Head(list[h]))
    BY <1>2 DEF Waiting
  <2>1. list[h] \in Seq(Jobs)
    BY DEF Shape, TypeOK
  <2>2. Head(list[h]) \in Jobs /\ Head(list[h]) = list[h][1] /\ 1 \in 1..Len(list[h])
    BY <2>1, HeadIsFirst, LenProperties
  <2>3. PICK i \in Jobs : i = Head(list[h]) /\ i # j
    BY <1>1, <2>2
  <2>4. Known(i)' <=> Known(i)
    BY <1>3, <2>3
  <2> QED BY <1>2, <2>3, <2>4 DEF Known
<1>6. Queue[k] = l /\ Queue' = [Queue EXCEPT ![k] = Tail(@)]
  <2>1. \A h \in Keys : Queue[h] = Waiting(list[h]) /\ Queue'[h] = Waiting(list[h])'
    BY DEF Queue
  <2>2. \A h \in Keys : Queue'[h] = IF h = k THEN Tail(l) ELSE Queue[h]
    BY <1>4, <1>5, <2>1
  <2>3. Queue[k] = l
    BY <1>1, <1>4, <2>1
  <2> QED BY <2>2, <2>3 DEF Queue
<1>7. Handed' = Handed \cup {j}
  BY <1>1, <1>3 DEF Handed
<1> QED BY <1>0, <1>1, <1>6, <1>7 DEF Handoff!HandOver, Queue, Handed

\* LREM takes off a head that was handed over already.
LEMMA MarkHandsOff ==
  ASSUME Shape, QueueInv, NEW d \in Dispatchers, MarkReady(d)
  PROVE  UNCHANGED Handoff!vars
<1>0. PICK k : k = disp[d].key
  OBVIOUS
<1> DEFINE l == list[k]
           m == Tail(l)
<1>1. k \in Keys /\ l \in Seq(Jobs) /\ l # <<>> /\ disp[d].job = Head(l) /\ Len(l) \in Nat
  BY <1>0, InHandIsHead DEF MarkReady, At
<1>2. /\ list' = [list EXCEPT ![k] = m] /\ m \in Seq(Jobs) /\ Len(m) = Len(l) - 1
      /\ \A i \in 1..Len(m) : m[i] = l[i + 1]
  BY <1>0, MarkedHead
<1>3. \A i : Known(i)' <=> Known(i)
  BY DEF MarkReady, Known
<1>4. Known(Head(l))
  BY <1>1 DEF QueueInv, TicksFit, TickFit, MarkReady, At
<1>5. Waiting(l) = m
  BY <1>1, <1>4 DEF Waiting
<1>6. m # <<>> => ~Known(Head(m))
  <2> SUFFICES ASSUME m # <<>> PROVE ~Known(Head(m))
    OBVIOUS
  <2> HIDE DEF m
  <2>1. Len(m) >= 1 /\ Head(m) = m[1] /\ Len(m) \in Nat
    BY <1>2, HeadIsFirst, LenProperties
  <2>2. 1 \in 1..Len(m)
    BY <2>1
  <2>3. m[1] = l[1 + 1]
    BY <1>2, <2>2
  <2>4. 2 \in 1..Len(l) /\ m[1] = l[2]
    BY <1>1, <1>2, <2>1, <2>3
  <2> QED BY <1>1, <2>1, <2>4 DEF QueueInv, ListsFit, ListFit
<1>8. list'[k] = m /\ \A h \in Keys : h # k => list'[h] = list[h]
  BY <1>1, <1>2 DEF Shape, TypeOK
<1> HIDE DEF m
<1>9. \A h \in Keys : Waiting(list[h])' = Waiting(list[h])
  <2>1. Waiting(list[k])' = m
    BY <1>3, <1>6, <1>8 DEF Waiting
  <2>2. ASSUME NEW h \in Keys, h # k PROVE Waiting(list[h])' = Waiting(list[h])
    BY <1>3, <1>8, <2>2 DEF Waiting
  <2> QED BY <1>5, <2>1, <2>2
<1> QED BY <1>3, <1>9, HandoffStutters

LEMMA StepHandsOff ==
  Shape /\ QueueInv /\ NoStop /\ NoStop' /\ [Next]_vars => [Handoff!Next]_(Handoff!vars)
<1> SUFFICES ASSUME Shape, QueueInv, NoStop, NoStop', [Next]_vars
             PROVE  Handoff!Next \/ UNCHANGED Handoff!vars
  OBVIOUS
<1>1. ASSUME NEW j \in Jobs, Enqueue(j) PROVE Handoff!Next \/ UNCHANGED Handoff!vars
  <2>1. CASE Accepts(j)
    BY <1>1, <2>1, EnqueueHandsOff DEF Handoff!Next
  <2>2. CASE ~Accepts(j)
    <3>1. UNCHANGED <<list, bull>>
      BY <1>1, <2>2 DEF Enqueue, redisVars
    <3> QED BY <3>1, AsideStutters DEF Known
  <2> QED BY <2>1, <2>2
<1>2. ASSUME NEW d \in Dispatchers,
             Dispatch(d) \/ Granted(d) \/ Refused(d) \/ AddFails(d) \/ MarkFails(d) \/ Abort(d)
      PROVE  Handoff!Next \/ UNCHANGED Handoff!vars
  <2>1. CASE AddReady(d)
    <3>1. CASE Known(disp[d].job)
      <4>1. UNCHANGED <<list, bull>>
        BY <2>1, <3>1 DEF AddReady, redisVars
      <4> QED BY <4>1, AsideStutters DEF Known
    <3>2. CASE ~Known(disp[d].job)
      <4>1. disp[d].key \in Keys
        BY <2>1, InHandIsHead DEF AddReady, At
      <4> QED BY <2>1, <3>2, <4>1, AddHandsOff DEF Handoff!Next
    <3> QED BY <3>1, <3>2
  <2>2. CASE MarkReady(d)
    BY <2>2, MarkHandsOff
  <2>3. CASE ~AddReady(d) /\ ~MarkReady(d)
    <3>1. ~PopHead(d)
      BY DEF QueueInv, TicksFit, TickFit, PopHead, At
    <3>2. UNCHANGED <<list, bull>>
      BY <1>2, <2>3, <3>1 DEF Dispatch, Lead, ReadDue, NextKey, PeekHead, Unschedule, FetchDoc,
              CheckExisting, Defer, Granted, Refused, AddFails, MarkFails, Abort, redisVars
    <3> QED BY <3>2, AsideStutters DEF Known
  <2> QED BY <2>1, <2>2, <2>3
<1>3. CASE \E w \in Workflows : StartCleanup(w) \/ Cleanup(w)
  BY <1>3, NoCleanupStep
<1>4. CASE \/ \E j \in Jobs : Settle(j) \/ StartJob(j) \/ EndJob(j)
           \/ \E k \in Keys : KeyBecomesDue(k)
           \/ LeaderExpires
           \/ UNCHANGED vars
  BY <1>4, AsideQueue, AsideStutters
<1> QED BY <1>1, <1>2, <1>3, <1>4 DEF Next

\* Under the same conditions every step of producers, dispatchers and workers
\* is a step of the first-in-first-out queues, or leaves them alone: jobs reach
\* BullMQ in the order they were accepted in, each once.
THEOREM ImplementsHandoffSteps ==
  Spec /\ [](OneTick /\ NoStop) => Handoff!Init /\ [][Handoff!Next]_(Handoff!vars)
<1>1. Init => Handoff!Init
  BY InitHandoff
<1> QED BY <1>1, InitShape, ShapeStays, InitQueue, QueueStays, StepHandsOff, PTL DEF Spec

-----------------------------------------------------------------------------
(* One worker process: the ticks cannot overlap.                            *)

\* With a single dispatcher the leader key is not needed.
COROLLARY OneHandoverWithOneDispatcher ==
  ASSUME \A c, d \in Dispatchers : c = d
  PROVE  Spec => []OneHandoverPerAcceptance
<1>1. OneTick
  BY DEF OneTick
<1> QED BY <1>1, OneHandover, PTL

\* Without workflows that are ever stopped nothing is cleaned up.
COROLLARY NothingPendingIsLostWithoutStop ==
  ASSUME \A c, d \in Dispatchers : c = d, Cleaners = {}
  PROVE  Spec => []NoLostPendingJob
<1>1. TypeOK => OneTick /\ NoStop
  BY DEF OneTick, NoStop, TypeOK
<1> QED BY <1>1, TypeCorrect, NothingPendingIsLost, PTL

=============================================================================
