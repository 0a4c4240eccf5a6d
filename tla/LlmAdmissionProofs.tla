------------------------- MODULE LlmAdmissionProofs -------------------------
(***************************************************************************)
(* Theorems about LlmAdmission for any number of jobs, dispatchers and     *)
(* reservations, any limit, lease time and number of faults.               *)
(***************************************************************************)
EXTENDS LlmAdmission, FiniteSetTheorems, TLAPS

-----------------------------------------------------------------------------
(* Type correctness.                                                        *)

\* A job a worker runs is active in BullMQ, and a job BullMQ has not finished
\* with has an attempt left: without it attempts could leave its type.
AttemptsLeft ==
    \A j \in Jobs :
       /\ phase[j] # "none" => queue[j] = "active"
       /\ queue[j] \notin {"completed", "failed"} => attempts[j] < MaxAttempts

LEMMA TypeStep == TypeOK /\ AttemptsLeft /\ [Next]_vars => TypeOK'
<1> SUFFICES ASSUME TypeOK, AttemptsLeft, [Next]_vars PROVE TypeOK'
  OBVIOUS
<1> USE AdmissionAssumption DEF TypeOK, gateVars, bullVars, workVars
<1>1. ASSUME NEW d \in Dispatchers, Reserve(d) PROVE TypeOK'
  BY <1>1 DEF Reserve
<1>2. ASSUME NEW d \in Dispatchers, SkipAdmission(d) PROVE TypeOK'
  BY <1>2 DEF SkipAdmission
<1>3. ASSUME NEW d \in Dispatchers, AddReady(d) PROVE TypeOK'
  <2>1. disp' \in [Dispatchers -> [job : Jobs \cup {None}, res : Reservations \cup {None}]]
    BY <1>3 DEF AddReady, IdleDispatcher
  <2>2. disp[d].job \in Jobs /\ disp[d].res \in Reservations \cup {None}
    BY <1>3 DEF AddReady
  <2>3. /\ queue' \in [Jobs -> {"pending", "waiting", "active", "delayed", "stalled",
                                "completed", "failed", "removed"}]
        /\ admission' \in [Jobs -> Reservations \cup {None}]
    BY <1>3, <2>2 DEF AddReady, Admission
  <2> QED
    BY <1>3, <2>1, <2>3 DEF AddReady
<1>4. ASSUME NEW d \in Dispatchers, AddFails(d) PROVE TypeOK'
  BY <1>4 DEF AddFails, Fault, IdleDispatcher
<1>5. ASSUME NEW d \in Dispatchers, DispatcherCrashes(d) PROVE TypeOK'
  BY <1>5 DEF DispatcherCrashes, Fault, IdleDispatcher
<1>6. ASSUME NEW j \in Jobs, Promote(j) PROVE TypeOK'
  BY <1>6 DEF Promote
<1>7. ASSUME NEW j \in Jobs, StartJob(j) PROVE TypeOK'
  BY <1>7 DEF StartJob
<1>8. ASSUME NEW j \in Jobs, Heartbeat(j) PROVE TypeOK'
  BY <1>8 DEF Heartbeat, Beats, Extends
<1>9. ASSUME NEW j \in Jobs, AcquireLimiter(j) PROVE TypeOK'
  <2>1. slots' \in Nat
    BY <1>9 DEF AcquireLimiter
  <2>2. counted' \in [Jobs -> BOOLEAN]
    <3>1. counted' = counted \/ counted' = [counted EXCEPT ![j] = TRUE]
      BY <1>9, Zenon DEF AcquireLimiter
    <3> QED
      BY <3>1
  <2> QED
    BY <1>9, <2>1, <2>2 DEF AcquireLimiter
<1>10. ASSUME NEW j \in Jobs, RateLimited(j) PROVE TypeOK'
  BY <1>10 DEF RateLimited
<1>11. ASSUME NEW j \in Jobs, CallSucceeds(j) PROVE TypeOK'
  BY <1>11 DEF CallSucceeds, ReleaseSlot, WriteRow
<1>12. ASSUME NEW j \in Jobs, CallFails(j) PROVE TypeOK'
  BY <1>12 DEF CallFails, ReleaseSlot
<1>13. ASSUME NEW j \in Jobs, EndAttempt(j) PROVE TypeOK'
  <2>1. lease' \in [Reservations -> 0..LeaseTTL] /\ faults' \in 0..MaxFaults
    BY <1>13 DEF EndAttempt, Fault
  <2>2. attempts' \in [Jobs -> 0..MaxAttempts]
    <3>1. CASE phase[j] = "errored"
      <4>1. attempts' = [attempts EXCEPT ![j] = @ + 1]
        BY <1>13, <3>1 DEF EndAttempt
      <4> QED
        BY <1>13, <3>1, <4>1 DEF AttemptsLeft
    <3>2. CASE phase[j] # "errored"
      BY <1>13, <3>2 DEF EndAttempt
    <3> QED
      BY <3>1, <3>2
  <2>4. failedEvent' \in [Jobs -> BOOLEAN]
    <3>1. \/ failedEvent' = failedEvent
          \/ failedEvent' = [failedEvent EXCEPT ![j] = ~Retries(j)]
      BY <1>13, Zenon DEF EndAttempt
    <3>2. (~Retries(j)) \in BOOLEAN
      BY DEF Retries
    <3> QED
      BY <3>1, <3>2
  <2>3. queue' \in [Jobs -> {"pending", "waiting", "active", "delayed", "stalled",
                             "completed", "failed", "removed"}]
    BY <1>13 DEF EndAttempt
  <2> QED
    BY <1>13, <2>1, <2>2, <2>3, <2>4 DEF EndAttempt
<1>14. ASSUME NEW j \in Jobs, WorkerCrashes(j) PROVE TypeOK'
  BY <1>14 DEF WorkerCrashes, Fault
<1>15. ASSUME NEW j \in Jobs, StalledCheck(j) PROVE TypeOK'
  BY <1>15 DEF StalledCheck
<1>16. ASSUME NEW j \in Jobs, OnFailed(j) PROVE TypeOK'
  BY <1>16 DEF OnFailed, WriteRow, Fault
<1>17. ASSUME NEW j \in Jobs, Reconcile(j) PROVE TypeOK'
  BY <1>17 DEF Reconcile, WriteRow
<1>18. ASSUME NEW j \in Jobs, RemoveQueued(j) PROVE TypeOK'
  BY <1>18 DEF RemoveQueued
<1>19. ASSUME Tick PROVE TypeOK'
  <2>1. ASSUME NEW r \in Reservations
        PROVE  (IF lease[r] = 0 THEN 0 ELSE lease[r] - 1) \in 0..LeaseTTL
    <3>1. lease[r] \in 0..LeaseTTL /\ LeaseTTL \in Nat
      OBVIOUS
    <3> QED
      BY ONLY <3>1
  <2>2. lease' \in [Reservations -> 0..LeaseTTL]
    BY <1>19, <2>1 DEF Tick
  <2> QED
    BY <1>19, <2>2 DEF Tick
<1>20. ASSUME SlotsExpire PROVE TypeOK'
  BY <1>20 DEF SlotsExpire
<1>21. ASSUME UNCHANGED vars PROVE TypeOK'
  BY <1>21 DEF vars
<1> QED
  BY <1>1, <1>2, <1>3, <1>4, <1>5, <1>6, <1>7, <1>8, <1>9, <1>10, <1>11, <1>12,
     <1>13, <1>14, <1>15, <1>16, <1>17, <1>18, <1>19, <1>20, <1>21
  DEF Next, Dispatch, Work

LEMMA AttemptsStep == TypeOK /\ AttemptsLeft /\ [Next]_vars => AttemptsLeft'
<1> SUFFICES ASSUME TypeOK, AttemptsLeft, [Next]_vars PROVE AttemptsLeft'
  OBVIOUS
<1> USE AdmissionAssumption DEF TypeOK, AttemptsLeft, gateVars, bullVars, workVars
<1>1. ASSUME NEW d \in Dispatchers, Dispatch(d) PROVE AttemptsLeft'
  BY <1>1 DEF Dispatch, Reserve, SkipAdmission, AddReady, AddFails, DispatcherCrashes
<1>2. ASSUME NEW j \in Jobs, Work(j), ~EndAttempt(j) PROVE AttemptsLeft'
  BY <1>2 DEF Work, Promote, StartJob, Heartbeat, AcquireLimiter, RateLimited,
     CallSucceeds, CallFails, WorkerCrashes, StalledCheck, OnFailed
<1>3. ASSUME NEW j \in Jobs, EndAttempt(j) PROVE AttemptsLeft'
  BY <1>3 DEF EndAttempt, Retries
<1>4. ASSUME NEW j \in Jobs, Reconcile(j) \/ RemoveQueued(j) PROVE AttemptsLeft'
  BY <1>4 DEF Reconcile, RemoveQueued
<1>5. ASSUME Tick \/ SlotsExpire \/ UNCHANGED vars PROVE AttemptsLeft'
  BY <1>5 DEF Tick, SlotsExpire, vars
<1> QED
  BY <1>1, <1>2, <1>3, <1>4, <1>5 DEF Next

LEMMA TypedProgress == Spec => [](TypeOK /\ AttemptsLeft)
<1>1. Init => TypeOK /\ AttemptsLeft
  BY AdmissionAssumption DEF Init, TypeOK, AttemptsLeft, IdleDispatcher
<1> QED
  BY <1>1, TypeStep, AttemptsStep, PTL DEF Spec

\* Every variable keeps its type; attempts, stalls and faults their bounds.
THEOREM TypeCorrect == Spec => []TypeOK
BY TypedProgress, PTL

-----------------------------------------------------------------------------
(* No more leases are alive than the key's concurrency.                     *)

LEMMA LiveFinite == IsFiniteSet(Live) /\ IsFiniteSet(Live')
<1>1. Live \in SUBSET Reservations /\ Live' \in SUBSET Reservations
  BY DEF Live
<1> QED
  BY <1>1, FS_Subset, AdmissionAssumption

\* Taking leases away, or extending one that is alive, keeps the bound.
LEMMA FewerLeases ==
  ASSUME LeaseBound, Live' \subseteq Live
  PROVE  LeaseBound'
<1>1. Cardinality(Live') <= Cardinality(Live)
  BY FS_Subset, LiveFinite
<1>2. Cardinality(Live) \in Nat /\ Cardinality(Live') \in Nat
  BY FS_CardinalityType, LiveFinite
<1> QED
  BY <1>1, <1>2, AdmissionAssumption DEF LeaseBound

LEMMA LeaseBoundStep == TypeOK /\ LeaseBound /\ [Next]_vars => LeaseBound'
<1> SUFFICES ASSUME TypeOK, LeaseBound, [Next]_vars PROVE LeaseBound'
  OBVIOUS
<1> USE AdmissionAssumption
<1>1. ASSUME NEW d \in Dispatchers, Reserve(d) PROVE LeaseBound'
  <2>1. PICK r \in Reservations : lease' = [lease EXCEPT ![r] = LeaseTTL]
    BY <1>1 DEF Reserve
  <2>2. Live' \subseteq Live \cup {r}
    BY <2>1 DEF TypeOK, Live
  <2>3. Cardinality(Live) < Limit /\ Cardinality(Live) \in Nat
    BY <1>1, LiveFinite, FS_CardinalityType DEF Reserve, Admits
  <2>4. IsFiniteSet(Live \cup {r}) /\ Cardinality(Live \cup {r}) <= Limit
    <3>1. /\ IsFiniteSet(Live \cup {r})
          /\ \/ Cardinality(Live \cup {r}) = Cardinality(Live)
             \/ Cardinality(Live \cup {r}) = Cardinality(Live) + 1
      BY LiveFinite, FS_AddElement
    <3> QED
      BY <2>3, <3>1
  <2>5. Cardinality(Live') <= Cardinality(Live \cup {r})
    BY <2>2, <2>4, FS_Subset
  <2>6. Cardinality(Live') \in Nat /\ Cardinality(Live \cup {r}) \in Nat
    BY <2>4, LiveFinite, FS_CardinalityType
  <2> QED
    BY <2>4, <2>5, <2>6 DEF LeaseBound
<1>2. ASSUME NEW d \in Dispatchers, Dispatch(d), ~Reserve(d) PROVE Live' \subseteq Live
  BY <1>2 DEF Dispatch, SkipAdmission, AddReady, AddFails, DispatcherCrashes,
     gateVars, Live, TypeOK
<1>3. ASSUME NEW j \in Jobs, Heartbeat(j) PROVE Live' \subseteq Live
  BY <1>3 DEF Heartbeat, Beats, Extends, Live, TypeOK
<1>4. ASSUME NEW j \in Jobs, EndAttempt(j) PROVE Live' \subseteq Live
  <2>1. \A r \in Reservations : lease'[r] > 0 => lease[r] > 0
    BY <1>4 DEF EndAttempt
  <2> QED
    BY <2>1 DEF Live
<1>5. ASSUME NEW j \in Jobs, Work(j), ~Heartbeat(j), ~EndAttempt(j) PROVE lease' = lease
  BY <1>5 DEF Work, Promote, StartJob, AcquireLimiter, RateLimited, CallSucceeds,
     CallFails, WorkerCrashes, StalledCheck, OnFailed, gateVars
<1>6. ASSUME NEW j \in Jobs, Reconcile(j) \/ RemoveQueued(j) PROVE lease' = lease
  BY <1>6 DEF Reconcile, RemoveQueued, gateVars
<1>7. ASSUME Tick PROVE Live' \subseteq Live
  BY <1>7 DEF Tick, Live, TypeOK
<1>8. ASSUME SlotsExpire \/ UNCHANGED vars PROVE lease' = lease
  BY <1>8 DEF SlotsExpire, vars, gateVars
<1>9. ASSUME lease' = lease PROVE Live' \subseteq Live
  BY <1>9 DEF Live
<1> QED
  BY <1>1, <1>2, <1>3, <1>4, <1>5, <1>6, <1>7, <1>8, <1>9, FewerLeases DEF Next

\* Whatever crashes, retries, duplicate dispatches and heartbeats do, at most
\* Limit leases are alive: TRY_RESERVE_SCRIPT is the only way to a new one.
THEOREM LeasesBounded == Spec => []LeaseBound
<1>1. Init => LeaseBound
  <2>1. ASSUME Init PROVE Live = {}
    BY <2>1 DEF Init, Live
  <2> QED
    BY <2>1, FS_EmptySet, AdmissionAssumption DEF LeaseBound
<1>2. Spec => []TypeOK
  BY TypeCorrect
<1> QED
  BY <1>1, <1>2, LeaseBoundStep, PTL DEF Spec

-----------------------------------------------------------------------------
(* A call keeps its lease.                                                  *)

\* A reservation is in one place: with one dispatcher, or with one job, whose
\* payload and running attempt may both name it.
ReservationsDistinct ==
    /\ \A j, k \in Jobs : j # k =>
          /\ held[j] # None => held[j] # held[k] /\ held[j] # admission[k]
          /\ admission[j] # None => admission[j] # admission[k]
    /\ \A d \in Dispatchers, j \in Jobs : disp[d].res # None =>
          disp[d].res # held[j] /\ disp[d].res # admission[j]
    /\ \A d, e \in Dispatchers : d # e /\ disp[d].res # None =>
          disp[d].res # disp[e].res

LEMMA DistinctStep == TypeOK /\ ReservationsDistinct /\ [Next]_vars => ReservationsDistinct'
<1> SUFFICES ASSUME TypeOK, ReservationsDistinct, [Next]_vars
             PROVE  ReservationsDistinct'
  OBVIOUS
<1> USE AdmissionAssumption DEF TypeOK, ReservationsDistinct
<1>1. ASSUME NEW d \in Dispatchers, Reserve(d) PROVE ReservationsDistinct'
  <2>1. PICK j \in Jobs, r \in Reservations :
          Fresh(r) /\ disp' = [disp EXCEPT ![d] = [job |-> j, res |-> r]]
    BY <1>1 DEF Reserve
  <2> QED
    BY <1>1, <2>1 DEF Reserve, Fresh, bullVars, workVars
<1>2. ASSUME NEW d \in Dispatchers, AddReady(d) PROVE ReservationsDistinct'
  <2>1. /\ disp' = [disp EXCEPT ![d] = IdleDispatcher]
        /\ held' = held
        /\ \/ admission' = admission
           \/ admission' = [admission EXCEPT ![disp[d].job] = disp[d].res]
    BY <1>2, Zenon DEF AddReady, Admission, workVars
  <2> QED
    BY <2>1 DEF IdleDispatcher
<1>3. ASSUME NEW d \in Dispatchers, SkipAdmission(d) PROVE ReservationsDistinct'
  BY <1>3 DEF SkipAdmission, bullVars, workVars
<1>4. ASSUME NEW d \in Dispatchers, AddFails(d) \/ DispatcherCrashes(d)
      PROVE  ReservationsDistinct'
  <2>1. disp' = [disp EXCEPT ![d] = IdleDispatcher] /\ UNCHANGED <<held, admission>>
    BY <1>4, Zenon DEF AddFails, DispatcherCrashes, bullVars, workVars
  <2> QED
    BY <2>1 DEF IdleDispatcher
<1>5. ASSUME NEW j \in Jobs, StartJob(j) PROVE ReservationsDistinct'
  BY <1>5 DEF StartJob
<1>6. ASSUME NEW j \in Jobs, EndAttempt(j) \/ WorkerCrashes(j) PROVE ReservationsDistinct'
  <2>1. held' = [held EXCEPT ![j] = None] /\ UNCHANGED <<admission, disp>>
    BY <1>6 DEF EndAttempt, WorkerCrashes
  <2> QED
    BY <2>1
<1>7. ASSUME NEW j \in Jobs, RateLimited(j) PROVE ReservationsDistinct'
  BY <1>7 DEF RateLimited
<1>8. ASSUME UNCHANGED <<held, admission, disp>> PROVE ReservationsDistinct'
  BY <1>8
<1>9. ASSUME NEW j \in Jobs, Work(j), ~StartJob(j), ~EndAttempt(j), ~WorkerCrashes(j),
             ~RateLimited(j)
      PROVE  UNCHANGED <<held, admission, disp>>
  BY <1>9 DEF Work, Promote, Heartbeat, AcquireLimiter, CallSucceeds, CallFails,
     StalledCheck, OnFailed, bullVars, workVars
<1>10. ASSUME NEW j \in Jobs, Reconcile(j) \/ RemoveQueued(j)
       PROVE  UNCHANGED <<held, admission, disp>>
  BY <1>10 DEF Reconcile, RemoveQueued, bullVars, workVars
<1>11. ASSUME Tick \/ SlotsExpire \/ UNCHANGED vars
       PROVE  UNCHANGED <<held, admission, disp>>
  BY <1>11 DEF Tick, SlotsExpire, vars, bullVars, workVars
<1> QED
  BY <1>1, <1>2, <1>3, <1>4, <1>5, <1>6, <1>7, <1>8, <1>9, <1>10, <1>11
  DEF Next, Dispatch

\* One step of the system, seen by a call that goes on under a lease.
LEMMA KeepsLease ==
  ASSUME TypeOK, ReservationsDistinct, [Next]_vars, NEW j \in Jobs,
         phase[j] = "calling", phase'[j] = "calling", held[j] # None,
         lease[held[j]] > 0
  PROVE  lease'[held[j]] > 0
<1> USE AdmissionAssumption DEF TypeOK
<1>0. held[j] \in Reservations
  OBVIOUS
<1>1. ASSUME NEW d \in Dispatchers, Dispatch(d) PROVE lease'[held[j]] > 0
  <2>1. CASE Reserve(d)
    BY <1>0, <2>1 DEF Reserve
  <2>2. CASE AddFails(d)
    <3>1. disp[d].res # held[j]
      BY <1>0 DEF ReservationsDistinct
    <3> QED
      BY <1>0, <2>2, <3>1 DEF AddFails
  <2>3. CASE SkipAdmission(d) \/ AddReady(d) \/ DispatcherCrashes(d)
    BY <2>3 DEF SkipAdmission, AddReady, DispatcherCrashes, gateVars
  <2> QED
    BY <1>1, <2>1, <2>2, <2>3 DEF Dispatch
<1>2. ASSUME NEW k \in Jobs, Heartbeat(k) PROVE lease'[held[j]] > 0
  BY <1>0, <1>2 DEF Heartbeat, Beats
<1>3. ASSUME NEW k \in Jobs, EndAttempt(k) PROVE lease'[held[j]] > 0
  <2>1. k # j
    <3>1. phase' = [phase EXCEPT ![k] = "none"]
      BY <1>3 DEF EndAttempt
    <3> QED
      BY <3>1
  <2>2. held[k] # held[j]
    BY <2>1 DEF ReservationsDistinct
  <2>3. \/ lease' = [r \in Reservations |-> IF Releases(k, r) THEN 0 ELSE lease[r]]
        \/ lease' = lease
    BY <1>3, Zenon DEF EndAttempt
  <2> QED
    BY <1>0, <2>2, <2>3 DEF Releases
<1>4. ASSUME NEW k \in Jobs, Work(k), ~Heartbeat(k), ~EndAttempt(k) PROVE lease' = lease
  BY <1>4 DEF Work, Promote, StartJob, AcquireLimiter, RateLimited, CallSucceeds,
     CallFails, WorkerCrashes, StalledCheck, OnFailed, gateVars
<1>5. ASSUME NEW k \in Jobs, Reconcile(k) \/ RemoveQueued(k) PROVE lease' = lease
  BY <1>5 DEF Reconcile, RemoveQueued, gateVars
<1>6. ASSUME Tick PROVE lease'[held[j]] > 0
  <2>1. lease[held[j]] # 1
    BY <1>6 DEF Tick, Urgent
  <2>2. lease'[held[j]] = lease[held[j]] - 1
    BY <1>0, <1>6 DEF Tick
  <2>3. lease[held[j]] \in Nat
    BY <1>0
  <2> QED
    BY <2>1, <2>2, <2>3
<1>7. ASSUME SlotsExpire \/ UNCHANGED vars PROVE lease' = lease
  BY <1>7 DEF SlotsExpire, vars, gateVars
<1> QED
  BY <1>1, <1>2, <1>3, <1>4, <1>5, <1>6, <1>7 DEF Next

\* No step takes the lease from a call that goes on: not another job's release,
\* not a failed or repeated dispatch, not the clock while the worker lives.
THEOREM LeaseKept == Spec => LeaseOutlivesCall
<1>1. Init => ReservationsDistinct
  BY DEF Init, IdleDispatcher, ReservationsDistinct
<1>2. TypeOK /\ ReservationsDistinct /\ [Next]_vars =>
        [\A j \in Jobs :
           (phase[j] = "calling" /\ phase'[j] = "calling" /\ held[j] # None)
              => (lease[held[j]] > 0 => lease'[held[j]] > 0)]_vars
  BY KeepsLease
<1> QED
  BY <1>1, <1>2, TypeCorrect, DistinctStep, PTL DEF Spec, LeaseOutlivesCall

-----------------------------------------------------------------------------
(* A failed row is final.                                                   *)

\* A final 'failed' event, and a failed row, belong to a job that BullMQ has
\* finished with.
FailureEnds ==
    \A j \in Jobs :
       /\ failedEvent[j] => queue[j] = "failed"
       /\ row[j] = "failed" => queue[j] \in {"completed", "failed"}

\* BullMQ never runs a job again that it has finished with: a dispatch of the
\* same id is a no-op, and neither a stalled check nor a stop touches it.
LEMMA FinishedStays ==
  ASSUME TypeOK, AttemptsLeft, [Next]_vars, NEW j \in Jobs,
         queue[j] \in {"completed", "failed"}
  PROVE  queue'[j] = queue[j] /\ phase'[j] = "none"
<1> USE DEF TypeOK
<1>0. phase[j] = "none"
  BY DEF AttemptsLeft
<1> DEFINE Same == queue'[j] = queue[j] /\ phase'[j] = "none"
<1>1. ASSUME NEW d \in Dispatchers, Dispatch(d) PROVE Same
  <2>1. CASE AddReady(d)
    BY <1>0, <2>1 DEF AddReady, workVars
  <2>2. CASE Reserve(d) \/ SkipAdmission(d) \/ AddFails(d) \/ DispatcherCrashes(d)
    <3>1. UNCHANGED <<bullVars, workVars>>
      BY <2>2 DEF Reserve, SkipAdmission, AddFails, DispatcherCrashes
    <3> QED BY <1>0, <3>1 DEF bullVars, workVars
  <2> QED BY <1>1, <2>1, <2>2 DEF Dispatch
<1>2. ASSUME NEW k \in Jobs, Work(k) PROVE Same
  <2>1. CASE Promote(k)
    BY <1>0, <2>1 DEF Promote, workVars
  <2>2. CASE StartJob(k)
    BY <1>0, <2>2 DEF StartJob
  <2>3. CASE Heartbeat(k) \/ OnFailed(k)
    BY <1>0, <2>3 DEF Heartbeat, OnFailed, bullVars, workVars
  <2>4. CASE AcquireLimiter(k)
    BY <1>0, <2>4 DEF AcquireLimiter, bullVars
  <2>5. CASE RateLimited(k)
    BY <1>0, <2>5 DEF RateLimited
  <2>6. CASE CallSucceeds(k) \/ CallFails(k)
    BY <1>0, <2>6 DEF CallSucceeds, CallFails, bullVars
  <2>7. CASE EndAttempt(k)
    <3>1. phase[k] # "none" /\ phase' = [phase EXCEPT ![k] = "none"]
      BY <2>7 DEF EndAttempt
    <3>2. \A x \in Jobs : x # k => queue'[x] = queue[x]
      BY <2>7 DEF EndAttempt
    <3> QED BY <1>0, <3>1, <3>2
  <2>8. CASE WorkerCrashes(k)
    BY <1>0, <2>8 DEF WorkerCrashes
  <2>9. CASE StalledCheck(k)
    BY <1>0, <2>9 DEF StalledCheck, workVars
  <2> QED BY <1>2, <2>1, <2>2, <2>3, <2>4, <2>5, <2>6, <2>7, <2>8, <2>9 DEF Work
<1>3. ASSUME NEW k \in Jobs, Reconcile(k) \/ RemoveQueued(k) PROVE Same
  BY <1>0, <1>3 DEF Reconcile, RemoveQueued, bullVars, workVars
<1>4. ASSUME Tick \/ SlotsExpire \/ UNCHANGED vars PROVE Same
  BY <1>0, <1>4 DEF Tick, SlotsExpire, vars, bullVars, workVars
<1> QED
  BY <1>1, <1>2, <1>3, <1>4 DEF Next

\* Where a row and a final 'failed' event come from.
LEMMA RowSource ==
  ASSUME TypeOK, [Next]_vars, NEW j \in Jobs
  PROVE  /\ row[j] = "failed" => row'[j] = "failed"
         /\ row'[j] = "failed" => row[j] = "failed" \/ failedEvent[j] \/ Finished(j)
         /\ failedEvent'[j] => failedEvent[j] \/ queue'[j] = "failed"
<1> USE DEF TypeOK
<1> DEFINE Source == /\ row[j] = "failed" => row'[j] = "failed"
                     /\ row'[j] = "failed" => row[j] = "failed" \/ failedEvent[j] \/ Finished(j)
                     /\ failedEvent'[j] => failedEvent[j] \/ queue'[j] = "failed"
<1>0. ASSUME UNCHANGED <<row, failedEvent>> PROVE Source
  BY <1>0
<1>1. ASSUME NEW d \in Dispatchers, Dispatch(d) PROVE UNCHANGED <<row, failedEvent>>
  BY <1>1 DEF Dispatch, Reserve, SkipAdmission, AddReady, AddFails, DispatcherCrashes
<1>2. ASSUME NEW k \in Jobs, Work(k), ~CallSucceeds(k), ~EndAttempt(k), ~OnFailed(k)
      PROVE  UNCHANGED <<row, failedEvent>>
  BY <1>2 DEF Work, Promote, StartJob, Heartbeat, AcquireLimiter, RateLimited, CallFails,
     WorkerCrashes, StalledCheck
<1>3. ASSUME NEW k \in Jobs, CallSucceeds(k) PROVE Source
  BY <1>3 DEF CallSucceeds, WriteRow
<1>4. ASSUME NEW k \in Jobs, EndAttempt(k) PROVE Source
  <2>1. row' = row
    BY <1>4 DEF EndAttempt
  <2>2. CASE phase[k] = "errored"
    <3>1. /\ queue' = [queue EXCEPT ![k] = IF Retries(k) THEN "delayed" ELSE "failed"]
          /\ failedEvent' = [failedEvent EXCEPT ![k] = ~Retries(k)]
      BY <1>4, <2>2 DEF EndAttempt
    <3>2. failedEvent'[j] => failedEvent[j] \/ queue'[j] = "failed"
      <4>1. CASE j = k /\ Retries(k)
        <5>1. failedEvent'[j] = FALSE
          BY <3>1, <4>1
        <5> QED BY <5>1
      <4>2. CASE j = k /\ ~Retries(k)
        <5>1. queue'[j] = "failed"
          BY <3>1, <4>2
        <5> QED BY <5>1
      <4>3. CASE j # k
        <5>1. failedEvent'[j] = failedEvent[j]
          BY <3>1, <4>3
        <5> QED BY <5>1
      <4> QED BY <4>1, <4>2, <4>3
    <3> QED BY <2>1, <3>2
  <2>3. CASE phase[k] # "errored"
    <3>1. failedEvent' = failedEvent
      BY <1>4, <2>3 DEF EndAttempt
    <3> QED BY <2>1, <3>1
  <2> QED BY <2>2, <2>3
<1>5. ASSUME NEW k \in Jobs, OnFailed(k) PROVE Source
  <2>1. /\ failedEvent[k] /\ failedEvent' = [failedEvent EXCEPT ![k] = FALSE]
        /\ row' = row \/ WriteRow(k, "failed")
    BY <1>5, Zenon DEF OnFailed
  <2>2. failedEvent'[j] => failedEvent[j]
    BY <2>1
  <2>3. row'[j] = row[j] \/ (j = k /\ row[j] = "none")
    BY <2>1 DEF WriteRow
  <2> QED BY <2>1, <2>2, <2>3
<1>6. ASSUME NEW k \in Jobs, Reconcile(k) PROVE Source
  <2>1. failedEvent' = failedEvent
    BY <1>6 DEF Reconcile
  <2>2. row'[j] = row[j] \/ (j = k /\ row[j] = "none" /\ Finished(j))
    BY <1>6 DEF Reconcile, WriteRow
  <2> QED BY <2>1, <2>2
<1>7. ASSUME NEW k \in Jobs, RemoveQueued(k) PROVE UNCHANGED <<row, failedEvent>>
  BY <1>7 DEF RemoveQueued
<1>8. ASSUME Tick \/ SlotsExpire \/ UNCHANGED vars PROVE UNCHANGED <<row, failedEvent>>
  BY <1>8 DEF Tick, SlotsExpire, vars
<1> HIDE DEF Source
<1>9. Source
  BY <1>0, <1>1, <1>2, <1>3, <1>4, <1>5, <1>6, <1>7, <1>8 DEF Next, Work
<1> QED
  BY <1>9 DEF Source

LEMMA FailureStep == TypeOK /\ AttemptsLeft /\ FailureEnds /\ [Next]_vars => FailureEnds'
<1> SUFFICES ASSUME TypeOK, AttemptsLeft, FailureEnds, [Next]_vars, NEW j \in Jobs
             PROVE  /\ failedEvent'[j] => queue'[j] = "failed"
                    /\ row'[j] = "failed" => queue'[j] \in {"completed", "failed"}
  BY DEF FailureEnds
<1>1. /\ row'[j] = "failed" => row[j] = "failed" \/ failedEvent[j] \/ Finished(j)
      /\ failedEvent'[j] => failedEvent[j] \/ queue'[j] = "failed"
  BY RowSource
<1>2. queue[j] \in {"completed", "failed"} => queue'[j] = queue[j]
  BY FinishedStays
<1>3. /\ failedEvent[j] => queue[j] = "failed"
      /\ row[j] = "failed" => queue[j] \in {"completed", "failed"}
  BY DEF FailureEnds
<1> QED
  BY <1>1, <1>2, <1>3 DEF Finished

\* A failed row stays, and its job is never called again: the row is written
\* when BullMQ is done with the job, by its last 'failed' event or by the
\* workflow that asked for the state, and what BullMQ is done with stays so.
THEOREM FailuresFinal == Spec => FailureIsFinal
<1>1. Init => FailureEnds
  BY DEF Init, FailureEnds
<1>2. TypeOK /\ AttemptsLeft /\ FailureEnds /\ [Next]_vars =>
        [\A j \in Jobs : row[j] = "failed" => row'[j] = "failed" /\ phase'[j] # "calling"]_vars
  <2> SUFFICES ASSUME TypeOK, AttemptsLeft, FailureEnds, [Next]_vars,
                      NEW j \in Jobs, row[j] = "failed"
               PROVE  row'[j] = "failed" /\ phase'[j] # "calling"
    OBVIOUS
  <2>1. row'[j] = "failed"
    BY RowSource
  <2>2. queue[j] \in {"completed", "failed"}
    BY DEF FailureEnds
  <2>3. phase'[j] = "none"
    BY <2>2, FinishedStays
  <2> QED BY <2>1, <2>3
<1> QED
  BY <1>1, <1>2, TypedProgress, FailureStep, PTL DEF Spec, FailureIsFinal
=============================================================================
