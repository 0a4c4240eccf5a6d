---------------------------- MODULE LlmAdmission ----------------------------
(***************************************************************************)
(* Who may call the model of one fairness key.  The dispatcher reserves a  *)
(* concurrency lease for a pending job and puts the job, with the lease in *)
(* its payload, into the BullMQ queue; a worker keeps the lease alive while*)
(* it runs the job and gives it back when the attempt ends.  A job without *)
(* a lease is gated by the concurrency counter of the Redis limiter.       *)
(*                                                                         *)
(* AdmissionBacklog models the order in which pending jobs are taken; here *)
(* any pending job may be next.  Time passes in ticks: a lease of LeaseTTL *)
(* ticks stands for PH_LLM_ADMISSION_LEASE_TTL_MS.                         *)
(***************************************************************************)
EXTENDS Naturals, FiniteSets

CONSTANTS
    Jobs,           \* the LLM jobs of one fairness key
    Dispatchers,    \* dispatcher loops that may believe they lead
    Reservations,   \* reservation ids (randomUUID: a new one is unused)
    Limit,          \* effectiveConcurrency of the key
    LeaseTTL,       \* ticks a lease lives without a heartbeat
    MaxAttempts,    \* BullMQ attempts (5 in bullmq.module.ts)
    MaxStalls,      \* BullMQ maxStalledCount (1 by default)
    MaxFaults,      \* bound: crashes and failed Redis calls
    RateLimitable,  \* jobs the limiter may refuse for RPM, TPM or concurrency
    Direct,         \* jobs dispatched while their model was inactive
    PromptPickup,   \* a ready job is picked up before its lease runs out
    Reconciled,     \* jobs of an experiment, whose workflow settles lost rows
    Stoppable,      \* those of them whose experiment may be stopped
    None            \* "no job", "no reservation"

ASSUME AdmissionAssumption ==
    /\ IsFiniteSet(Jobs) /\ IsFiniteSet(Reservations)
    /\ Limit \in Nat
    /\ LeaseTTL \in Nat \ {0, 1}
    /\ MaxAttempts \in Nat \ {0} /\ MaxStalls \in Nat /\ MaxFaults \in Nat
    /\ RateLimitable \subseteq Jobs /\ Direct \subseteq Jobs
    /\ Reconciled \subseteq Jobs /\ Stoppable \subseteq Reconciled
    /\ PromptPickup \in BOOLEAN
    /\ None \notin Jobs \cup Reservations

VARIABLES
    lease,      \* ph:llm-admission:lease:<key>: ticks left, 0 = no live entry
    slots,      \* <limiter>:<key>:concurrency
    disp,       \* each dispatcher's job and reservation between two calls
    queue,      \* the job's state, "pending" while only the backlog has it
    admission,  \* payload.admission.reservationId of the BullMQ job
    phase,      \* where the worker's process() is in the job
    held,       \* the admission in the payload that process() parsed
    counted,    \* acquiredConcurrency: the call holds a limiter slot
    attempts,   \* attemptsMade
    stalls,     \* times BullMQ found the job stalled
    failedEvent,\* the job's final 'failed' event has not been handled yet
    row,        \* the status of the job's run result
    faults      \* bound counter

gateVars == <<lease, slots>>
bullVars == <<queue, admission, attempts, stalls>>
workVars == <<phase, held, counted>>
vars == <<gateVars, disp, bullVars, workVars, failedEvent, row, faults>>

Live == {r \in Reservations : lease[r] > 0}
IdleDispatcher == [job |-> None, res |-> None]

\* A reservation id that was never handed out, or that nothing mentions any
\* more: the finite stand-in for a fresh random UUID.
Fresh(r) ==
    /\ lease[r] = 0
    /\ \A j \in Jobs : admission[j] # r /\ held[j] # r
    /\ \A d \in Dispatchers : disp[d].res # r

Init ==
    /\ lease = [r \in Reservations |-> 0]
    /\ slots = 0
    /\ disp = [d \in Dispatchers |-> IdleDispatcher]
    /\ queue = [j \in Jobs |-> "pending"]
    /\ admission = [j \in Jobs |-> None]
    /\ phase = [j \in Jobs |-> "none"]
    /\ held = [j \in Jobs |-> None]
    /\ counted = [j \in Jobs |-> FALSE]
    /\ attempts = [j \in Jobs |-> 0]
    /\ stalls = [j \in Jobs |-> 0]
    /\ failedEvent = [j \in Jobs |-> FALSE]
    /\ row = [j \in Jobs |-> "none"]
    /\ faults = 0

\* DrizzleRunResultWriter: the first row of an id stands.
WriteRow(j, status) == row' = [row EXCEPT ![j] = IF @ = "none" THEN status ELSE @]

Fault == faults < MaxFaults /\ faults' = faults + 1

-----------------------------------------------------------------------------
(* The dispatcher: reserve, then add.                                       *)

\* TRY_RESERVE_SCRIPT prunes what has expired and compares with the limit.
Admits == Cardinality(Live) < Limit

\* peek, getJob = null, buildAdmissionDecision, TRY_RESERVE_SCRIPT = 1.
Reserve(d) ==
    /\ disp[d].job = None
    /\ Admits
    /\ \E j \in Jobs \ Direct, r \in Reservations :
         /\ queue[j] = "pending"
         /\ Fresh(r)
         /\ lease' = [lease EXCEPT ![r] = LeaseTTL]
         /\ disp' = [disp EXCEPT ![d] = [job |-> j, res |-> r]]
    /\ UNCHANGED <<slots, bullVars, workVars, failedEvent, row, faults>>

\* The model is inactive: no admission decision, so no lease either.
SkipAdmission(d) ==
    /\ disp[d].job = None
    /\ \E j \in Direct :
         /\ queue[j] = "pending"
         /\ disp' = [disp EXCEPT ![d] = [job |-> j, res |-> None]]
    /\ UNCHANGED <<gateVars, bullVars, workVars, failedEvent, row, faults>>

\* The admission of the payload that is added.
Admission(d) == disp[d].res

\* llmQueue.add: a no-op when BullMQ already has the job id; the lease of
\* this dispatcher then belongs to nobody and waits for its TTL.
AddReady(d) ==
    LET j == disp[d].job IN
    /\ j # None
    /\ \/ /\ queue[j] \in {"pending", "removed"}
          /\ queue' = [queue EXCEPT ![j] = "waiting"]
          /\ admission' = [admission EXCEPT ![j] = Admission(d)]
       \/ /\ queue[j] \notin {"pending", "removed"}
          /\ UNCHANGED <<queue, admission>>
    /\ disp' = [disp EXCEPT ![d] = IdleDispatcher]
    /\ UNCHANGED <<gateVars, attempts, stalls, workVars, failedEvent, row, faults>>

\* add throws: releaseConcurrencyReservation, and the key is rescheduled.
AddFails(d) ==
    /\ disp[d].job # None
    /\ Fault
    /\ lease' = [r \in Reservations |-> IF r = disp[d].res THEN 0 ELSE lease[r]]
    /\ disp' = [disp EXCEPT ![d] = IdleDispatcher]
    /\ UNCHANGED <<slots, bullVars, workVars, failedEvent, row>>

DispatcherCrashes(d) ==
    /\ disp[d].job # None
    /\ Fault
    /\ disp' = [disp EXCEPT ![d] = IdleDispatcher]
    /\ UNCHANGED <<gateVars, bullVars, workVars, failedEvent, row>>

-----------------------------------------------------------------------------
(* The worker: LlmConsumer.process around invokeLLM.                        *)

\* BullMQ promotes a delayed job.
Promote(j) ==
    /\ queue[j] = "delayed"
    /\ queue' = [queue EXCEPT ![j] = "waiting"]
    /\ UNCHANGED <<gateVars, disp, admission, attempts, stalls, workVars,
                   failedEvent, row, faults>>

\* A worker takes the job, parses the payload and starts the heartbeat.
StartJob(j) ==
    /\ queue[j] = "waiting"
    /\ queue' = [queue EXCEPT ![j] = "active"]
    /\ phase' = [phase EXCEPT ![j] = "started"]
    /\ held' = [held EXCEPT ![j] = admission[j]]
    /\ UNCHANGED <<gateVars, disp, admission, attempts, stalls, counted,
                   failedEvent, row, faults>>

\* The reservation the heartbeat timer of the attempt extends.
BeatsForever(j) == admission[j]
Beats(j) == held[j]

\* EXTEND_RESERVATION_SCRIPT: an entry that is gone is not put back.
ExtendsAny(r) == lease[r] < LeaseTTL
Extends(r) == lease[r] \in 1..(LeaseTTL - 1)

Heartbeat(j) ==
    /\ Beats(j) # None
    /\ Extends(Beats(j))
    /\ lease' = [lease EXCEPT ![Beats(j)] = LeaseTTL]
    /\ UNCHANGED <<slots, disp, bullVars, workVars, failedEvent, row, faults>>

\* limiter.acquire: an admitted payload is pre-reserved and only checked for
\* RPM and TPM, any other call takes one of the limiter's slots.
AcquireLimiter(j) ==
    /\ phase[j] = "started"
    /\ \/ /\ held[j] # None
          /\ UNCHANGED <<slots, counted>>
       \/ /\ held[j] = None
          /\ slots < Limit
          /\ slots' = slots + 1
          /\ counted' = [counted EXCEPT ![j] = TRUE]
    /\ phase' = [phase EXCEPT ![j] = "calling"]
    /\ UNCHANGED <<lease, disp, bullVars, held, failedEvent, row, faults>>

\* RateLimitExceededError: the admission is stripped from the job data.
RateLimited(j) ==
    /\ phase[j] = "started"
    /\ j \in RateLimitable
    /\ admission' = [admission EXCEPT ![j] = None]
    /\ phase' = [phase EXCEPT ![j] = "limited"]
    /\ UNCHANGED <<gateVars, disp, queue, attempts, stalls, held, counted,
                   failedEvent, row, faults>>

\* invokeLLM's finally: RELEASE_SCRIPT, floored at zero.
ReleaseSlot(j) ==
    /\ slots' = IF counted[j] /\ slots > 0 THEN slots - 1 ELSE slots
    /\ counted' = [counted EXCEPT ![j] = FALSE]

CallSucceeds(j) ==
    /\ phase[j] = "calling"
    /\ WriteRow(j, "success")
    /\ ReleaseSlot(j)
    /\ phase' = [phase EXCEPT ![j] = "succeeded"]
    /\ UNCHANGED <<lease, disp, bullVars, held, failedEvent, faults>>

\* The provider fails, or the model row is inactive, or the row is not written.
CallFails(j) ==
    /\ phase[j] \in {"started", "calling"}
    /\ ReleaseSlot(j)
    /\ phase' = [phase EXCEPT ![j] = "errored"]
    /\ UNCHANGED <<lease, disp, bullVars, held, failedEvent, row, faults>>

\* releaseConcurrencyReservation: ZREM of one member.
ReleasesKey(j, r) == TRUE
Releases(j, r) == r = held[j]

Retries(j) == attempts[j] + 1 < MaxAttempts

\* process()'s finally, then what BullMQ does with the outcome: complete,
\* retry with backoff, fail for good, or (DelayedError) wait out the window.
\* A lease that could not be released is left to its TTL.
EndAttempt(j) ==
    /\ phase[j] \in {"succeeded", "errored", "limited"}
    /\ \/ /\ lease' = [r \in Reservations |-> IF Releases(j, r) THEN 0 ELSE lease[r]]
          /\ UNCHANGED faults
       \/ /\ held[j] # None
          /\ Fault
          /\ UNCHANGED lease
    /\ \/ /\ phase[j] = "succeeded"
          /\ queue' = [queue EXCEPT ![j] = "completed"]
          /\ UNCHANGED <<attempts, failedEvent>>
       \/ /\ phase[j] = "errored"
          /\ attempts' = [attempts EXCEPT ![j] = @ + 1]
          /\ queue' = [queue EXCEPT ![j] = IF Retries(j) THEN "delayed" ELSE "failed"]
          /\ failedEvent' = [failedEvent EXCEPT ![j] = ~Retries(j)]
       \/ /\ phase[j] = "limited"
          /\ queue' = [queue EXCEPT ![j] = "delayed"]
          /\ UNCHANGED <<attempts, failedEvent>>
    /\ phase' = [phase EXCEPT ![j] = "none"]
    /\ held' = [held EXCEPT ![j] = None]
    /\ UNCHANGED <<slots, disp, admission, stalls, counted, row>>

\* The worker process dies: no finally runs, the lease and the slot stay.  A
\* job that has stalled may stall again beside the faults (bound).
WorkerCrashes(j) ==
    /\ phase[j] # "none"
    /\ \/ Fault
       \/ stalls[j] > 0 /\ UNCHANGED faults
    /\ queue' = [queue EXCEPT ![j] = "stalled"]
    /\ phase' = [phase EXCEPT ![j] = "none"]
    /\ held' = [held EXCEPT ![j] = None]
    /\ counted' = [counted EXCEPT ![j] = FALSE]
    /\ UNCHANGED <<gateVars, disp, admission, attempts, stalls, failedEvent, row>>

\* BullMQ's stalled check.  A job that stalled too often fails without having
\* used up its attempts, so onFailed returns early and writes no row.
StalledCheck(j) ==
    /\ queue[j] = "stalled"
    /\ \/ /\ stalls[j] < MaxStalls
          /\ stalls' = [stalls EXCEPT ![j] = @ + 1]
          /\ queue' = [queue EXCEPT ![j] = "waiting"]
       \/ /\ stalls[j] >= MaxStalls
          /\ queue' = [queue EXCEPT ![j] = "failed"]
          /\ UNCHANGED stalls
    /\ UNCHANGED <<gateVars, disp, admission, attempts, workVars, failedEvent,
                   row, faults>>

\* onFailed after the last attempt: the final error row.
OnFailed(j) ==
    /\ failedEvent[j]
    /\ failedEvent' = [failedEvent EXCEPT ![j] = FALSE]
    /\ \/ WriteRow(j, "failed") /\ UNCHANGED faults
       \/ UNCHANGED row /\ Fault
    /\ UNCHANGED <<gateVars, disp, bullVars, workVars>>

-----------------------------------------------------------------------------
(* The experiment workflow that polls for the job's row.                    *)

\* findTerminalLlmJobs: the states after which BullMQ never runs a job again.
FinishedOnly(j) == queue[j] = "completed"
NotRunning(j) == queue[j] \in {"completed", "failed", "delayed"}
Finished(j) == queue[j] \in {"completed", "failed"}

\* reconcileTerminalBatchJobs: BullMQ is done with the job, the row missing.
Reconcile(j) ==
    /\ j \in Reconciled
    /\ Finished(j)
    /\ row[j] = "none"
    /\ WriteRow(j, "failed")
    /\ UNCHANGED <<gateVars, disp, bullVars, workVars, failedEvent, faults>>

\* cleanupStoppedLlmJobs: the job goes, the lease in its payload does not.
RemoveQueued(j) ==
    /\ j \in Stoppable
    /\ queue[j] \in {"pending", "waiting", "delayed"}
    /\ queue' = [queue EXCEPT ![j] = "removed"]
    /\ UNCHANGED <<gateVars, disp, admission, attempts, stalls, workVars,
                   failedEvent, row, faults>>

-----------------------------------------------------------------------------
(* Time.                                                                    *)

\* The heartbeat fires three times per LeaseTTL, so no lease runs out under a
\* live worker; with PromptPickup none runs out in the ready queue either.
Urgent(j) ==
    \/ phase[j] # "none" /\ held[j] # None /\ lease[held[j]] = 1
    \/ /\ PromptPickup
       /\ queue[j] = "waiting" /\ admission[j] # None
       /\ lease[admission[j]] = 1

Tick ==
    /\ Live # {}
    /\ \A j \in Jobs : ~Urgent(j)
    /\ PromptPickup =>
          \A d \in Dispatchers : disp[d].res # None => lease[disp[d].res] # 1
    /\ lease' = [r \in Reservations |-> IF lease[r] = 0 THEN 0 ELSE lease[r] - 1]
    /\ UNCHANGED <<slots, disp, bullVars, workVars, failedEvent, row, faults>>

\* The counter's TTL runs whatever the calls do: acquire and release renew
\* it, but one call may last as long as the TTL (RedisLimiter keeps the clock).
SlotsExpire ==
    /\ slots > 0
    /\ slots' = 0
    /\ UNCHANGED <<lease, disp, bullVars, workVars, failedEvent, row, faults>>

-----------------------------------------------------------------------------
Dispatch(d) ==
    \/ Reserve(d) \/ SkipAdmission(d) \/ AddReady(d)
    \/ AddFails(d) \/ DispatcherCrashes(d)

Work(j) ==
    \/ Promote(j) \/ StartJob(j) \/ Heartbeat(j) \/ AcquireLimiter(j)
    \/ RateLimited(j) \/ CallSucceeds(j) \/ CallFails(j) \/ EndAttempt(j)
    \/ WorkerCrashes(j) \/ StalledCheck(j) \/ OnFailed(j)

Next ==
    \/ \E d \in Dispatchers : Dispatch(d)
    \/ \E j \in Jobs : Work(j) \/ Reconcile(j) \/ RemoveQueued(j)
    \/ Tick
    \/ SlotsExpire

Spec == Init /\ [][Next]_vars

\* Nothing renews the counter's TTL: every slot left is a crashed call's.
Unrenewed == \A j \in Jobs : ~counted[j]

\* Dispatchers, workers, BullMQ's timers and the clock keep going; a job that
\* is admitted or allowed again and again is eventually taken.
Fairness ==
    /\ \A d \in Dispatchers :
          /\ WF_vars(AddReady(d)) /\ WF_vars(SkipAdmission(d))
          /\ SF_vars(Reserve(d))
    /\ \A j \in Jobs :
          /\ WF_vars(Promote(j)) /\ WF_vars(StartJob(j)) /\ WF_vars(Heartbeat(j))
          /\ SF_vars(AcquireLimiter(j))
          /\ WF_vars(CallSucceeds(j) \/ CallFails(j)) /\ WF_vars(EndAttempt(j))
          /\ WF_vars(StalledCheck(j)) /\ WF_vars(OnFailed(j)) /\ WF_vars(Reconcile(j))
    /\ WF_vars(Tick) /\ WF_vars(SlotsExpire /\ Unrenewed)

FairSpec == Spec /\ Fairness

-----------------------------------------------------------------------------
(* Properties.                                                              *)

TypeOK ==
    /\ lease \in [Reservations -> 0..LeaseTTL]
    /\ slots \in Nat
    /\ disp \in [Dispatchers -> [job : Jobs \cup {None}, res : Reservations \cup {None}]]
    /\ queue \in [Jobs -> {"pending", "waiting", "active", "delayed", "stalled",
                           "completed", "failed", "removed"}]
    /\ admission \in [Jobs -> Reservations \cup {None}]
    /\ phase \in [Jobs -> {"none", "started", "calling", "succeeded", "errored",
                           "limited"}]
    /\ held \in [Jobs -> Reservations \cup {None}]
    /\ counted \in [Jobs -> BOOLEAN]
    /\ attempts \in [Jobs -> 0..MaxAttempts]
    /\ stalls \in [Jobs -> 0..MaxStalls]
    /\ failedEvent \in [Jobs -> BOOLEAN]
    /\ row \in [Jobs -> {"none", "success", "failed"}]
    /\ faults \in 0..MaxFaults

Calling == {j \in Jobs : phase[j] = "calling"}

\* Whatever crashes, retries and duplicate dispatches do, no more leases are
\* alive than the key's concurrency.
LeaseBound == Cardinality(Live) <= Limit

\* 03-orchestration.md, section 7: Redis controls the number of in-flight
\* requests globally for a limiter key.
InFlightBound == Cardinality(Calling) <= Limit

\* A lease that nobody uses comes back to the key by its TTL.
LeaseComesBack == \A r \in Reservations : lease[r] > 0 ~> lease[r] = 0

\* A lease a job calls the provider under is not taken from it by another
\* job's release, a cleanup, or a second dispatch of the same job.
LeaseOutlivesCall ==
    [][\A j \in Jobs :
         (phase[j] = "calling" /\ phase'[j] = "calling" /\ held[j] # None)
            => (lease[held[j]] > 0 => lease'[held[j]] > 0)]_vars

\* An experiment's job that BullMQ got leaves a result row, unless the
\* experiment was stopped and the job removed: crashes, stalls and lost
\* 'failed' events included.
JobSettles ==
    \A j \in Reconciled :
       queue[j] = "waiting" ~> (row[j] # "none" \/ queue[j] = "removed")

\* A result row is final, and a failed one is only written for a job that has
\* stopped: a retry that later succeeds cannot contradict it.
FailureIsFinal ==
    [][\A j \in Jobs :
         row[j] = "failed" => row'[j] = "failed" /\ phase'[j] # "calling"]_vars
=============================================================================
