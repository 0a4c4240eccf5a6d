-------------------------- MODULE AdmissionBacklog --------------------------
(***************************************************************************)
(* The Redis pending backlog of the `llm` channel, one Redis command per   *)
(* step.  Workflows enqueue LLM jobs and, when an experiment is stopped,   *)
(* clean up the jobs that have not started; dispatchers (one per worker    *)
(* process, serialised by a leader key with a TTL) move the job at the     *)
(* head of each fairness key's list into the BullMQ ready queue.           *)
(*                                                                         *)
(* A Lua script and a MULTI are one step.  Every other pair of commands of *)
(* the source is two steps, and the other processes may run in between.    *)
(***************************************************************************)
EXTENDS Naturals, Sequences, SequencesExt, FiniteSets

CONSTANTS
    Jobs,          \* job ids (= run result ids)
    Keys,          \* fairness keys (limiter keys of the models)
    KeyOf,         \* the fairness key of a job's payload
    Workflows,     \* the producers: one experiment workflow each
    OwnerOf,       \* the workflow that enqueues a job and cleans it up
    Cleaners,      \* the workflows that are ever asked to stop
    Dispatchers,   \* the worker processes' dispatcher loops
    MaxAccepts,    \* bound: how often a job is accepted into the backlog
    MaxFaults,     \* bound: failed Redis/BullMQ calls and dispatcher crashes
    None           \* "no job", "no key", "no leader"

ASSUME BacklogAssumption ==
    /\ KeyOf \in [Jobs -> Keys]
    /\ OwnerOf \in [Jobs -> Workflows]
    /\ Cleaners \subseteq Workflows
    /\ MaxAccepts \in Nat /\ MaxFaults \in Nat
    /\ None \notin Jobs \cup Keys \cup Dispatchers

VARIABLES
    dedupe,     \* ph:llm-admission:dedupe:<job>
    doc,        \* the jobs whose ph:llm-admission:pending:job:<job> exists
    list,       \* ph:llm-admission:pending:key:<key>
    sched,      \* ph:llm-admission:pending:keys (score due or in the future)
    bull,       \* the job in the BullMQ queue `llm`
    leader,     \* ph:llm-admission:dispatcher:leader
    disp,       \* program counter and locals of each dispatcher loop
    wf,         \* program counter and locals of each workflow's cleanup
    awaited,    \* the jobs a workflow polls for (pendingRunResultIds)
    stopping,   \* the workflows that saw `stop` and wait for started jobs
    accepted,   \* history: successful enqueues of a job
    added,      \* history: BullMQ jobs created for a job id
    faults      \* bound counter

redisVars == <<dedupe, doc, list, sched>>
wfVars    == <<wf, awaited, stopping>>
history   == <<accepted, added, faults>>
vars == <<redisVars, bull, leader, disp, wfVars, history>>

\* The only difference between waiting, delayed, prioritized,
\* waiting-children and paused is scheduling inside BullMQ: all five are
\* removable and none is running.
BullStates == {"absent", "waiting", "active", "terminal"}

IdleDispatcher == [pc |-> "idle", due |-> {}, key |-> None, job |-> None]
IdleWorkflow   == [pc |-> "idle", todo |-> {}, rest |-> {}, job |-> None,
                   terminal |-> FALSE, remaining |-> 0, gone |-> {}]

Init ==
    /\ dedupe = [j \in Jobs |-> "none"]
    /\ doc = {}
    /\ list = [k \in Keys |-> <<>>]
    /\ sched = [k \in Keys |-> "none"]
    /\ bull = [j \in Jobs |-> "absent"]
    /\ leader = None
    /\ disp = [d \in Dispatchers |-> IdleDispatcher]
    /\ wf = [w \in Workflows |-> IdleWorkflow]
    /\ awaited = {}
    /\ stopping = {}
    /\ accepted = [j \in Jobs |-> 0]
    /\ added = [j \in Jobs |-> 0]
    /\ faults = 0

-----------------------------------------------------------------------------
(* Producers: enqueueLlmJob -> ENQUEUE_PENDING_SCRIPT, once per sample of a *)
(* batch, also when the batch is enqueued again after a resume or a replay. *)

\* ENQUEUE_PENDING_SCRIPT: the dedupe key decides, then RPUSH.
Accepts(j) == dedupe[j] = "none" /\ accepted[j] < MaxAccepts

PushedFirst(l, j) == <<j>> \o l
Pushed(l, j) == Append(l, j)

Enqueue(j) ==
    /\ OwnerOf[j] \notin stopping
    /\ \/ /\ Accepts(j)
          /\ dedupe' = [dedupe EXCEPT ![j] = "pending"]
          /\ doc' = doc \cup {j}
          /\ list' = [list EXCEPT ![KeyOf[j]] = Pushed(@, j)]
          /\ sched' = [sched EXCEPT ![KeyOf[j]] = "due"]
          /\ accepted' = [accepted EXCEPT ![j] = @ + 1]
       \/ /\ dedupe[j] # "none"
          /\ UNCHANGED <<redisVars, accepted>>
    /\ awaited' = awaited \cup {j}
    /\ UNCHANGED <<bull, leader, disp, wf, stopping, added, faults>>

\* countBatchTerminal finds the run result that the worker or the workflow's
\* own reconciliation wrote for a finished job.
Settle(j) ==
    /\ j \in awaited
    /\ bull[j] = "terminal"
    /\ wf[OwnerOf[j]].pc = "idle"
    /\ awaited' = awaited \ {j}
    /\ UNCHANGED <<redisVars, bull, leader, disp, wf, stopping, history>>

-----------------------------------------------------------------------------
(* The dispatcher loop.                                                     *)

At(d, pc) == disp[d].pc = pc
Goto(d, pc) == disp' = [disp EXCEPT ![d].pc = pc]

\* runLoop: take or renew the leader key, which is not looked at again before
\* the tick ends.
Lead(d) ==
    /\ At(d, "idle")
    /\ leader \in {None, d}
    /\ leader' = d
    /\ Goto(d, "due")
    /\ UNCHANGED <<redisVars, bull, wfVars, history>>

\* getDueFairnessKeys.
ReadDue(d) ==
    /\ At(d, "due")
    /\ disp' = [disp EXCEPT ![d].pc = "keys",
                            ![d].due = {k \in Keys : sched[k] = "due"}]
    /\ UNCHANGED <<redisVars, bull, leader, wfVars, history>>

\* The TTL of the leader key runs out before the leader renews it.
LeaderExpires ==
    /\ leader # None
    /\ leader' = None
    /\ UNCHANGED <<redisVars, bull, disp, wfVars, history>>

\* dispatchOnce: the next due key of the snapshot, or the end of the tick.
NextKey(d) ==
    /\ At(d, "keys")
    /\ \/ \E k \in disp[d].due :
             disp' = [disp EXCEPT ![d].pc = "head", ![d].key = k, ![d].due = @ \ {k}]
       \/ /\ disp[d].due = {}
          /\ disp' = [disp EXCEPT ![d] = IdleDispatcher]
    /\ UNCHANGED <<redisVars, bull, leader, wfVars, history>>

\* peekNextPendingJob: LINDEX list 0.
PeekHead(d) ==
    /\ At(d, "head")
    /\ LET l == list[disp[d].key] IN
       disp' = [disp EXCEPT ![d] =
                  IF l = <<>> THEN [@ EXCEPT !.pc = "unschedule"]
                  ELSE [@ EXCEPT !.pc = "fetch", !.job = Head(l)]]
    /\ UNCHANGED <<redisVars, bull, leader, wfVars, history>>

\* peekNextPendingJob: ZREM of a key whose list was empty.
Unschedule(d) ==
    /\ At(d, "unschedule")
    /\ sched' = [sched EXCEPT ![disp[d].key] = "none"]
    /\ Goto(d, "keys")
    /\ UNCHANGED <<dedupe, doc, list, bull, leader, wfVars, history>>

\* peekNextPendingJob: GET of the job document, null if it is gone.
FetchDoc(d) ==
    /\ At(d, "fetch")
    /\ Goto(d, IF disp[d].job \in doc THEN "check" ELSE "pop")
    /\ UNCHANGED <<redisVars, bull, leader, wfVars, history>>

\* peekNextPendingJob: LPOP of a head whose document was gone.
PopHead(d) ==
    /\ At(d, "pop")
    /\ list' = [list EXCEPT ![disp[d].key] = IF @ = <<>> THEN @ ELSE Tail(@)]
    /\ Goto(d, "head")
    /\ UNCHANGED <<dedupe, doc, sched, bull, leader, wfVars, history>>

\* BullMQ knows a job id for as long as it keeps the job; the job options have no
\* removeOnComplete or removeOnFail, so it keeps finished jobs too.
KnownUnfinished(j) == bull[j] \in {"waiting", "active"}
Known(j) == bull[j] # "absent"

\* llmQueue.getJob: a job BullMQ already has is only marked ready.
CheckExisting(d) ==
    /\ At(d, "check")
    /\ Goto(d, IF Known(disp[d].job) THEN "mark" ELSE "reserve")
    /\ UNCHANGED <<redisVars, bull, leader, wfVars, history>>

\* tryReserveConcurrency; LlmAdmission models when it grants.
Granted(d) ==
    /\ At(d, "reserve")
    /\ Goto(d, "add")
    /\ UNCHANGED <<redisVars, bull, leader, wfVars, history>>

Refused(d) ==
    /\ At(d, "reserve")
    /\ Goto(d, "defer")
    /\ UNCHANGED <<redisVars, bull, leader, wfVars, history>>

\* scheduleFairnessKey(now + 250 ms).
Defer(d) ==
    /\ At(d, "defer")
    /\ sched' = [sched EXCEPT ![disp[d].key] = "later"]
    /\ Goto(d, "keys")
    /\ UNCHANGED <<dedupe, doc, list, bull, leader, wfVars, history>>

\* llmQueue.add with the job id: a no-op when BullMQ knows the id.
AddReady(d) ==
    LET j == disp[d].job IN
    /\ At(d, "add")
    /\ IF Known(j)
       THEN UNCHANGED <<bull, added>>
       ELSE /\ bull' = [bull EXCEPT ![j] = "waiting"]
            /\ added' = [added EXCEPT ![j] = @ + 1]
    /\ Goto(d, "mark")
    /\ UNCHANGED <<redisVars, leader, wfVars, accepted, faults>>

\* llmQueue.add throws: release the lease (LlmAdmission) and reschedule.
AddFails(d) ==
    /\ At(d, "add")
    /\ faults < MaxFaults
    /\ faults' = faults + 1
    /\ Goto(d, "defer")
    /\ UNCHANGED <<redisVars, bull, leader, wfVars, accepted, added>>

\* MARK_READY_SCRIPT: LREM of the job, then the score of what is left, or
\* ZREM and DEL.
NothingLeft(l, j) == <<>>
Left(l, j) == RemoveFirst(l, j)

Scheduled(l) == IF l = <<>> THEN "none" ELSE "due"

\* markLlmJobReady -> MARK_READY_SCRIPT.
MarkReady(d) ==
    LET j == disp[d].job
        k == disp[d].key
        l == Left(list[k], j)
    IN /\ At(d, "mark")
       /\ list' = [list EXCEPT ![k] = l]
       /\ doc' = doc \ {j}
       /\ dedupe' = [dedupe EXCEPT ![j] = "ready"]
       /\ sched' = [sched EXCEPT ![k] = Scheduled(l)]
       /\ Goto(d, "keys")
       /\ UNCHANGED <<bull, leader, wfVars, history>>

\* MARK_READY_SCRIPT fails: the job stays at the head of its list, is found in
\* BullMQ by the next tick, and keeps its lease.
MarkFails(d) ==
    /\ At(d, "mark")
    /\ faults < MaxFaults
    /\ faults' = faults + 1
    /\ Goto(d, "keys")
    /\ UNCHANGED <<redisVars, bull, leader, wfVars, accepted, added>>

\* Any other call throws and the loop catches it, or the process restarts.
Abort(d) ==
    /\ ~At(d, "idle")
    /\ faults < MaxFaults
    /\ faults' = faults + 1
    /\ disp' = [disp EXCEPT ![d] = IdleDispatcher]
    /\ UNCHANGED <<redisVars, bull, leader, wfVars, accepted, added>>

\* A deferred key's score is reached.
KeyBecomesDue(k) ==
    /\ sched[k] = "later"
    /\ sched' = [sched EXCEPT ![k] = "due"]
    /\ UNCHANGED <<dedupe, doc, list, bull, leader, disp, wfVars, history>>

-----------------------------------------------------------------------------
(* cleanupStoppedLlmJobs, called by a workflow that saw `stop`: first       *)
(* removePendingLlmJobs over the whole batch, then BullMQ job by job.       *)

InCleanup(w, pc) == wf[w].pc = pc
AwaitedBy(w) == {j \in awaited : OwnerOf[j] = w}

StartCleanup(w) ==
    /\ w \in Cleaners
    /\ InCleanup(w, "idle")
    /\ AwaitedBy(w) # {}
    /\ stopping' = stopping \cup {w}
    /\ wf' = [wf EXCEPT ![w] = [IdleWorkflow EXCEPT !.pc = "pending",
                                                    !.todo = AwaitedBy(w)]]
    /\ UNCHANGED <<redisVars, bull, leader, disp, awaited, history>>

\* getPendingLlmJob: a job without a document is left to the BullMQ phase.
ReadDoc(w) ==
    /\ InCleanup(w, "pending")
    /\ \E j \in wf[w].todo :
         LET c == [wf[w] EXCEPT !.todo = @ \ {j}] IN
         wf' = [wf EXCEPT ![w] =
                  IF j \in doc THEN [c EXCEPT !.pc = "multi", !.job = j]
                  ELSE [c EXCEPT !.rest = @ \cup {j}]]
    /\ UNCHANGED <<redisVars, bull, leader, disp, awaited, stopping, history>>

\* MULTI: LREM list 1 job, DEL document, DEL dedupe.
RemovePending(w) ==
    LET j == wf[w].job IN
    /\ InCleanup(w, "multi")
    /\ list' = [list EXCEPT ![KeyOf[j]] = RemoveFirst(@, j)]
    /\ doc' = doc \ {j}
    /\ dedupe' = [dedupe EXCEPT ![j] = "none"]
    /\ wf' = [wf EXCEPT ![w].pc = "llen"]
    /\ UNCHANGED <<sched, bull, leader, disp, awaited, stopping, history>>

ReadLength(w) ==
    /\ InCleanup(w, "llen")
    /\ wf' = [wf EXCEPT ![w].pc = "rezadd",
                        ![w].remaining = Len(list[KeyOf[wf[w].job]])]
    /\ UNCHANGED <<redisVars, bull, leader, disp, awaited, stopping, history>>

\* ZADD the key if jobs remained, else MULTI: ZREM the key, DEL the list.
RescheduleKey(w) ==
    LET k == KeyOf[wf[w].job] IN
    /\ InCleanup(w, "rezadd")
    /\ \/ /\ wf[w].remaining > 0
          /\ sched' = [sched EXCEPT ![k] = "due"]
          /\ UNCHANGED list
       \/ /\ wf[w].remaining = 0
          /\ sched' = [sched EXCEPT ![k] = "none"]
          /\ list' = [list EXCEPT ![k] = <<>>]
    /\ wf' = [wf EXCEPT ![w].pc = "pending", ![w].remaining = 0,
                        ![w].gone = @ \cup {wf[w].job}]
    /\ UNCHANGED <<dedupe, doc, bull, leader, disp, awaited, stopping, history>>

StartBullPhase(w) ==
    /\ InCleanup(w, "pending")
    /\ wf[w].todo = {}
    /\ wf' = [wf EXCEPT ![w].pc = "bull"]
    /\ UNCHANGED <<redisVars, bull, leader, disp, awaited, stopping, history>>

\* getJob and getState: missing and removable jobs are dropped by the
\* workflow, an active one is skipped, a terminal one is settled by the
\* workflow itself and removed.
InspectBull(w) ==
    /\ InCleanup(w, "bull")
    /\ \E j \in wf[w].rest :
         LET c == [wf[w] EXCEPT !.rest = @ \ {j}] IN
         wf' = [wf EXCEPT ![w] =
            CASE bull[j] = "absent" -> [c EXCEPT !.gone = @ \cup {j}]
              [] bull[j] = "active" -> c
              [] OTHER -> [c EXCEPT !.pc = "remove", !.job = j,
                                    !.terminal = (bull[j] = "terminal")]]
    /\ UNCHANGED <<redisVars, bull, leader, disp, awaited, stopping, history>>

\* job.remove throws when a worker has locked the job in the meantime.
RemoveBull(w) ==
    LET j == wf[w].job IN
    /\ InCleanup(w, "remove")
    /\ \/ /\ bull[j] = "active"
          /\ wf' = [wf EXCEPT ![w].pc = "bull"]
          /\ UNCHANGED bull
       \/ /\ bull[j] # "active"
          /\ bull' = [bull EXCEPT ![j] = "absent"]
          /\ wf' = [wf EXCEPT ![w].pc = "undedupe"]
    /\ UNCHANGED <<redisVars, leader, disp, awaited, stopping, history>>

\* clearLlmJobDedupe, then on to the next job; a terminal job is not dropped
\* as removed but settled with a failed run result (if it has none).
ClearDedupe(w) ==
    LET j == wf[w].job IN
    /\ InCleanup(w, "undedupe")
    /\ dedupe' = [dedupe EXCEPT ![j] = "none"]
    /\ \/ /\ wf[w].terminal
          /\ awaited' = awaited \ {j}
          /\ wf' = [wf EXCEPT ![w].pc = "bull"]
       \/ /\ ~wf[w].terminal
          /\ wf' = [wf EXCEPT ![w].pc = "bull", ![w].gone = @ \cup {j}]
          /\ UNCHANGED awaited
    /\ UNCHANGED <<doc, list, sched, bull, leader, disp, stopping, history>>

\* The workflow drops the removed and missing jobs from the batch it polls
\* for; the skipped ones stay in it.
DroppedNone(w) == {}
Dropped(w) == wf[w].gone

EndCleanup(w) ==
    /\ InCleanup(w, "bull")
    /\ wf[w].rest = {}
    /\ wf' = [wf EXCEPT ![w] = IdleWorkflow]
    /\ awaited' = awaited \ Dropped(w)
    /\ UNCHANGED <<redisVars, bull, leader, disp, stopping, history>>

\* finalize `stopped`: nothing is left to wait for.
Stopped(w) ==
    /\ w \in stopping
    /\ InCleanup(w, "idle")
    /\ AwaitedBy(w) = {}
    /\ stopping' = stopping \ {w}
    /\ UNCHANGED <<redisVars, bull, leader, disp, wf, awaited, history>>

-----------------------------------------------------------------------------
(* BullMQ workers, from the backlog's point of view.                        *)

StartJob(j) ==
    /\ bull[j] = "waiting"
    /\ bull' = [bull EXCEPT ![j] = "active"]
    /\ UNCHANGED <<redisVars, leader, disp, wfVars, history>>

\* Completed or failed jobs stay in BullMQ (no removeOnComplete/-Fail); a
\* failed attempt or a rate limit puts the job back.
EndJob(j) ==
    /\ bull[j] = "active"
    /\ bull' \in {[bull EXCEPT ![j] = s] : s \in {"terminal", "waiting"}}
    /\ UNCHANGED <<redisVars, leader, disp, wfVars, history>>

-----------------------------------------------------------------------------
Dispatch(d) ==
    \/ Lead(d) \/ ReadDue(d) \/ NextKey(d) \/ PeekHead(d) \/ Unschedule(d) \/ FetchDoc(d)
    \/ PopHead(d) \/ CheckExisting(d) \/ Defer(d) \/ AddReady(d) \/ MarkReady(d)

Cleanup(w) ==
    \/ ReadDoc(w) \/ RemovePending(w) \/ ReadLength(w) \/ RescheduleKey(w)
    \/ StartBullPhase(w) \/ InspectBull(w) \/ RemoveBull(w) \/ ClearDedupe(w)
    \/ EndCleanup(w) \/ Stopped(w)

Next ==
    \/ \E j \in Jobs : Enqueue(j) \/ Settle(j) \/ StartJob(j) \/ EndJob(j)
    \/ \E d \in Dispatchers :
          Dispatch(d) \/ Granted(d) \/ Refused(d) \/ AddFails(d) \/ MarkFails(d) \/ Abort(d)
    \/ \E w \in Workflows : StartCleanup(w) \/ Cleanup(w)
    \/ \E k \in Keys : KeyBecomesDue(k)
    \/ LeaderExpires

Spec == Init /\ [][Next]_vars

\* The loop keeps ticking, the scores of deferred keys are reached, and slots
\* of the model are released again and again (LlmAdmission).
Fairness ==
    /\ \A d \in Dispatchers : WF_vars(Dispatch(d)) /\ SF_vars(Granted(d))
                              /\ WF_vars(Granted(d) \/ Refused(d))
    /\ \A k \in Keys : WF_vars(KeyBecomesDue(k))
    /\ WF_vars(LeaderExpires)

FairSpec == Spec /\ Fairness

\* A workflow that saw `stop` keeps polling and cleaning up, and workers finish
\* what they started: a job runs out of attempts sooner or later.
StopFairness ==
    /\ \A w \in Workflows : WF_vars(Cleanup(w))
                            /\ WF_vars(w \in stopping /\ StartCleanup(w))
    /\ \A j \in Jobs : SF_vars(EndJob(j) /\ bull'[j] = "terminal")

StopSpec == Spec /\ StopFairness

-----------------------------------------------------------------------------
(* Properties.                                                              *)

DispatcherType ==
    [pc : {"idle", "due", "keys", "head", "unschedule", "fetch", "pop", "check",
           "reserve", "add", "defer", "mark"},
     due : SUBSET Keys, key : Keys \cup {None}, job : Jobs \cup {None}]
CleanupType ==
    [pc : {"idle", "pending", "multi", "llen", "rezadd", "bull", "remove", "undedupe"},
     todo : SUBSET Jobs, rest : SUBSET Jobs, job : Jobs \cup {None},
     terminal : BOOLEAN, remaining : Nat, gone : SUBSET Jobs]

\* The shape of the backlog's state, and the program counters of its users.
TypeOK ==
    /\ dedupe \in [Jobs -> {"none", "pending", "ready"}]
    /\ doc \subseteq Jobs
    /\ list \in [Keys -> Seq(Jobs)]
    /\ sched \in [Keys -> {"none", "due", "later"}]
    /\ bull \in [Jobs -> BullStates]
    /\ leader \in Dispatchers \cup {None}
    /\ disp \in [Dispatchers -> DispatcherType]
    /\ wf \in [Workflows -> CleanupType]
    /\ awaited \subseteq Jobs /\ stopping \subseteq Cleaners
    /\ accepted \in [Jobs -> 0..MaxAccepts]
    /\ added \in [Jobs -> Nat]
    /\ faults \in 0..MaxFaults

Listed(j) == \E i \in DOMAIN list[KeyOf[j]] : list[KeyOf[j]][i] = j

\* A job whose dedupe key says `pending` (so that every further enqueue of it
\* is refused) still has its document and its place in the list of its key, and
\* the key is in the schedule the dispatcher reads, also after a refused lease
\* or a failed add.
NoLostPendingJob ==
    \A j \in Jobs : dedupe[j] = "pending" =>
       j \in doc /\ Listed(j) /\ sched[KeyOf[j]] # "none"

\* However dispatch, crashes and cleanup interleave, BullMQ is given a job id
\* at most once for each time the backlog accepted it: no LLM call is paid
\* twice for one enqueue.
OneHandoverPerAcceptance == \A j \in Jobs : added[j] <= accepted[j]

\* A stopped experiment comes to its end, whatever the dispatcher puts into
\* BullMQ behind the cleanup's back: the workflow never polls for a job that
\* nobody will run and nobody will remove.
StopCompletes == \A w \in Cleaners : w \in stopping ~> w \notin stopping

\* The jobs of a key that BullMQ does not have yet: the list, without its head
\* between `add` and MARK_READY_SCRIPT.
Waiting(l) == IF l # <<>> /\ Known(Head(l)) THEN Tail(l) ELSE l

\* What waits in the lists and what BullMQ has behave as the first-in-first-out
\* queues of JobHandoff: in order, once, and every accepted job is handed over
\* in the end.
Handoff == INSTANCE JobHandoff WITH
    queue  <- [k \in Keys |-> Waiting(list[k])],
    handed <- {j \in Jobs : Known(j)}

ImplementsHandoff == Handoff!Spec
=============================================================================
