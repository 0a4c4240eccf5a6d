# A verification project for ProofHound

ProofHound runs prompts against datasets: an *experiment* calls a model for every sample of a
dataset, an *optimization* loops over experiments, a *release* runs a prompt version on live
traffic. Everything that calls a model goes through one pipeline of queues, leases and limits that
several processes share through Redis, BullMQ, Postgres and DBOS. This directory holds TLA+ models
of that pipeline, of the experiments and optimizations above it, of the uploads, datasets and prompt
versions they run on, of the control and the data plane of releases, and of the annotation of their
results, the TLC configurations that check them, and TLAPS proofs about the backlog and the two gates
in front of a model, the runs of experiments and their inputs, the optimization loop, the control and
the data plane of releases and the annotation tasks.

File abbreviations used below: ST `packages/core/src/shared/llm-admission/llm-admission.store.ts`,
DI `packages/core/src/worker/llm-admission-dispatcher.ts`, CO `packages/core/src/worker/consumers/llm.consumer.ts`,
RU `packages/core/src/worker/runners/llm-runner.ts`, BQ `packages/core/src/server/infrastructure/orchestration/bullmq.service.ts`,
LI `packages/limiter/src/redis-limiter.ts`, IN `packages/llm-client/src/invoke.ts`,
WF/SV/LA/RE/RP `packages/core/src/server/modules/experiment/experiment.{workflow,service,launcher,recovery,repository}.ts`,
RR `.../run-result/run-result.repository.ts`, RW `.../infrastructure/llm/run-result-writer.ts`,
OW/OS/OR `.../optimization/optimization.{workflow,service,repository}.ts`,
RLR/RLS `.../release-line/release-line.{repository,service}.ts`, RRS/RRP
`.../release-line/release-runner.{service,repository}.ts`, WBS/WBR
`packages/core/src/webhook/channels/webhook/webhook.{service,repository}.ts`, IS/IR
`.../dataset/dataset-import.{service,repository}.ts`, DSV/DSR `.../dataset/dataset.{service,repository}.ts`,
PSV/PRP `.../prompt/prompt.{service,repository}.ts`, AS/AR
`.../annotation/annotation.{service,repository}.ts`. Documents are named by their file name,
`24-experiments.md:46`.

## 1. Inventory

| component | state it keeps | operations | hard behaviours | what makes it correct |
|---|---|---|---|---|
| Pending backlog and dispatcher (ST, DI, BQ) | Redis: a list of job ids, a scheduled-keys zset, a document and a dedupe key per job, a leader key | enqueue, peek, mark ready, defer, stop cleanup; the dispatcher's tick | the dispatcher, enqueuers and stop cleanups interleave at every Redis command; a loop may outlive its leadership or abort anywhere | an accepted job reaches BullMQ, once, in order; a stop removes its own jobs and ends |
| Admission leases and worker (ST, DI, CO, RU) | a lease zset per fairness key, the BullMQ job and its payload, the limiter's counter | reserve, extend, release, expire; attempts, rate limits, retries, the failed event | crash between any two calls, stalled jobs, a missed failed event, retries with an old payload | live leases within the limit; no lease taken from a running call; every lease comes back; every job settles |
| Redis limiter (LI) | two sorted sets, a cached token sum, a counter with a TTL | acquire, release, usage | lazy pruning, key expiry under traffic, crashed holders | no window over its limit; an exact sum; calls in flight counted |
| LLM client (IN) | a call in progress | acquire, call, write row, release | an abort timer against a counter TTL of the same length | see the two above |
| Run results (RR, RW) | `run_results` | first-writer-wins insert, terminal queries | worker and reconciliation race to write one row | the row that stands agrees with what ran |
| Experiment life cycle (WF, SV, LA, RE, RP) | `experiments` row (status, control, workflow id, progress), DBOS step log | create, stop, cancel, resume, retry, the batch workflow, recovery | read-then-write requests against the workflow, replay of a step in progress, lost results, cleanup racing workers | success is complete; stopped is settled; one workflow at a time; the snapshot counts; a run ends |
| Optimization workflow and strategies (OW, OS, OR) | `optimizations` row (status, control, objective, best version, current round), versions, child experiments, answered calls | create, stop, resume, cancel, round loop, recovery | waits for children by polling; two levels of control state; steps of several statements that are replayed | the best version is one that was measured and the best; each version builds on the best before it; no call is paid twice; a stop reaches the child; the loop ends |
| Release lines: production, canary, events (RLR, RLS) | `release_line_events`, the two slot pointers and the status of a line, the prompt's online version | create, roll back, promote, edit, stop, start, cancel, archive, unarchive, restore | decisions on a line that has changed by the time they are written; several transactions per request; pointers derived by created_at | one production and one candidate at most; pointers and status agree with the events; what has ended or was stopped stays so |
| Release runner and connectors (RRS, RRP, `redis-mutex.service.ts`, `connector-client/src/input`) | a lease per line, consumers, connector cursors, `total_processed` per event | scan, consume, select a lane, enqueue, commit, attach and push results | a second consumer after the lease ran out, redelivery, counters used as positions, crash between count and push | a message is run by the lane its hash selects, a result delivered once, traffic flows on |
| Webhook calls (WBS, WBR) | a call waiting for its row, `total_processed` | call, wait, answer, give up | the runner counts the same result; late result against the timeout | one answer per call, the answer of that call |
| Datasets and imports (IS, IR, DSV, DSR) | import sessions, staged rows, datasets with a sample count, samples | upload (parse into staging, promote), sweep of stale sessions, deletion of samples | a sweep against a slow upload, two uploads of one name, a crash between two statements, deletion against the creation of an experiment | a dataset is a whole file or nothing; staged rows are cleared; an experiment has one result a sample |
| Prompts and versions (PSV, PRP) | versions, frozen flag | edit a draft, freeze by an experiment | a save that read the draft before it was frozen | all results on a version are made with one text |
| Annotation tasks (AS, AR, RR, RLR) | tasks with a stored progress, samples with a lock of five minutes and an answer | create, claim, submit, release; cleanup of run results and deletion of the line | a submission against a claim, a second tab, an expired lock, and deletions whose statements have snapshots of their own | a lock that runs is respected, an answer kept, a completed task done; a deleted line leaves nothing |
| Models, tokens, projects, monitoring, quick start, judgment, metrics, schema, contracts, applications, UI | rows or none | CRUD, pure functions | little concurrency | ordinary request checks |

Interactions: the workflow enqueues samples into the backlog (ST), the dispatcher moves them into
BullMQ under a lease (DI), a worker runs them (CO, RU) and calls the model through the limiter (IN,
LI); the row it writes (RW) is what the polling workflow waits for (WF, RR). A stop travels the
other way: the request sets `control_state`, the poll step reads it and removes jobs from the
backlog and from BullMQ (BQ, ST). An optimization starts one experiment per round and polls its row;
its stop is passed on to that child. The creation of an experiment freezes its version and takes the
sample count of its dataset, and its workflow reads text and samples batch by batch. A release line
says which lanes are in force; the release runner and the webhook service read it for every message
and enqueue jobs of those lanes, and the runner takes the rows (RW) to the output connector.

## 2. Modules

| module | models | notes |
|---|---|---|
| `JobHandoff` | the promise of the backlog: a FIFO queue per key from which every job is handed over once | abstract specification |
| `AdmissionBacklog` | ST, DI and the job-state side of BQ: one action per Redis command or Lua script, one per BullMQ call | refines `JobHandoff` when no stop runs; `AdmissionBacklogProofs` holds its theorems |
| `LlmAdmission` | leases, BullMQ attempts, workers, the limiter's counter as the second gate, reconciliation | time in ticks; `LlmAdmissionProofs` holds its theorems |
| `RedisLimiter` | ACQUIRE, RELEASE and USAGE scripts, key expiry, the caller's abort timer | ages instead of timestamps; `RedisLimiterProofs` holds its theorems |
| `ExperimentLifecycle` | the documented status diagram with the set of settled samples | abstract specification |
| `ExperimentRun` | requests, launcher, DBOS workflow with batches, poll, reconcile and cleanup, replay, recovery | refines `ExperimentLifecycle` for one user at a time; `ExperimentRunProofs` holds its theorems |
| `OptimizationLoop` | requests, launch, the workflow from its baseline over its rounds to the final status, replay, recovery | a child experiment is what `ExperimentLifecycle` promises of it; `OptimizationLoopProofs` holds its theorems |
| `ReleaseLine` | the event stream of one line, its slots and pointers, every request that moves them, the runner's stop conditions | its theorems are in `ReleaseProofs` |
| `ReleaseRunner` | lease, consumers, webhook calls, lane selection, attachment and push of results | the lanes in force change at any moment, as `ReleaseLine` says; `ReleaseProofs` holds its theorems |
| `DatasetImport` | upload requests, import sessions, staging, promotion, the sweep | its theorems are in `ExperimentInputsProofs` |
| `ExperimentInputs` | edits of a draft, the freeze, deletion of samples, creation of an experiment and what its workflow reads | on top of `DatasetImport`; `ExperimentInputsProofs` holds its theorems |
| `AnnotationTask` | creation, claims, submissions and releases of samples, cleanups and the deletion of the line | one action per statement where its snapshot or its row locks matter; `AnnotationTaskProofs` holds its theorems |
| `MC...` | definitions TLC needs: jobs, keys, owners, tokens, batches, faults | |

### Correspondence

*AdmissionBacklog.* `list`, `sched`, `doc`, `dedupe` are the four kinds of Redis keys; `bull` is the
class of a job's BullMQ state (absent, waiting = any removable state, active, terminal); `disp[d]`
is a dispatcher loop with its program counter between two awaits, `wf[w]` a stop cleanup. A Lua
script or a MULTI is one action; `peekNextPendingJob` is four (`PeekHead`, `Unschedule`,
`FetchDoc`, `PopHead`), `removePendingLlmJobs` four (`ReadDoc`, `RemovePending`, `ReadLength`,
`RescheduleKey`). Whether a lease is granted is a choice here; `LlmAdmission` decides it there.
`Settle` is external to the backlog: the result row of a finished job.

*LlmAdmission.* `lease[r]` counts down the ticks a reservation has left (0 = pruned or never made;
the scripts prune before they count, so an expired member is as good as absent). `Reserve`,
`Heartbeat` and the release in `EndAttempt` are the three scripts; `held[j]` is the payload
`process()` parsed, which a retry reads again although its lease was released. `StalledCheck`,
`Promote` and the final `OnFailed` are BullMQ's, as CO relies on them (`attempts` 5, one stall); a
worker that loses its BullMQ lock and answers all the same, beside the next attempt, is left out. The
limiter's counter may expire at any moment (`SlotsExpire`), a call in flight or not. A
reservation id is reused when nothing mentions it any more: the stand-in for a fresh UUID. Webhook
receipts, job events and the row's contents are left out.

*RedisLimiter.* `age[c]` replaces a member's score; an entry is pruned by the next script that
runs, not by time, while `granted` is a history of the calls granted within the last window, so
`RpmBound` and `TpmBound` speak of what really was granted rather than of the stored sets. The
concurrency counter is one number with one TTL, renewed by every acquire and release. Calls that
do not reserve (an admitted job's calls, `preReserved`) only pass the windows. Auto-concurrency is
off: `compute_effective` is then the configured ceiling. The counter expires by its own TTL, whoever is
still calling; `overdue` remembers that one of the calls under way has taken as long as it lives.

*ExperimentRun.* `req[c]` is a request between its awaits (read and check, UPDATE, start of the
workflow, UPDATE of its id); `wf[w]` a workflow with its DBOS step and the locals of that step;
`job[s]` and `row[s]` a sample's job and result. A step in progress starts over on a restart
(`Replayed`), a finished one does not run again. Simplifications: the aggregate's SELECT and UPDATE
are one step; every reason for which a step may throw (a missing prompt version, an empty dataset,
a database error) is one fault; `queued` stands for the backlog and every removable BullMQ state,
whose difference `AdmissionBacklog` models; deletion of experiments is not modelled.

*OptimizationLoop.* `status`, `control`, `objective` and `wfId` are the row; `best`, `current`,
`parent` and `calls` what the rounds leave behind; `exp[n]` the child of round n (0 is the
baseline) and `wf[w]` a workflow with its DBOS step and locals. A metric snapshot is one number and
the goal is to reach `Goal`. A step of two statements is two actions (`UpdateBest`,
`UpdateCurrentRound`, and the launch of a child after its row), so that a crash may come between
them and the step is executed again from its first statement.

*ReleaseLine.* A request reads the line once and decides all it will write (`Begin`); each write is
a transaction (`Write`), so `req[a].todo` is what it has left. `Record` is `record` (RLR:197) with
the events it ends, `Pointed` is `updateLinePointers`, `Again` is `eventDtoToSnapshot`. `at` is
created_at, taken before the transaction. Writes behind the lock of the line's row are atomic;
`completeCanaryEvent` and `refreshLinePointersByEvent` read some of it before they have the lock,
and are modelled as atomic too. Equal created_at are ordered by commit.

*ReleaseRunner.* One line, one partition. `lock` is the lease key and `task[s]` the consumer of a
server (or its webhook call) between two awaits, `scan[s]` its scan, `taken` the committed offset of
Kafka or the position of a Redis read; `rows[e]` are the results of an event in the order of
created_at and `total[e]` its `total_processed`. A Kafka task that starts with a canary in dual run
joins another consumer group (RRS:655), so `taken` is one offset a group and a consumer keeps its
group until it ends; what lies before `DualFrom` when that group first starts is never given to it. A
scan ends in the stop conditions of the canary it has read (`CompleteCanary`), which abort the
consumer of its server whatever production does (`StopConsumer`); one stop condition is met in a
behaviour at most. `laneOf` is the lane of each event, and `ChangeLanes`
puts any event of a lane, or none, in force: also one that was in force before, because a production
that starts after an archive was read is hidden by the archive without being ended, and unarchive
brings it back. `Hits` is the set of messages whose hash passes the
canary's ratio. Consumers never read rows and the delivery of results never reads the state of
consumers, so jobs finish only on webhook lines (`Finishing`): it keeps both halves small without
leaving out a behaviour of either. A scan that finds nothing to do is left out.

*DatasetImport.* `imp[u]` is the status of a session, "finalizing" standing for the status importing
in a promotion phase; `stale[u]` says that updated_at is older than the stale timeout, `staged[u]`
are its rows by batch, `up[u]` the request between its awaits. The promotion is one transaction but
two actions: what it reads, and the guarded UPDATE that decides whether it commits; `counted` is the
count it read. The sweep works on several sessions at once; an error in one ends it (`SweepFails`) and
leaves the others to their promises (`left`) while the next sweep may start. `happened` remembers the
faults, and `lost` the uploads whose rows nobody will look for. In a run all uploads want one name.

*ExperimentInputs.* `version` is one prompt version with a text and the frozen flag, `req[c]` a
request between its statements, `exp[e]` an experiment with the locals of its workflow that depend
on the inputs: the planned total, the keyset cursor, the texts rendered and the samples that have
results. A sample's job always gives a row here; what can happen to it is `ExperimentRun`.

*AnnotationTask.* Statements are READ COMMITTED. A submission is two actions: the snapshot of its
WITH (`SubmitSample`, which keeps the count it saw in `submit[tab].seen`) and the update of the row,
whose condition Postgres evaluates again under the lock (`StillOpen`); a claim skips locked rows. The
two statements of a cleanup or of `hardDeleteLine` each have a snapshot; what they delete is locked
(`Deleting`) and is gone for others at the commit (`purge`). One transaction deletes at a time, one
task is created at a time, and no statement lasts as long as a tick of the clock.

## 3. Runs

`Faults`, `MaxFaults`, `MaxAccepts`, `MaxStalls` (in `ReleaseRunner`: `Failures`, `MaxFailures`) and
the sets of ids are bounds; each is named where a guard uses it.

| run | instance | states | shows |
|---|---|---|---|
| `BacklogOneDispatcher` | 3 jobs of 2 keys, 1 dispatcher, 2 aborts or failed calls, no stop; fairness | 62 k | `NoLostPendingJob` (an accepted job is in its list, with its document, and its key scheduled), `ImplementsHandoff` (refinement, liveness included: every accepted job is handed over, in order, once) |
| `BacklogStop` | 2 jobs of 2 experiments on one key, 1 stop cleanup, each job accepted up to twice, 1 fault; fairness | 162 k | `OneHandoverPerAcceptance`, `StopCompletes` (liveness) |
| `AdmissionFaults` | 2 jobs, 2 dispatchers, 2 reservation ids, limit 1, 2 attempts, 1 fault (a job that has stalled may stall again beside it, until BullMQ gives it up), one an experiment's that may be stopped, the other (of a webhook, say) without admission and refused by the limiter now and then; fairness | 138 k | `LeaseBound`, `LeaseOutlivesCall`, `FailureIsFinal`; `LeaseComesBack`, `JobSettles` (liveness) |
| `LimiterKey` | 5 calls with 0 to 3 tokens, 3 of them reserving, window 3, RPM 3, TPM 4, concurrency 2, TTL 2, calls up to 2 ticks (the TTL, as by default) plus 1 to release, crashes at any time; fairness | 161 k | `RpmBound`, `TpmBound` (with an exact cached sum), `RetryAfterIsExact`, `SlotsCoverCalls` (until a running call outlives the counter), `LeakNeverBlocks` (liveness) |
| `ExperimentRuns` | 2 batches of one sample, 2 workflow ids, one client with stop, cancel, resume and retry, one fault of nine kinds; fairness | 345 k | `StoppedIsSettled` (with at most one workflow), `SnapshotExact` (with: success is complete), `StopIsHeard`, `ImplementsLifecycle` (refinement), `RunningEnds` (liveness) |
| `ExperimentInputs` | 2 uploads of up to 2 and 1 batches, 2 texts, 2 requests, 1 experiment, two faults of five kinds | 3.2 M | `ImportIsWhole`, `StagedIsOwned`, `ResultsFitInputs` |
| `Optimization` | 2 rounds, scores 0 to 2, 2 workflow ids, all three starting points, stop, resume, cancel, one fault of twelve kinds for the start from an experiment and of one or two for the others; fairness | 670 k | `BestIsBest`, `BuildsOnBest`, `ChargedOnce`, `StopReachesChildren`, `StopStands`, `RunningEnds` (liveness) |
| `Releases` | streams of 5 events, 2 versions, all 13 operations of 2 clients and the runner, one overtaking request or one crash | 706 k | `OneActive`, `LineTellsTheTruth`, `EndedStaysEnded`, `StopHolds` |
| `ReleaseTraffic` | 2 servers, 2 messages, 2 events, one stop condition, on six lines: Kafka in split mode with a second production (any fault) and with a canary (a crash), Kafka in dual run with both consumer groups, the second of which starts behind the first message (no fault), a stream in dual run (any fault but a pause), asynchronous calls (any fault) and synchronous ones (none); fairness | 645 k | `ServedOnce`, `PushedOnce`, `TrafficFlows` (liveness) |
| `Annotations` | one task of two samples, one user with two tabs, one who claims, 3 claims, 2 categories, a lease of one tick, cleanups of one or both results, the deletion of the line; fairness | 135 k | `WorkIsKept`, `CompletedIsDone`, `DeletedLineIsBare`, `SampleGetsDone` (liveness) |
| `AdmissionRetries`, `WebhookCounts` | see section 5 | | a counterexample each |

Why these bounds. The backlog's races need two jobs on one key (a head and the one behind it) and a
second experiment on that key; a third job on a second key exercises the round over due keys. Leases
need one more job than the limit; the second dispatcher gives a double reservation for one job. The
limiter's windows need one call more than each limit, unequal token counts, a zero, and calls that
straddle a window's edge; a TTL shorter than two calls in a row makes the counter expire between
them, and a TTL no longer than a call under it. The experiment needs a batch before and a batch
after the point where something happens and one id for each start; a crash between the start of a
resume and the storing of its id makes the recovery look at the old id and start a third workflow,
which two ids are too few to show (section 5). An upload needs a second one that takes its name
meanwhile and a batch after the one the sweep finds stale; an experiment on its dataset needs a
sample to lose and one to keep, and two requests that overlap. An optimization needs a round that
gets worse and one after it, hence two rounds and three scores; a second workflow, which a hasty
resume or a failed look-up starts, comes in the second round only (`TwinsFrom`). With no such
limit (0) the safety properties hold on 1.8 M states too. The baseline tells the starting points apart, and
what a fault does after it one of them shows. An annotation task needs a sample that goes while
another stays, two submissions of one user and a claim of another; three claims let a lease run out
twice. A candidate that comes back needs four events (create, cancel, archive, unarchive); the fifth
leaves room for a production beside it. The runner needs a second server to take over, a second
message behind the one in hand, and an event that ends while another begins. The faults of a line
are cut where they multiply: a second consumer group with every kind of fault has 5.6 M states, with
a crash or a failing enqueue 0.6 M, and `ServedOnce` holds on both. In all runs the interesting case
needs one fault; two are allowed where a repair can itself fail.

Deadlock is not checked where the system may come to rest: the backlog is empty, all jobs have
ended, the experiment is over and its user asks for nothing. The limiter's runs do check it.

### Fairness

* Dispatcher loop: a tick repeats for ever and logs every error (DI:73-89), hence weak fairness of
  its steps; strong fairness of `Granted`, because the leases of a key come back again and again
  (`LeaseComesBack`).
* Workers and BullMQ: a waiting job is fetched, a delayed one promoted, a stalled one found, by
  timers of their own. Strong fairness of a job's *final* end in `ExperimentRun` and `BacklogStop`:
  BullMQ gives a job five attempts (bullmq.module.ts), and the abort timer bounds each; rate limits
  can put it back without using one, but the limiter's windows move on (`RetryAfterIsExact`).
* Requests, workflow steps, the reconciliation and the recovery: weak fairness; DBOS replays an
  interrupted workflow after a restart.
* Optimizations: a child experiment that runs comes to an end, which is `RunningEnds` of
  `ExperimentRun`. Releases: the scan timer of a live server goes on, and so does its consumer or
  the renewal timer beside it, and a key without an owner expires (`redis-mutex.service.ts`:48).
* Annotation: statements and transactions end, the clock goes on, and one diligent user goes on
  submitting whatever he may, which is what `SampleGetsDone` is conditional on.
* Faults, stops, crashes, requests, and the arrival of messages and results are never fair.

## 4. Proofs

The modules `...Proofs` prove, from the named assumptions on the constants (`BacklogAssumption`,
`AdmissionAssumption`, `LimiterAssumption`, `ExperimentAssumption`, `OptimizationAssumption`,
`ReleaseAssumption`, `RunnerAssumption`, `ImportAssumption`, `InputsAssumption`,
`AnnotationAssumption`) and for every value of them, the theorems below. `RunnerAssumption` fixes
one thing that is not a type: the events of a line are numbered from the production with which a
behaviour begins. Four conditions on the behaviour stand in the theorems that need them, because the
properties fail without them (section 5): `OneTick`, no two dispatcher ticks overlap, which holds
with one dispatcher and as long as a leader key outlives its tick; `NoStop`, no stop cleanup is at
work; `OneRequest`, no two requests about one experiment overlap, which holds for one user at a
time; `Tended`, no step of an optimization throws in a behaviour in which the row has lost its
workflow or DBOS could not be asked for it. Corollaries state the same without any condition for one
dispatcher, no cleanup and one client, the constants of the runs, and for optimizations in which one
fault happens at most.

| theorem | argument |
|---|---|
| `AdmissionBacklogProofs!TypeCorrect` | with `Shape`: a dispatcher and a cleanup have locals that fit their program counters |
| `OneHandover` | under `OneTick`. `HandInv`: what may still be added has been accepted once more than it was added (`Owed`); a job that a cleanup removed while a dispatcher had it in hand is no longer pending and is not looked for in BullMQ by that cleanup or a later one (`HandFits`), because a cleanup looks in BullMQ only for jobs that have no document any more (`CleanupFits`) |
| `NothingPendingIsLost` | under `OneTick` and `NoStop`. `QueueInv`: every entry of a list is a pending job of its key with its document, once; only the head can be in BullMQ; the schedule has exactly the keys with a list (`ListsFit`); every pending job is in its list (`PendingListed`); a dispatcher works on the head of its list and never finds it empty (`TicksFit`) |
| `ImplementsHandoffSteps` | under the same conditions, the safety part of `ImplementsHandoff`. With `QueueInv`, the list without a head that BullMQ knows is the abstract queue (`Waiting`): a `queue.add` hands the head over, and the script that takes it off the list is a stutter. What LREM does to a list is proved once, before (`RemoveFirstShape` and the lemmas after it) |
| `LlmAdmissionProofs!TypeCorrect` | inductive only with `AttemptsLeft`: a job that may run again has an attempt left, so the counters stay within their ranges |
| `LeasesBounded` | only `Reserve` makes a lease live, and only below the limit; an extension, a release and the clock give a subset of the live leases (`FewerLeases`) |
| `LeaseKept` | an action property; needs `ReservationsDistinct`: no two jobs, no two dispatchers, and no dispatcher and job mention the same reservation (except the dispatcher whose `add` found its own job), so nobody releases another one's lease |
| `FailuresFinal` | the action property `FailureIsFinal`. `FailureEnds`: a failed row, or a final failed event, belongs to a job that BullMQ has finished with, and no dispatch of the same id, stalled check or stop takes such a job up again (`FinishedStays`) |
| `RedisLimiterProofs!TypeCorrect` | type correctness alone is inductive, the abort timer bounding `elapsed` |
| `RpmBounded` | with `GrantedInWindow`: every grant of the last window is still an unexpired member of the stored set, so checking the pruned set bounds the grants |
| `SlotsCover` | without an assumption on timeout, delay and TTL. `TtlCovers`: while no running call is overdue, the counter lives at least as long as what is left until the oldest of them would be, so it cannot expire under them (`HoldingCovered`); `SlotLimit`: the scripts keep the counter below the limit always |
| `TpmBounded` | a sum of tokens is a fold, and what a fold computes needs induction over data. The sum is therefore shown to be the cardinality of a set of units, one for each token of each call (`SumIsWeight`, by well-foundedness of the subset order), and the library's facts about cardinalities do the rest. The invariant `TokInv` says that the cached sum is the sum of the stored members, and that the grants of the last window are exactly the young members |
| `RetryAfterExact` | the delay is computed from the oldest stored entry that is still young: at that tick this entry leaves and the request passes, one tick before it is still there (`RpmExact`); for tokens it is the entry with which enough tokens leave (`TpmExact`). The minimum over a set of waits exists by well-foundedness of the numbers |
| `ExperimentRunProofs!TypeCorrect` | with `Shape`: what a step has in hand belongs to its batch (`Fit`), and a workflow step is a `Turn` from one program counter to another |
| `SnapshotIsExact` | without a condition. `Covered`: no sample of a finished batch is without its row, in spite of replays, stops and lost jobs; `Alone`: one workflow at most is at work unless "twin" happened; `Attended`: a job whose row is still to come belongs to a batch that is waited for; `Counted`: between two batches the snapshot counts every row |
| `StoppedSettles`, `StopHeard` | under `OneRequest`. `Serial`: unless a failure made the row and its workflow lose each other, the experiment is running exactly while a workflow is at work or about to start, and the row knows that workflow; `Heard`: a request that would overwrite a stop was checked when there was none, and a workflow starts when there is none |
| `LifecycleImplemented` | under `OneRequest`, all of `ImplementsLifecycle`: one case for each action, which is a step of the life cycle or a stutter in view of `Shape`, `Free` and `Ordered` |
| `OptimizationLoopProofs!TypeCorrect` | with `Shape`: the locals fit the program counter (`Fit`); a step of a workflow is a `Turn` of one of 23 kinds, which the lemmas `...Turns` derive from the actions and everything after them uses; an interrupted or finished round exists (`Made`, `Measured`), and who asked for what is consistent (`Asked`, `Opened`) |
| `NoCallIsChargedTwice` | `ChargedOnce`. `Solo`: two workflows are at work only after "twin"; `Paid`: a workflow about to make a call has none of that kind for its round, because a replay looks the answers up again |
| `StopsReachChildren` | `StopReachesChildren`. `Reached`: a child that runs unstopped has a workflow that waits for it (`LookedAfter`), a wait that has passed the stop on has stopped its child (`PassedOn`), and a workflow past its start works on a running row or one with a stop in it (`Obedient`) |
| `StopsStand` | the action property `StopStands`, whatever fails. `Stands`: while a stop or a cancel is in the row and no starting workflow has overruled it, the row says so, and with the id of a new optimization not stored yet nobody can have stopped it, so the one UPDATE that does not ask for the status finds it as it was created |
| `BestIsTheBest`, `VersionsBuildOnTheBest`, `BestWithOneFault` | `BestIsBest` and `BuildsOnBest`, that the best version was measured without a condition and the rest under `Tended`. Neither is inductive, and the invariant `Good` has three parts. `Rows`: a resume starts a workflow when none is at work, the row knows the one that is (`Known`), and a child that nobody waits for is waited out (`Left`). `History`: the rounds follow each other, what was derived from what, the best up to the current round, the verdict told. `AtWork`, for each workflow at its program counter: every round before its own has a result, or was left for a stop that is still there (`Before`, `StopsFor`); its own child is where it expects it (`OwnChild`); the best it read is still the best, and no version before its own meets the goal (`Compares`); the verdict it brings is true (`Judged`) |
| `ReleaseProofs!OneEventASlot` | `OneActive` for streams of any length, with overtaking requests and crashes. Inductive with what a request may still write: `record` ends whatever occupies the slot of its new event at the time of the write, whatever the request has read (`RecordStep`); the writes by id only complete an event; and the copies `archiveLine` appends are archived, which is the part of the invariant about `todo` |
| `StopsHold` | the action property `StopHolds`: `todo` holds the record of a running event only for a request that is meant to start the line, or that was read while something ran (`WriteOK`); no other write makes an event run |
| `LineIsTruthful`, `EndedCandidatesStay` | `LineTellsTheTruth` and `EndedStaysEnded` for streams of any length. Both speak of a line at rest, so the invariant must say what a request leaves to be put right between its writes. `LineInv`: while no request overlaps another and no server stops, one request at most is at work, with one of some twenty sequences of writes left (`Left`), and the line is `Sound` for them: the pointers show the last event of each lane that can be shown, which is what the maximum over created_at gives (`SlotIsTopmost`), unless a pointer refresh is to come; the status says what runs; the online version is the production's, unless an UPDATE of the version is to come; the last active candidate goes on, unless its completion is to come. Three facts hold all along (`Base`): the stream is in the order of created_at, nothing that can be shown follows a running event of its lane, and an archived line has its shown events archived. Each request is proved to leave a sequence of writes that fits (`Left`), and each write to turn a sound line into one that is sound for the rest |
| `RunnerTypeCorrect` | with `RunnerShape`: the locals of a consumer, a call and a scan fit their program counters, and what is behind the message in hand are the messages that follow it |
| `MessagesAreServed` | `ServedOnce` for any number of servers, messages and events, any batch size, any hash and both groups. `OneOwner`: a task that owns the lease has the key. `ChosenOnly`: until the lanes change or a canary is stopped, in split mode the jobs of a message, and those about to be made, are of the lane its hash selects. `NothingLeftOut`, for each group: while there was a production and, but for Kafka, no server failed and no canary was stopped, a message below the cursor has its jobs or is in the hand of a consumer of the group; for Kafka it has them, because a commit follows them and a consumer fetches behind the committed offset of its group only. `StopIsMet`: a scan about to abort its consumer has met a stop condition, and without one a consumer is only aborted when no lane runs, or by its lost lease |
| `ResultsArePushedOnce` | `PushedOnce` for the same constants, with any number of servers that scan at a time, unless a statement counts rows another one has counted since it read them, a row commits late or the calls are synchronous. `OnePush`: an event has one row for each finished job and the counter at one of them; what was pushed is counted, what is counted is pushed, in a scan's hand or lost to a crash or a failed push (`PushedRows`); what a scan has in hand is counted and was not pushed (`Carries`), and no two scans have the same row of an event in hand (`Apart`): what a statement counts are the rows right behind the counter, at the time it counts them (`CountDelivers`) |
| `ExperimentInputsProofs!TypeCorrect` | the shape of sessions, staging, requests and sweep, part of the next invariant |
| `StagedOwned` | `StagedIsOwned` for any number of uploads, batches, requests and faults. It is not inductive: a session in promotion is in nobody's view, so the invariant adds that such a session still has its request (`PromotionAlive`), and rows of an aborted session are those a sweep has in hand (`RowsFound`). What breaks either for an upload puts it among the `lost`: a request, a sweep or the server that stops there, a clearing that fails, an append after the abort |
| `ImportWhole` | `ImportIsWhole` for any number of uploads and batches. `Standing`, for each upload: a request that still has its session has staged its file so far, and what it counted; a dataset is there once its session is completed, and stays when the answer fails. `OneName`: only one dataset has the name |
| `ResultsReached` | `ResultsFitInputs` for any number of samples, clients and experiments: unless samples went or a server stopped at the wrong moment, the sample count of a dataset is the number of its rows, less those of a deletion between its two statements (`Tally`, `RequestFits`), an experiment's total is that number, and the cursor has passed exactly the samples that have results (`RunsOver`, `Progress`) |
| `TextFixed` | `TextIsFixed`, the prompt half of `ResultsFitInputs`, for any number of clients and experiments: a frozen version has no save ahead of it (`NoSaveAhead`), which the freeze establishes unless one is under way and the check of a draft keeps, and an experiment uses only a frozen version (`RunsFrozen`) |
| `AnnotationTaskProofs!TypeCorrect` | part of the invariant `IInv`: a creation under way names a task that is not there yet and a submission a sample, so that the counters stay numbers |
| `LineBare` | `DeletedLineIsBare` for any number of users, tabs, tasks and results. A line is deleted only when the rows it has in hand are all there are (`ForeignKeysHold`); afterwards nothing may come: a sample has a task (`RowsHaveTask`), and a task being inserted holds the deletion back (`CreationFits`) |
| `WorkKept` | the action property `WorkIsKept`: a commit of a creation meets only rows of a task that was not there, a claim and a submission look at the lock they overwrite, and what a cleanup deletes belongs to results it deletes (`PurgeFits`) |
| `CompletedStays` | the action property `CompletedIsDone`. `ProgressInv`: a task has no more rows than it counts as sampled (`FewRows`), the snapshot of a submission lacks its own sample and so counts fewer than that (`SeenFewer`), hence the stored status is never `completed` (`NotYet`, section 5) and what the page shows comes from the rows. Only the creation of another task makes rows (`RowsOnlyGo`), and a stored answer stays (`WorkKept`), so what is complete stays so until its rows are gone |

Model-checked only: the liveness properties, that of `ImplementsHandoff` among them, because neither
fairness nor ENABLED is within the prover's reach, and type correctness of `ReleaseLine`. Every
safety invariant and every action property of a passing run is proved. The type invariants that are
proved are in no run. Those of the other modules state the shape of their variables for the reader;
TLC finds them true in the runs above, where the stronger properties stand. The invariants of the
proofs were checked by TLC before they were proved, on the instances of section 3, `LineInv` on
streams of six events (1.5 M states) and, with one version, of seven. The proofs do not use that a
kind of fault occurs once at most in a behaviour, but the models have no more of them.

## 5. Where the code and its documents disagree

Each of these is a run whose one property TLC refutes.

| run | what happens |
|---|---|
| `AdmissionRetries` | the first attempt releases the lease (CO:117), the retry reads the same payload and calls the provider pre-reserved (RU:179) while another job has been admitted (03-orchestration.md:166). Without retries, and with ready jobs picked up before their lease runs out, the same property holds |
| `WebhookCounts` | a synchronous call adds one to `total_processed` for the result it answers with (WBR:247); the runner takes the same number for the count of rows it has pushed (RRP:254), so that row or the next one is never pushed (27-releases.md:356), and a canary's maximum of samples is reached at half of them |

The models show further behaviours with other constants, and the preconditions of the passing runs
come from them.

*Backlog.*
* `removePendingLlmJobs` reads LLEN and deletes the key's list in a later transaction (ST:221-225): a
  job of another experiment pushed in between is in no list, and its dedupe key refuses every
  further enqueue (03-orchestration.md:43, 49-50). `NoLostPendingJob` is therefore checked without a
  stop.
* Two dispatchers (a loop that outlives its leader key): the LPOP meant for a head without a
  document pops the head of by then (ST:189), and `NoLostPendingJob` fails; with a stop,
  `OneHandoverPerAcceptance` fails too. Hence one dispatcher in both runs.
* A job the dispatcher holds in its hands is added to BullMQ after the cleanup reported it removed
  (BQ:149). `StopCompletes` says that the stop ends all the same.

*Leases and limiter.*
* Leases and limiter slots are separate counts, and a ready job's lease is only extended once a
  worker has started it (CO:319): with calls that bypass admission, or a slow pickup,
  `InFlightBound` fails without any retry.
* Every acquire renews the TTL of the whole counter (LI:234): under steady traffic a crashed call's
  slot never comes back (02-tech-stack.md:87). `LeakNeverBlocks` says that a full counter still
  opens.
* The counter of the slots lives 300 s after the last acquire (LI:18), a call may take 300 s
  (IN:62), and its slot is released after that. With a TTL no longer than a call, a limit of one and
  no windows, TLC finds the counter expire under a call, another call admitted, the late release of
  the first take the slot of the second, and a third let in beside it, where 03-orchestration.md:166
  says that Redis controls the number of requests in flight. `SlotsCoverCalls` therefore speaks until
  one of the calls under way has taken as long as the counter lives, and again once the calls beside
  it have ended.

*Experiments.*
* A batch that outlasts its polling budget returns like a finished one (WF:436), and the experiment
  becomes `success` without its results (24-experiments.md:46).
* A retry zeroes the progress while the rows stay; a stop before its first aggregate leaves it at 0.
  A failed step leaves queued jobs behind whose rows arrive after a later stop. A failed look-up by
  the recovery, or a failed UPDATE of the workflow id followed by a retry, starts a second workflow.
  `SnapshotExact` exempts these.
* After a crash between the start of a resume and the storing of its id (LA:39) the recovery looks
  at the old id, and with a third workflow id starts a second workflow.
* With two clients, two resumes that both read `stopped` start two workflows (SV:184).
* A server that stops between the INSERT and the storing of the workflow id leaves a row `running`
  that the recovery skips (RP:294): `RunningEnds` exempts the crash.
* A sample whose job starts and finishes between `getState` and `remove` of the cleanup (BQ:169) is
  run again by the resume, although it has its row.

*Optimizations.*
* A stop whose child still ends in success: the resume counts the round as finished and never
  compares its result (25-optimizations.md:133; OW:2019-2031), and so does a workflow that reads its
  configuration again after its baseline. "missed" marks both.
* A step that throws in a workflow whose id is not in the row, or that the recovery could not look
  up, leaves its round to nobody: the workflow started after it finds the round running or finished
  and builds on what is the best without it. It takes two faults, hence `Tended`.
* A resume while the stopped workflow is still in a call or a poll makes two workflows: double
  charges and a stale best. A failed look-up by the recovery does the same.
* After an hour the wait gives up on a child, which runs on (OW:2041). A resume whose launch fails
  stays `running` until somebody stops it or the server restarts (OS:425).
* A stop or a cancel that comes before the workflow's first step is overwritten: `markStarted`
  writes `running` over `stopped` and `cancelled` alike (ORP:590) and leaves the control state, and
  an optimization that meets its goals at the baseline becomes `success` with the stop still in its
  row, without any fault (25-optimizations.md:176-177). `StopStands` says nothing after a workflow
  that starts has overruled a stop so, until a resume clears it. Everything else that comes between,
  a replay, the recovery, the wait for a child, a failed UPDATE, leaves the stop alone.

*Inputs of experiments.*
* 23-prompts.md:144 says that the database keeps a frozen version as it is. No migration has such a
  trigger, and the UPDATE of a draft does not ask for is_frozen (PRP:491): a save that has read the
  draft before the freeze changes the text under the results. `TextIsFixed` exempts exactly it.
* Samples that are being deleted while an experiment is created on them (DSV:230-238): the
  experiment keeps a total it cannot reach, or finds the dataset empty. A crash between the deletion
  and the decrement does the same to all later experiments. `TotalIsReached` exempts both.
* The sweep leaves out sessions in promotion and aborted ones (IR:308): a server that stops during a
  promotion, or between the abort and the clearing, leaves rows for good. So does a clearing that
  fails: that of the sweep is only logged (IR:372, IS:260), while the session is aborted already. A
  slow upload goes on inserting rows after its session was aborted (IR:145), and then answers 200
  with the aborted session. `StagedIsOwned` names these, for the upload they happened to.
* An error after the commit of a promotion turns the completed session into a failed one (IR:342)
  and the request fails, although the dataset is there; `ImportIsWhole` allows it after a failed
  statement.

*Annotation tasks.*
* The progress of a task is counted in the snapshot of the statement that submits a sample (AR:487),
  which does not show that sample: `total_annotated` lags one behind and the last submission leaves
  `annotation_tasks.status`, the state of a task by 06-database-schema.md:55, at `active`. The page
  derives `completed` from the samples (AR:691), the deletion impact of a line shows the stored
  value (RLR:647). `CompletedIsDone` speaks of what the page shows.
* A task created across the two statements of a cleanup (RR:665) keeps samples whose run result is
  gone (06-database-schema.md:596, 30-run-results.md:173). They can be claimed but never submitted
  (AR:472), no later cleanup finds them, and the task is never completed. `SampleGetsDone` exempts
  results that are gone.
* The sample is drawn after the count (AS:61): a cleanup in between makes it smaller, or empty, and
  an empty task is active for ever.

*Release lines.*
* A stale edit writes the status it has read: it runs a lane again after a force stop, or beside the
  promotion of the same candidate. `StopHolds` therefore admits requests read while the line ran.
* A crash between the two transactions of a promotion (RLR:875-900, which 03-orchestration.md
  describes as one) leaves the candidate running beside its production; one between the runner's
  UPDATE and its refresh leaves stale pointers; a transition over a configuration edit loses the
  stop condition.
* After cancel, archive and unarchive, the candidate that was cancelled comes back: with nothing to
  show, `archiveLine` archives the latest event (RLR:470). `EndedStaysEnded` exempts an archived
  candidate.
* A create or a start on an archived line leaves a running event in the dark (27-releases.md:165):
  traffic starts when somebody unarchives the line. If the slots then show nothing archived,
  `unarchiveLine` takes the latest event of the line (RLR:525-527): a candidate that was started in
  the dark and cancelled there is recorded as stopped, and occupies its slot again. It takes seven
  events (two more than the run has), and `EndedStaysEnded` exempts lines on which something was
  started in the dark.
* An archive that was read before a production started hides that production and does not end it
  (RLR:473-509 copies what it has read); unarchive brings it back into force. The runner must expect
  an event it has served before.
* A promotion does not set the prompt's online version, and POST `/production-releases` from a canary
  does not complete the canary. Start and stop of a canary through its own API make new release
  versions, where 27-releases.md:186 says they are kept.

*Release traffic.*
* Rows are pushed by position: when the attach statements of two servers overlap, so that one counts
  rows which the other has counted since it read them, these rows are pushed twice and counted
  twice; a row that commits after a younger one is missed or pushed again. `PushedOnce` exempts
  these two, and two scans that merely run at the same time it does not.
* A crash or a failed push after the rows were counted loses the delivery (RRS:391); the results of
  an event that was replaced or stopped meanwhile are never pushed.
* What a Redis consumer has read and not finished is lost when it stops, by a fault or by the stop
  condition of a canary: that aborts the consumer of the line though its production goes on
  (RRS:304), what the consumer had read of a stream is not handled (redis-stream.driver.ts:129) and
  never read again, so production does not see it, although by 27-releases.md:113 it "still
  processes and returns 100% of the primary results" in a dual run. Only Kafka gives it out again.
  `ServedOnce` exempts both for Redis. A task of Kafka that starts with a canary in dual run joins
  another consumer group: it runs messages again that the first has run, and skips what came before
  its own first start. A message of a line that is no longer runnable is acknowledged without a job.
* A configuration edit makes a new event, and with it a new hash: a message redelivered across it
  may be run by both lanes. While a lease lapses, two servers consume (03-orchestration.md:73).

## 6. Plan

1. `AutoConcurrency`: the TypeScript and the Lua derivation of the effective concurrency compared
   over bounded inputs, and the window that `RedisLimiter` then uses.
2. The other freezers of a version (release-line, optimization, canary). Sampling by category.
   Deletion of experiments, optimizations, datasets and prompts under a running workflow.

The runs stay few: a new module brings one passing run, and a run whose question a stronger one
answers is folded into it.

## 7. Not modelled

Of the release line: names and release versions, other lines of the same prompt, listing, and, in
`ReleaseLine` and `ReleaseRunner`, retention (which shifts the positions the runner counts by) and
hard deletion, which `AnnotationTask` has. Of the runner: filters, field mappings, record mode,
`control_state` (nothing writes it), metrics, the limit of 200 rows a scan, Redis lists beyond their
read, a committed offset that is missing from a group that was in use (the group joined later begins
where it first starts, and keeps its offset), the receipts of asynchronous calls, more than one
partition. Of experiments and optimizations: deletion, listing, export, the step history.

Of datasets: inline creation, archive and restore, hard deletion of a dataset, previews, quotas,
image storage. Of prompts: new versions, labels, archive, deletion with its cascade, and the freezes
by releases, canaries and optimizations. Of annotation tasks: sampling by category, the choice of the
categories, listing, and the older requests of a canary, which ask for the holder of a sample only.

Provider dialects, image pre-processing, prompt rendering, judgment and metrics are data
transformations. Models, tokens, projects, monitoring and quick start are request-scoped CRUD
without concurrent state of their own. The schema, shared contracts, crypto, logging, the API
client and the user interface have no control flow that the properties above depend on. Redis,
BullMQ, Postgres and DBOS are modelled from the way this code uses them, and marked external.
