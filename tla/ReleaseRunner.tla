---------------------------- MODULE ReleaseRunner ----------------------------
(***************************************************************************)
(* The data plane of one release line.  The server that holds the lease of *)
(* the line consumes its queue connector, or any server answers the calls  *)
(* of its webhook, and turns messages into LLM jobs of the lanes in force; *)
(* every server scans the line, attaches finished results to the lane and  *)
(* pushes them to the output connector.                                    *)
(*                                                                         *)
(* Every database statement, Redis command and connector call is a step.   *)
(* ReleaseLine models how the lanes in force come about; here they change  *)
(* at any moment, and an event may come back into force.  The names differ *)
(* from those of ReleaseLine, so that one module can extend both.          *)
(***************************************************************************)
EXTENDS Integers, Sequences, SequencesExt, FiniteSets, FiniteSetsExt

CONSTANTS
    Servers,        \* server processes
    Lines,          \* the lines tried, of LineKinds
    Finishing,      \* bound: the drivers whose jobs finish
    Hits,           \* the messages whose hash with a canary event passes its ratio
    MaxMessage,     \* bound: the messages of the connector are 1..MaxMessage
    MaxEvent,       \* bound: the release events are 1..MaxEvent
    Batch,          \* messages per read of the connector
    DualFrom,       \* the messages that the consumer group of a dual_run finds
                    \* at its first start, and never gets (fromBeginning)
    Failures,       \* bound: what may go wrong on a line, of FailureKinds
    MaxFailures     \* bound: how many of them in one behaviour

Messages == 1..MaxMessage
Events == 1..MaxEvent

\* Input connectors: Kafka, a Redis stream or list, the webhook modes.  The
\* lane of an event is known in advance.
Drivers == {"kafka", "stream", "async", "sync"}
LineKinds == [driver : Drivers, mode : {"split", "dual_run"},
              laneOf : [Events -> {"production", "canary"}]]

\* The server stops; the lease runs out under a live consumer (a pause); an
\* enqueue or a push fails; results are counted that somebody has counted since
\* they were read; a row commits later than one that was created after it.
FailureKinds == {"crash", "pause", "enqueue", "push", "overlap", "late"}

\* resolveInputConnectorConfig: the consumer group of the connector, and the
\* one that a Kafka task has which starts during a dual_run.
Groups == {"own", "dual"}
From(g) == IF g = "dual" THEN DualFrom ELSE 0

ASSUME RunnerAssumption ==
    /\ Lines \subseteq {l \in LineKinds : l.laneOf[1] = "production"}
    /\ Finishing \subseteq Drivers
    /\ MaxMessage \in Nat /\ DualFrom \in 0..MaxMessage /\ MaxEvent \in Nat \ {0} /\ Batch \in Nat \ {0}
    /\ Hits \in [Events -> SUBSET Messages]
    /\ Failures \in [Lines -> SUBSET FailureKinds] /\ MaxFailures \in Nat

VARIABLES
    driver, mode,   \* the connector and the traffic mode of the line
    laneOf,         \* the lane of each of its events
    lanes,          \* the running event of each lane, 0 = none
    lock,           \* proofhound:lock:release-runner:<line> exists
    taken,          \* kafka: the committed offset of each group; else the last
                    \* message delivered
    assignee,       \* kafka: the servers the partition is assigned to, one of a group
    task,           \* of each server: its consumer of the line, or a webhook call
    scan,           \* the scan of each server
    job,            \* LLM jobs by event and message: none, queued, or with a row
    rows,           \* run_results of each event, in the order of created_at
    total,          \* total_processed of each event
    pushed,         \* history: how often a result was delivered downstream
    occurred        \* history: the faults so far; "change" and "bare" of the lanes;
                    \* "stop": a canary met a stop condition

lineVars == <<driver, mode, laneOf, lanes>>
broker   == <<lock, taken, assignee>>
results  == <<rows, total, pushed>>
runnerVars == <<lineVars, broker, task, scan, job, results, occurred>>

NoTask == [pc |-> "idle", owns |-> FALSE, aborted |-> FALSE, batch |-> <<>>,
           msg |-> 0, todo |-> <<>>, call |-> 0, group |-> "own"]
NoScan == [pc |-> "idle", todo |-> <<>>, found |-> <<>>, canary |-> 0]

\* current_production_event_id and active_canary_event_id while their events
\* run: of each lane one of its events or none.
LanesInForce(of) == [production : {0} \cup {e \in Events : of[e] = "production"},
                     canary : {0} \cup {e \in Events : of[e] = "canary"}]

RunnerInit ==
    /\ \E l \in Lines : driver = l.driver /\ mode = l.mode /\ laneOf = l.laneOf
    /\ lanes \in {l \in LanesInForce(laneOf) : l.production = 1}
    /\ lock = FALSE /\ taken = [g \in Groups |-> From(g)] /\ assignee = {}
    /\ task = [s \in Servers |-> NoTask]
    /\ scan = [s \in Servers |-> NoScan]
    /\ job = [e \in Events |-> [m \in Messages |-> "none"]]
    /\ rows = [e \in Events |-> <<>>]
    /\ total = [e \in Events |-> 0]
    /\ pushed = [e \in Events |-> [m \in Messages |-> 0]]
    /\ occurred = {}

Line == [driver |-> driver, mode |-> mode, laneOf |-> laneOf]

MayFail(kind) ==
    /\ kind \in Failures[Line] \ occurred
    /\ Cardinality(occurred \cap FailureKinds) < MaxFailures

Failure(kind) == MayFail(kind) /\ occurred' = occurred \cup {kind}

Queue == driver \in {"kafka", "stream"}

\* listRunnableLines, findRunnableLine: some lane of the line runs.
Runnable == lanes.production # 0 \/ lanes.canary # 0
OfLane(e) == IF e = 0 THEN <<>> ELSE <<e>>
InForce == OfLane(lanes.production) \o OfLane(lanes.canary)

\* A lane ends, starts, or goes on under another event (ReleaseLine).
ChangeLanes ==
    \E l \in LanesInForce(laneOf) \ {lanes} :
       /\ lanes' = l
       /\ occurred' = occurred \cup {"change"} \cup (IF l.production = 0 THEN {"bare"} ELSE {})
       /\ UNCHANGED <<driver, mode, laneOf, broker, task, scan, job, results>>

-----------------------------------------------------------------------------
(* scanOnce.                                                                *)

Engaged(s) == task[s].pc # "idle"
Scans(s, pc) == scan[s].pc = pc

\* A canary may meet a stop condition (bound: once).
MayStop == lanes.canary # 0 /\ "stop" \notin occurred

\* listRunnableLines; the task of a line that is not runnable is stopped.  A scan
\* with nothing to attach, to start or to stop is left out.
BeginScan(s) ==
    /\ Scans(s, "idle")
    /\ \/ /\ Runnable
          /\ \/ Queue /\ ~lock /\ ~Engaged(s)
             \/ Queue /\ Engaged(s) /\ MayStop
             \/ \E e \in Range(InForce) : Len(rows[e]) > total[e]
          /\ scan' = [scan EXCEPT ![s] = [NoScan EXCEPT !.pc = "attach", !.todo = InForce,
                                                        !.canary = lanes.canary]]
          /\ UNCHANGED task
       \/ /\ Queue /\ ~Runnable /\ Engaged(s) /\ ~task[s].aborted
          /\ task' = [task EXCEPT ![s].aborted = TRUE]
          /\ UNCHANGED scan
    /\ UNCHANGED <<lineVars, broker, job, results, occurred>>

\* attachCompletedRunResults: the rows past the counter, by row number.
UncountedAll(e) == rows[e]
Uncounted(e) == SubSeq(rows[e], total[e] + 1, Len(rows[e]))

\* Nothing found is nothing to push.
NextLane(q) == [q EXCEPT !.pc = "attach", !.todo = Tail(@), !.found = <<>>]
Counted(q, found) ==
    IF found = <<>> THEN NextLane(q) ELSE [q EXCEPT !.pc = "push", !.found = found]

Attaches(s) == scan[s].pc \in {"attach", "count"} /\ scan[s].todo # <<>>

AttachResults(s) ==
    /\ Scans(s, "attach") /\ Attaches(s)
    /\ LET e == Head(scan[s].todo) IN
         /\ scan' = [scan EXCEPT ![s] = Counted(@, Uncounted(e))]
         /\ total' = [total EXCEPT ![e] = @ + Len(Uncounted(e))]
    /\ UNCHANGED <<lineVars, broker, task, job, rows, pushed, occurred>>

\* The statement reads the rows, and waits for the row lock of the event, which
\* the statement of another server has.
ReadUncounted(s) ==
    /\ Scans(s, "attach") /\ Attaches(s)
    /\ Uncounted(Head(scan[s].todo)) # <<>>
    /\ \E r \in Servers \ {s} : Attaches(r) /\ Head(scan[r].todo) = Head(scan[s].todo)
    /\ MayFail("overlap")
    /\ scan' = [scan EXCEPT ![s] = [@ EXCEPT !.pc = "count",
                                             !.found = Uncounted(Head(scan[s].todo))]]
    /\ UNCHANGED <<lineVars, broker, task, job, results, occurred>>

CountResults(s) ==
    /\ Scans(s, "count")
    /\ LET e == Head(scan[s].todo) IN
         /\ scan' = [scan EXCEPT ![s] = Counted(@, @.found)]
         /\ total' = [total EXCEPT ![e] = @ + Len(scan[s].found)]
         /\ occurred' = IF IsPrefix(scan[s].found, Uncounted(e)) THEN occurred
                        ELSE occurred \cup {"overlap"}
    /\ UNCHANGED <<lineVars, broker, task, job, rows, pushed>>

\* pushCompletedResults: a push that fails is counted and never repeated.
PushResults(s) ==
    /\ Scans(s, "push")
    /\ scan' = [scan EXCEPT ![s] = NextLane(@)]
    /\ pushed' = [pushed EXCEPT ![Head(scan[s].todo)] =
                    [m \in Messages |-> @[m] + Cardinality({i \in DOMAIN scan[s].found :
                                                              scan[s].found[i] = m})]]
    /\ UNCHANGED <<lineVars, broker, task, job, rows, total, occurred>>

PushFails(s) ==
    /\ Scans(s, "push") /\ Failure("push")
    /\ scan' = [scan EXCEPT ![s] = NextLane(@)]
    /\ UNCHANGED <<lineVars, broker, task, job, results>>

\* applyCanaryStopConditions: the event of the canary that the scan has read is
\* completed, whatever has become of it since; control states nobody sets.
CompleteCanary(s) ==
    /\ Scans(s, "attach") /\ scan[s].todo = <<>>
    /\ scan[s].canary # 0 /\ "stop" \notin occurred
    /\ lanes' = [lanes EXCEPT !.canary = IF @ = scan[s].canary THEN 0 ELSE @]
    /\ occurred' = occurred \cup {"stop"}
    /\ scan' = [scan EXCEPT ![s] = [NoScan EXCEPT !.pc = "stop"]]
    /\ UNCHANGED <<driver, mode, laneOf, broker, task, job, results>>

\* stopTask: the consumer ends though the production goes on; a later scan
\* starts the next one.
StopConsumer(s) ==
    /\ Scans(s, "stop")
    /\ scan' = [scan EXCEPT ![s] = NoScan]
    /\ task' = IF Queue /\ Engaged(s) THEN [task EXCEPT ![s].aborted = TRUE] ELSE task
    /\ UNCHANGED <<lineVars, broker, job, results, occurred>>

\* A consumer group gives its partition to one of its members.
Members(g) == {r \in Servers : Engaged(r) /\ task[r].group = g}
Joins(s, g) == {(assignee \ Members(g)) \cup {r} : r \in (assignee \cap Members(g)) \cup {s}}
Leaves(s) ==
    LET rest == Members(task[s].group) \ {s}
    IN IF s \notin assignee \/ rest = {} THEN {assignee \ {s}}
       ELSE {(assignee \ {s}) \cup {r} : r \in rest}

\* startLineTask: SET NX PX; a Kafka consumer joins the group.
Starts(s) == Queue /\ ~lock /\ ~Engaged(s)

StartTask(s) ==
    LET g == IF driver = "kafka" /\ mode = "dual_run" /\ scan[s].canary # 0
             THEN "dual" ELSE "own" IN
    /\ Scans(s, "attach") /\ scan[s].todo = <<>>
    /\ scan' = [scan EXCEPT ![s] = NoScan]
    /\ IF Starts(s)
       THEN /\ lock' = TRUE
            /\ task' = [task EXCEPT ![s] = [NoTask EXCEPT !.pc = "read", !.owns = TRUE, !.group = g]]
            /\ assignee' \in Joins(s, g)
       ELSE UNCHANGED <<lock, task, assignee>>
    /\ UNCHANGED <<lineVars, taken, job, results, occurred>>

-----------------------------------------------------------------------------
(* Messages: driver.consume, handleQueueMessage, handleLaneMessage, and the *)
(* calls of a webhook.                                                      *)

At(s, pc) == task[s].pc = pc

\* The next message of a batch, unless the task was aborted; a webhook call
\* has just one.
Handling(t, batch) ==
    IF batch = <<>> /\ ~Queue THEN NoTask
    ELSE IF batch = <<>> \/ t.aborted THEN [t EXCEPT !.pc = "read", !.batch = <<>>, !.msg = 0]
    ELSE [t EXCEPT !.pc = "route", !.msg = Head(batch), !.batch = Tail(batch)]

\* XREADGROUP > takes the entries for good (as BRPOP does); a Kafka fetch
\* begins behind the committed offset of its group, and only commits move that.
ReadEnd(n) == Min({n + Batch, MaxMessage})
TakenByRead(n) == IF driver = "stream" THEN ReadEnd(n) ELSE n

Read(s) ==
    LET g == task[s].group
        n == taken[g] IN
    /\ At(s, "read") /\ ~task[s].aborted
    /\ n < MaxMessage
    /\ driver = "kafka" => s \in assignee
    /\ task' = [task EXCEPT ![s] = Handling(@, [i \in 1..(ReadEnd(n) - n) |-> n + i])]
    /\ taken' = [taken EXCEPT ![g] = TakenByRead(n)]
    /\ UNCHANGED <<lineVars, lock, assignee, scan, job, results, occurred>>

\* receive, up to the look-up of the lanes; any server may get the next call.
Receive(s) ==
    /\ ~Queue /\ At(s, "idle") /\ taken["own"] < MaxMessage
    /\ taken' = [taken EXCEPT !["own"] = @ + 1]
    /\ task' = [task EXCEPT ![s] = Handling(@, <<taken["own"] + 1>>)]
    /\ UNCHANGED <<lineVars, lock, assignee, scan, job, results, occurred>>

\* selectLanesForMessage, selectWebhookLanes: a message that hits goes to the
\* canary, instead of the production or besides it.
SelectedBoth(m) ==
    LET hit == lanes.canary # 0 /\ m \in Hits[lanes.canary]
    IN OfLane(lanes.production) \o OfLane(IF hit THEN lanes.canary ELSE 0)
Selected(m) ==
    LET hit == lanes.canary # 0 /\ m \in Hits[lanes.canary]
    IN OfLane(IF hit /\ mode = "split" THEN 0 ELSE lanes.production)
       \o OfLane(IF hit THEN lanes.canary ELSE 0)

Enqueuing(t, es) == [t EXCEPT !.pc = IF es = <<>> THEN "ack" ELSE "enqueue", !.todo = es]

\* A synchronous call waits for the production when both lanes are selected.
Routed(t, es) ==
    [Enqueuing(t, es) EXCEPT !.call = IF driver = "sync" /\ es # <<>> THEN Head(es) ELSE 0]

\* handleQueueMessage reads the line again; a message of a line that does not
\* run any more stops the task and counts as handled.  A webhook call finds
\* no active release.
Route(s) ==
    /\ At(s, "route")
    /\ task' = [task EXCEPT ![s] =
                  IF Runnable THEN Routed(task[s], Selected(task[s].msg))
                  ELSE IF Queue THEN [@ EXCEPT !.pc = "ack", !.aborted = TRUE]
                  ELSE NoTask]
    /\ UNCHANGED <<lineVars, broker, scan, job, results, occurred>>

\* enqueueLlmJob under an id made of the event and the message: what is in
\* the backlog, in BullMQ or among the run results is not done again.
Enqueue(s) ==
    LET m == task[s].msg IN
    /\ At(s, "enqueue")
    /\ job' = [job EXCEPT ![Head(task[s].todo)][m] = IF @ = "none" THEN "queued" ELSE @]
    /\ task' = [task EXCEPT ![s] = Enqueuing(@, Tail(@.todo))]
    /\ UNCHANGED <<lineVars, broker, scan, results, occurred>>

\* onMessage throws: KafkaJS consumes from the committed offset again, the
\* Redis drivers return the error and the task ends, a webhook call answers it.
EnqueueFails(s) ==
    /\ At(s, "enqueue") /\ Failure("enqueue")
    /\ task' = [task EXCEPT ![s] =
                  IF Queue
                  THEN [@ EXCEPT !.pc = "read", !.batch = <<>>, !.msg = 0, !.todo = <<>>,
                                 !.aborted = task[s].aborted \/ driver = "stream"]
                  ELSE NoTask]
    /\ UNCHANGED <<lineVars, broker, scan, job, results>>

\* commitOffsets, which throws when the partition was assigned to another
\* consumer; XACK, which nobody relies on; the answer of a webhook.
Ack(s) ==
    LET kept == driver # "kafka" \/ s \in assignee IN
    /\ At(s, "ack")
    /\ taken' = IF driver = "kafka" /\ kept THEN [taken EXCEPT ![task[s].group] = task[s].msg]
                ELSE taken
    /\ task' = [task EXCEPT ![s] = IF @.call # 0 THEN [@ EXCEPT !.pc = "wait"]
                                   ELSE Handling(@, IF kept THEN @.batch ELSE <<>>)]
    /\ UNCHANGED <<lineVars, lock, assignee, scan, job, results, occurred>>

\* waitForRunResult finds the row, and attachResultToRelease counts it.
AnswerCall(s) ==
    LET e == task[s].call IN
    /\ At(s, "wait") /\ job[e][task[s].msg] = "row"
    /\ total' = [total EXCEPT ![e] = @ + 1]
    /\ task' = [task EXCEPT ![s] = NoTask]
    /\ UNCHANGED <<lineVars, broker, scan, job, rows, pushed, occurred>>

\* The timeout of the call.
GiveUp(s) ==
    /\ At(s, "wait")
    /\ task' = [task EXCEPT ![s] = NoTask]
    /\ UNCHANGED <<lineVars, broker, scan, job, results, occurred>>

\* The driver sees the signal; the lease is given back by its token.
EndTask(s) ==
    /\ At(s, "read") /\ task[s].aborted
    /\ task' = [task EXCEPT ![s] = NoTask]
    /\ lock' = (lock /\ ~task[s].owns)
    /\ assignee' \in Leaves(s)
    /\ UNCHANGED <<lineVars, taken, scan, job, results, occurred>>

\* The key expires under its owner; the next renewal aborts the task.
LeaseLost(s) ==
    /\ task[s].owns /\ Failure("pause")
    /\ lock' = FALSE
    /\ task' = [task EXCEPT ![s].owns = FALSE]
    /\ UNCHANGED <<lineVars, taken, assignee, scan, job, results>>

RenewFails(s) ==
    /\ Queue /\ Engaged(s) /\ ~task[s].owns /\ ~task[s].aborted
    /\ task' = [task EXCEPT ![s].aborted = TRUE]
    /\ UNCHANGED <<lineVars, broker, scan, job, results, occurred>>

\* The key of a server that stopped has a TTL.
OrphanStays == FALSE
Orphaned == lock /\ \A s \in Servers : ~task[s].owns

LockExpires ==
    /\ Orphaned
    /\ lock' = FALSE
    /\ UNCHANGED <<lineVars, taken, assignee, task, scan, job, results, occurred>>

ServerCrash(s) ==
    /\ task[s] # NoTask \/ scan[s] # NoScan
    /\ Failure("crash")
    /\ task' = [task EXCEPT ![s] = NoTask]
    /\ scan' = [scan EXCEPT ![s] = NoScan]
    /\ assignee' \in Leaves(s)
    /\ UNCHANGED <<lineVars, lock, taken, job, results>>

-----------------------------------------------------------------------------
(* The workers (LlmAdmission): a row per job, in the order of created_at.   *)

Finish(e, m) ==
    /\ driver \in Finishing /\ job[e][m] = "queued"
    /\ job' = [job EXCEPT ![e][m] = "row"]
    /\ \/ /\ rows' = [rows EXCEPT ![e] = Append(@, m)]
          /\ UNCHANGED occurred
       \/ /\ rows[e] # <<>> /\ Failure("late")
          /\ rows' = [rows EXCEPT ![e] = InsertAt(@, Len(@), m)]
    /\ UNCHANGED <<lineVars, broker, task, scan, total, pushed>>

-----------------------------------------------------------------------------
ScanStep(s) ==
    \/ BeginScan(s) \/ AttachResults(s) \/ CountResults(s) \/ PushResults(s)
    \/ CompleteCanary(s) \/ StopConsumer(s) \/ StartTask(s)

TaskStep(s) ==
    Read(s) \/ Route(s) \/ Enqueue(s) \/ Ack(s) \/ AnswerCall(s) \/ GiveUp(s) \/ EndTask(s)

RunnerNext ==
    \/ ChangeLanes
    \/ \E s \in Servers :
          \/ ScanStep(s) \/ ReadUncounted(s) \/ PushFails(s)
          \/ Receive(s) \/ TaskStep(s) \/ EnqueueFails(s)
          \/ LeaseLost(s) \/ RenewFails(s) \/ ServerCrash(s)
    \/ LockExpires
    \/ \E e \in Events, m \in Messages : Finish(e, m)

RunnerSpec == RunnerInit /\ [][RunnerNext]_runnerVars

\* The scan timer of a live server goes on, and so does its consumer or the
\* renewal timer beside it; a key without an owner expires.
RunnerFairness ==
    /\ \A s \in Servers : WF_runnerVars(ScanStep(s)) /\ WF_runnerVars(TaskStep(s) \/ RenewFails(s))
    /\ WF_runnerVars(LockExpires)

RunnerFairSpec == RunnerSpec /\ RunnerFairness

-----------------------------------------------------------------------------
(* Properties.                                                              *)

RunnerTypeOK ==
    /\ Line \in LineKinds
    /\ lanes \in LanesInForce(laneOf)
    /\ lock \in BOOLEAN /\ taken \in [Groups -> 0..MaxMessage] /\ assignee \subseteq Servers
    /\ \A s \in Servers :
         /\ task[s].pc \in {"idle", "read", "route", "enqueue", "ack", "wait"}
         /\ task[s].owns \in BOOLEAN /\ task[s].aborted \in BOOLEAN
         /\ task[s].group \in Groups /\ task[s].msg \in 0..MaxMessage /\ task[s].call \in Events \cup {0}
         /\ task[s].batch \in Seq(Messages) /\ task[s].todo \in Seq(Events)
         /\ scan[s].pc \in {"idle", "attach", "count", "push", "stop"} /\ scan[s].canary \in 0..MaxEvent
         /\ scan[s].todo \in Seq(Events) /\ scan[s].found \in Seq(Messages)
    /\ job \in [Events -> [Messages -> {"none", "queued", "row"}]]
    /\ rows \in [Events -> Seq(Messages)]
    /\ total \in [Events -> Nat]
    /\ pushed \in [Events -> [Messages -> Nat]]
    /\ occurred \subseteq FailureKinds \cup {"change", "bare", "stop"}

InHand == UNION {Range(task[s].batch) \cup {task[s].msg} : s \in Servers}
RunBy(m) == {e \in Events : job[e][m] # "none"}

\* 27-releases.md, section 5: a message is run by the lane its hash selects, by
\* one in split mode and by the production at least in dual_run, whoever
\* consumes it and however often.  With a production always in force nothing
\* that a group took is left out; only Kafka gives out again what a consumer
\* had in hand when it failed, or was aborted since a canary met a stop
\* condition.  No two servers own the lease of the line.
ServedOnce ==
    /\ Cardinality({s \in Servers : task[s].owns}) <= 1
    /\ mode = "split" /\ occurred \cap {"change", "stop"} = {} =>
          \A m \in Messages : Cardinality(RunBy(m)) <= 1
    /\ /\ "bare" \notin occurred
       /\ driver = "kafka" \/ occurred \cap {"crash", "pause", "enqueue", "stop"} = {}
       => \A g \in Groups : \A m \in ((From(g) + 1)..taken[g]) \ InHand :
             /\ RunBy(m) # {}
             /\ mode = "dual_run" /\ "change" \notin occurred => lanes.production \in RunBy(m)

\* Section 15: a counted result was delivered or is about to be.
OnItsWay(e, m) == \E s \in Servers : /\ scan[s].pc = "push" /\ Head(scan[s].todo) = e
                                     /\ m \in Range(scan[s].found)
CountedIsPushed ==
    occurred \cap FailureKinds = {} =>
       \A e \in Events : \A i \in 1..Min({total[e], Len(rows[e])}) :
          pushed[e][rows[e][i]] > 0 \/ OnItsWay(e, rows[e][i])

\* A result is delivered once, however many servers scan the line at a time, and
\* the counter never passes one that was not and will not be delivered, unless a
\* server stopped or a push failed.  A statement that counts what another one
\* has counted since it read the rows, rows that commit out of the order of
\* their created_at, and calls that count their result themselves, break both.
PushedOnce ==
    driver # "sync" /\ occurred \cap {"overlap", "late"} = {} =>
       \A e \in Events :
          /\ total[e] <= Len(rows[e])
          /\ \A i \in 1..Len(rows[e]) :
                LET m == rows[e][i] IN
                IF i > total[e] THEN pushed[e][m] = 0
                ELSE /\ pushed[e][m] <= 1
                     /\ \/ pushed[e][m] = 1
                        \/ OnItsWay(e, m)
                        \/ occurred \cap {"crash", "push"} # {}

\* While the line runs, its messages are consumed and the results of the lanes
\* in force are attached, whichever server stops, pauses or loses its lease.
Behind ==
    \/ Queue /\ Runnable /\ \A g \in Groups : taken[g] < MaxMessage
    \/ \E e \in Range(InForce) : total[e] < Len(rows[e])
TrafficFlows == Behind ~> ~Behind
=============================================================================
