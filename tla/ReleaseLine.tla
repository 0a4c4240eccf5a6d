----------------------------- MODULE ReleaseLine -----------------------------
(***************************************************************************)
(* One release line: its append-only stream of events in two lanes, the    *)
(* two slot pointers and the status of the line, the prompt's online       *)
(* version, the API requests that move it, and the part of the release     *)
(* runner that ends a canary whose stop condition is met.                  *)
(*                                                                         *)
(* A request reads the line once and decides everything it is going to     *)
(* write; each write is a transaction of its own.  So a request is the     *)
(* sequence of the writes it has left.  An event is known by its place in  *)
(* the stream; `at` is its created_at, which is taken before the           *)
(* transaction begins and may therefore disagree with that place.          *)
(***************************************************************************)
EXTENDS Integers, Sequences, FiniteSets, FiniteSetsExt

CONSTANTS
    Versions,       \* prompt versions
    Clients,        \* requests that can be at work at the same time
    Runner,         \* the scan of the release runner
    Operations,     \* the operations users choose
    MaxEvents,      \* bound: the length of the stream
    Faults,         \* bound: what may go wrong, of FaultKinds
    MaxFaults,      \* bound: how many of them in one behaviour
    None            \* no version

Lanes == {"production", "canary"}

\* rollback stands for POST /production-releases of that type, production for
\* its other types; adjust for the traffic ratio, the run configuration and
\* the routes; promote also for a traffic ratio of one; forceStop and
\* stopCanary also for the stop of a line with and without a production.
AllOperations == {"production", "rollback", "canary", "promote", "adjust",
                  "forceStop", "startLine", "archive", "unarchive", "restore",
                  "startCanary", "stopCanary", "cancelCanary"}

\* A request is read while another one is at work; the server stops.
FaultKinds == {"race", "crash"}

ASSUME ReleaseAssumption ==
    /\ None \notin Versions /\ Runner \notin Clients
    /\ Operations \subseteq AllOperations
    /\ MaxEvents \in Nat /\ Faults \subseteq FaultKinds /\ MaxFaults \in Nat

VARIABLES
    event,      \* release_line_events, in the order of their commits
    line,       \* release_lines: status and the two pointers, 0 = null
    online,     \* prompts.current_online_version_id
    req,        \* the requests: what they were asked, saw, and have left to write
    happened    \* history: the faults so far, and "dark"

vars == <<event, line, online, req, happened>>

Actors == Clients \cup {Runner}
Idle == [op |-> "none", saw |-> FALSE, todo |-> <<>>]

Init ==
    /\ event = <<>>
    /\ line = [status |-> "none", production |-> 0, canary |-> 0]
    /\ online = None
    /\ req = [a \in Actors |-> Idle]
    /\ happened = {}

Ids == 1..Len(event)
In(lane, statuses) == {e \in Ids : event[e].lane = lane /\ event[e].status \in statuses}
Running(lane) == In(lane, {"running"})
Active == In("canary", {"running", "stopped"})
AnyRunning == \E e \in Ids : event[e].status = "running"

\* ORDER BY created_at DESC LIMIT 1; of two equal ones the later.
Later(es, e, f) == es[f].at < es[e].at \/ (es[f].at = es[e].at /\ f <= e)
Newest(es, S) == IF S = {} THEN 0 ELSE CHOOSE e \in S : \A f \in S : Later(es, e, f)
LatestEvent == Newest(event, Ids)

-----------------------------------------------------------------------------
(* The writes.                                                              *)

\* The newest event of a lane that can be shown in its slot.
Visible == {"running", "stopped", "archived"}
Slot(es, lane) ==
    Newest(es, {e \in DOMAIN es : es[e].lane = lane /\ es[e].status \in Visible})

\* updateLinePointers and refreshLinePointersByEvent: an archived line stays
\* archived, except for unarchive_line.
Pointed(es, operation) ==
    LET p == Slot(es, "production")
        c == Slot(es, "canary")
        runs(e) == e # 0 /\ es[e].status = "running"
    IN [status |-> IF line.status = "archived" /\ operation # "unarchive_line" THEN "archived"
                   ELSE IF runs(p) \/ runs(c) THEN "running" ELSE "stopped",
        production |-> p, canary |-> c]

Ending(e, status, reason) == [e EXCEPT !.status = status, !.reason = reason]

\* The events a new one ends.
CancelsCanary == {"rollback", "restore_to_production", "force_stop"}
OccupiedRunning == {"running"}
Occupied == {"running", "stopped"}
EndedBy(w, e) ==
    CASE /\ w.lane = "production" /\ w.status = "running"
         /\ e.lane = "production" /\ e.status = "running" ->
            Ending(e, "stopped", IF w.operation = "rollback" THEN "rolled_back" ELSE "replaced")
      [] /\ w.operation = "force_stop"
         /\ e.lane = "production" /\ e.status = "running" -> Ending(e, "stopped", "force_stopped")
      [] /\ w.operation \in CancelsCanary
         /\ e.lane = "canary" /\ e.status \in Occupied ->
            Ending(e, "cancelled", "cancelled")
      [] /\ w.lane = "canary"
         /\ e.lane = "canary" /\ e.status \in Occupied ->
            Ending(e, "completed", "replaced")
      [] OTHER -> e

\* buildEventInsert: root is the first event of a candidate, or the candidate
\* a production was promoted from.
Inserted(es, w) ==
    Append(es, [lane |-> w.lane, status |-> w.status, reason |-> w.reason,
                version |-> w.version, at |-> w.at,
                root |-> IF w.lane = "canary" /\ w.root = 0 THEN Len(es) + 1 ELSE w.root])

\* record: one transaction, behind the lock of the line's row.
Record(w) ==
    LET es == Inserted([e \in Ids |-> EndedBy(w, event[e])], w) IN
    /\ w.do = "record"
    /\ event' = es
    /\ line' = Pointed(es, w.operation)
    /\ happened' = IF line.status = "archived" /\ w.status = "running"
                   THEN happened \cup {"dark"} ELSE happened
    /\ UNCHANGED online

\* completeCanaryEvent: by id, whatever the event's status is by now.
Complete(w) ==
    LET es == [event EXCEPT ![w.id] = Ending(@, "completed", "promoted")] IN
    /\ w.do = "complete"
    /\ event' = es
    /\ line' = Pointed(es, "none")
    /\ UNCHANGED <<online, happened>>

\* setPromptProductionVersion, clearPromptProductionVersion.
SetOnline(w) ==
    /\ w.do = "online"
    /\ online' = w.version
    /\ UNCHANGED <<event, line, happened>>

\* archiveLine: the pointers come from the line as it was read, and the
\* events that are archived keep their own status.
Copies(w, lane) ==
    {Len(event) + i : i \in {i \in DOMAIN w.events : w.events[i].lane = lane}}

Archive(w) ==
    /\ w.do = "archive"
    /\ event' = event \o w.events
    /\ line' = [status |-> "archived",
                production |-> Max(Copies(w, "production") \cup {w.production}),
                canary |-> Max(Copies(w, "canary") \cup {w.canary})]
    /\ UNCHANGED <<online, happened>>

\* transitionLaneStatus: two statements, the UPDATE by id without a condition ...
Transition(w) ==
    /\ w.do = "transition"
    /\ event' = [event EXCEPT ![w.id] = Ending(@, "completed", "none")]
    /\ UNCHANGED <<line, online, happened>>

\* ... and refreshLinePointersByEvent.
Refresh(w) ==
    /\ w.do = "refresh"
    /\ line' = Pointed(event, "none")
    /\ UNCHANGED <<event, online, happened>>

Write(a) ==
    /\ req[a].todo # <<>>
    /\ LET w == Head(req[a].todo) IN
         \/ Record(w) \/ Complete(w) \/ SetOnline(w) \/ Archive(w)
         \/ Transition(w) \/ Refresh(w)
    /\ req' = [req EXCEPT ![a] = IF Len(@.todo) = 1 THEN Idle
                                 ELSE [@ EXCEPT !.todo = Tail(req[a].todo)]]

-----------------------------------------------------------------------------
(* What a request decides to write, from the line as it reads it.           *)

\* new Date() in the handler.
Now ==
    1 + Max({0} \cup {event[e].at : e \in Ids}
            \cup UNION {{req[a].todo[i].at : i \in DOMAIN req[a].todo} : a \in Actors})

NoWrite == [do |-> "none", lane |-> "none", operation |-> "none", status |-> "none",
            reason |-> "none", version |-> None, root |-> 0, at |-> 0, id |-> 0,
            events |-> <<>>, production |-> 0, canary |-> 0]

New(lane, operation, status, version) ==
    [NoWrite EXCEPT !.do = "record", !.lane = lane, !.operation = operation,
                    !.status = status, !.version = version, !.at = Now]

\* eventDtoToSnapshot(line, event) with another operation and status.
Again(e, operation, status) ==
    [New(event[e].lane, operation, status, event[e].version) EXCEPT !.root = event[e].root]

Online(v) == [NoWrite EXCEPT !.do = "online", !.version = v]

Archived(e) == [lane |-> event[e].lane, status |-> "archived", reason |-> "archived",
                version |-> event[e].version, at |-> Now, root |-> event[e].root]

\* findVisibleSlotEvents, findArchivedSlotEvents: the shown events of these
\* statuses; with none of them the handlers turn to line.latestEvent.
ShownIn(e, S) == IF e # 0 /\ event[e].status \in S THEN <<e>> ELSE <<>>
Shown(S) == ShownIn(line.production, S) \o ShownIn(line.canary, S)
ShownOrLatest(S) == IF Shown(S) # <<>> THEN Shown(S) ELSE <<LatestEvent>>

Busy == \E a \in Actors : req[a] # Idle
Fault(kind) ==
    /\ kind \in Faults \ happened
    /\ Cardinality(happened \cap FaultKinds) < MaxFaults
    /\ happened' = happened \cup {kind}

Begin(a, operation, todo) ==
    /\ req[a] = Idle
    /\ Len(event) < MaxEvents
    /\ IF Busy THEN Len(event) + 1 < MaxEvents /\ Fault("race") ELSE UNCHANGED happened
    /\ req' = [req EXCEPT ![a] = [op |-> operation, saw |-> line.status = "running" \/ AnyRunning, todo |-> todo]]
    /\ UNCHANGED <<event, line, online>>

Request(c, operation, todo) == operation \in Operations /\ Begin(c, operation, todo)

-----------------------------------------------------------------------------
(* ProductionReleaseService.                                                *)

CreateProduction(c) ==
    \E v \in Versions :
       Request(c, "production",
               <<New("production", "create_production", "running", v), Online(v)>>)

\* The request has to name the event it returns to.
Rollback(c) ==
    \E e \in {e \in Ids : event[e].lane = "production"} :
       Request(c, "rollback",
               <<New("production", "rollback", "running", event[e].version),
                 Online(event[e].version)>>)

\* stop, and stopLine with a running production.
ForceStop(c) ==
    \E e \in Running("production") :
       Request(c, "forceStop",
               <<[Again(e, "force_stop", "stopped") EXCEPT !.reason = "force_stopped"],
                 Online(None)>>)

(* CanaryReleaseService.                                                    *)

\* resolveCreateValuesForParentProduction: another version than the one in
\* production.
CreateCanary(c) ==
    \E v \in Versions :
       /\ \A e \in Running("production") : line.production = e => event[e].version # v
       /\ Request(c, "canary", <<New("canary", "create_canary", "running", v)>>)

StartCanary(c) ==
    \E e \in In("canary", {"stopped"}) :
       Request(c, "startCanary", <<Again(e, "resume_lane", "running")>>)

\* stop, and stopLine without a running production.
StopCanary(c) ==
    \E e \in Running("canary") :
       Request(c, "stopCanary", <<Again(e, "stop_lane", "stopped")>>)

\* cancel, softDelete.
CancelCanary(c) ==
    \E e \in Active :
       Request(c, "cancelCanary",
               <<[Again(e, "cancel_canary", "cancelled") EXCEPT !.reason = "cancelled"]>>)

(* ReleaseLineService and ReleaseLineRepository.                            *)

PromoteOnly(c) ==
    LET e == line.canary IN
    /\ e \in Running("canary")
    /\ Request(c, "promote",
               <<[Again(e, "promote_canary", "running") EXCEPT !.lane = "production"]>>)

\* promoteActiveCanary, and updateActiveCanaryTrafficRatio with a ratio of
\* one: the production is written first, the canary ended afterwards.
Promote(c) ==
    LET e == line.canary IN
    /\ e \in Running("canary")
    /\ Request(c, "promote",
               <<[Again(e, "promote_canary", "running") EXCEPT !.lane = "production"],
                 [NoWrite EXCEPT !.do = "complete", !.id = e]>>)

\* updateActiveCanaryTrafficRatio, updateActiveLaneRunConfig, -OutputRoute and
\* -InputRoute: the event is written again with the status it was read with.
Adjust(c) ==
    \E e \in {line.production, line.canary} \cap Ids :
       /\ event[e].status \in {"running", "stopped"}
       /\ Request(c, "adjust", <<Again(e, "config_changed", event[e].status)>>)

\* findResumableEvents.
Resumable ==
    IF Shown({"stopped"}) # <<>> THEN Shown({"stopped"})
    ELSE IF event[LatestEvent].status = "stopped" THEN <<LatestEvent>> ELSE <<>>

ResumedOnly(e) == <<Again(e, "resume_lane", "running")>>
Resumed(e) ==
    IF event[e].lane = "production"
    THEN <<Again(e, "resume_lane", "running"), Online(event[e].version)>>
    ELSE <<Again(e, "resume_lane", "running")>>

StartLine(c) ==
    /\ line.status = "stopped" /\ Resumable # <<>>
    /\ Request(c, "startLine",
               IF Len(Resumable) = 1 THEN Resumed(Resumable[1])
               ELSE Resumed(Resumable[1]) \o Resumed(Resumable[2]))

Statuses == {"running", "stopped", "completed", "cancelled", "archived"}

ArchiveLine(c) ==
    /\ line.status \notin {"none", "archived"}
    /\ Shown({"running"}) = <<>>
    /\ LET shown == ShownOrLatest(Statuses) IN
       Request(c, "archive",
               <<[NoWrite EXCEPT !.do = "archive", !.at = Now,
                                 !.events = [i \in DOMAIN shown |-> Archived(shown[i])],
                                 !.production = line.production, !.canary = line.canary]>>)

UnarchivedRunning(e) == Again(e, "unarchive_line", "running")
Unarchived(e) == Again(e, "unarchive_line", "stopped")

UnarchiveLine(c) ==
    /\ line.status = "archived"
    /\ LET shown == ShownOrLatest({"archived"}) IN
       Request(c, "unarchive", [i \in DOMAIN shown |-> Unarchived(shown[i])])

\* restoreHistoryToLane: a new candidate or a new production.
RestoreHistory(c) ==
    /\ line.status \notin {"none", "archived"}
    /\ \E e \in Ids, lane \in Lanes :
         LET restored == New(lane, IF lane = "production" THEN "restore_to_production"
                                   ELSE "restore_to_canary",
                             line.status, event[e].version)
         IN Request(c, "restore",
                    IF lane = "production" /\ line.status = "running"
                    THEN <<restored, Online(event[e].version)>> ELSE <<restored>>)

\* listRunnableLines and applyCanaryStopConditions: some condition is met.
Scan ==
    LET e == line.canary IN
    /\ line.status # "archived" /\ e \in Running("canary")
    /\ Begin(Runner, "scan", <<[NoWrite EXCEPT !.do = "transition", !.id = e],
                               [NoWrite EXCEPT !.do = "refresh"]>>)

\* The server stops: what was not written is not written any more.
Crash ==
    /\ Busy /\ Fault("crash")
    /\ req' = [a \in Actors |-> Idle]
    /\ UNCHANGED <<event, line, online>>

Next ==
    \/ \E c \in Clients :
         \/ CreateProduction(c) \/ Rollback(c) \/ ForceStop(c)
         \/ CreateCanary(c) \/ StartCanary(c) \/ StopCanary(c) \/ CancelCanary(c)
         \/ Promote(c) \/ Adjust(c) \/ StartLine(c)
         \/ ArchiveLine(c) \/ UnarchiveLine(c) \/ RestoreHistory(c)
    \/ Scan
    \/ \E a \in Actors : Write(a)
    \/ Crash

Spec == Init /\ [][Next]_vars

-----------------------------------------------------------------------------
(* Properties.                                                              *)

Reasons == {"none", "replaced", "rolled_back", "force_stopped", "cancelled",
            "promoted", "archived"}

TypeOK ==
    /\ \A e \in Ids :
         /\ event[e].lane \in Lanes /\ event[e].status \in Statuses
         /\ event[e].reason \in Reasons /\ event[e].version \in Versions
         /\ event[e].at \in Nat /\ event[e].root \in 0..e
    /\ line.status \in {"none", "running", "stopped", "archived"}
    /\ {line.production, line.canary} \subseteq Ids \cup {0}
    /\ online \in Versions \cup {None}
    /\ \A a \in Actors : req[a].op \in Operations \cup {"none", "scan"} /\ req[a].saw \in BOOLEAN
    /\ happened \subseteq FaultKinds \cup {"dark"}

Quiet == ~Busy
Orderly == happened \cap FaultKinds = {}

\* One production runs and one candidate occupies the canary slot, whatever
\* requests meet: the partial unique indexes of release_line_events never
\* refuse a write.
OneActive == Cardinality(Running("production")) <= 1 /\ Cardinality(Active) <= 1

\* 27-releases.md, section 8: the pointers show the latest event of each lane,
\* the line runs exactly if one of its events does, nothing runs that the line
\* does not show; and the online version of the prompt is that of the running
\* production, none after a force stop (section 7), a promoted one excepted.
LineTellsTheTruth ==
    Quiet /\ Orderly =>
       /\ line.production = Slot(event, "production") /\ line.canary = Slot(event, "canary")
       /\ "dark" \notin happened =>
            /\ (line.status = "running") = AnyRunning
            /\ Running("production") \cup Running("canary") \subseteq {line.production, line.canary}
       /\ Running("production") = {} => online = None
       /\ \A e \in Running("production") : event[e].root = 0 => online = event[e].version

\* Section 8: a candidate that was promoted, cancelled or has finished its
\* observation no longer occupies the canary slot, unless the line was archived
\* with it, or something was started while the line was archived: then there
\* may be nothing archived to come back, and unarchiveLine takes the latest
\* event of the line, whatever became of it.
Candidates == {e \in Ids : event[e].lane = "canary" /\ event[e].root = e}
Of(r) == {e \in Ids : event[e].root = r /\ event[e].lane = "canary"}
Promoted(r) == \E e \in Ids : event[e].root = r /\ event[e].lane = "production"
Ended(r) ==
    \/ Promoted(r)
    \/ \E e \in Of(r) : event[e].status \in {"completed", "cancelled"}
                          /\ event[e].reason # "replaced"
EndedStaysEnded ==
    Quiet /\ Orderly /\ "dark" \notin happened =>
       \A r \in Candidates :
          Ended(r) /\ (\A e \in Of(r) : event[e].status # "archived") => Of(r) \cap Active = {}

\* A line on which nothing runs is only started by a request that is meant to,
\* or by one that was read while it was running.
Starting == {"production", "rollback", "canary", "startLine", "startCanary"}
StartedByRequest ==
    ~AnyRunning /\ AnyRunning' =>
       \E a \in Actors : req'[a] # req[a] /\ (req[a].op \in Starting \/ req[a].saw)
StopHolds == [][StartedByRequest]_vars
=============================================================================
