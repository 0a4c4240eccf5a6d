-------------------------- MODULE OptimizationLoop --------------------------
(***************************************************************************)
(* One optimization: the API requests that create, stop, resume and cancel *)
(* it, the DBOS workflows that run its rounds, the child experiment of     *)
(* each round, and the recovery after a restart.                           *)
(*                                                                         *)
(* Experiment 0 is the baseline; experiment n and prompt version n belong  *)
(* to round n.  A metric snapshot is one number, the goal is to reach Goal *)
(* and a higher number is better.  A child experiment is what              *)
(* ExperimentLifecycle promises: it is running, stopped, failed or         *)
(* success, and a stop takes effect some time after it was accepted.       *)
(***************************************************************************)
EXTENDS Naturals, FiniteSets, FiniteSetsExt

CONSTANTS
    Modes,          \* the starting points users choose, of StartingModes
    MaxRounds,      \* loopLimits.maxRounds
    StopAfter,      \* loopLimits.stopAfterNoImprovementRounds, 0 = never
    Goal,           \* the score that meets the goal
    SourceScores,   \* bound: the results a source experiment may have
    Workflows,      \* workflow ids (optimization:<id>:<kind>:<ms>)
    Actions,        \* the control actions the user sends
    Faults,         \* bound: starting point -> what may go wrong, of FaultKinds
    MaxFaults,      \* bound: how many of them in one behaviour
    TwinsFrom,      \* bound: no second workflow before this round has ended
    None            \* "no workflow", "no version"

StartingModes == {"from_experiment", "from_prompt_version", "from_dataset_only"}

\* DBOS.startWorkflow of the optimization throws; setDbosWorkflowId throws
\* after it; DBOS.startWorkflow of a child throws; a step throws; an LLM call
\* fails; the child control of the service fails; a round outlasts its polling
\* budget; the user stops a child himself, or resumes while a workflow or a
\* child is still at work; the server restarts between requests, or in the
\* middle of one, or comes up and cannot look up workflows.
FaultKinds == {"launch", "setid", "child", "step", "llm", "link", "timeout",
               "childstop", "hasty", "restart", "crash", "lookup"}

ASSUME OptimizationAssumption ==
    /\ Modes \subseteq StartingModes
    /\ MaxRounds \in Nat \ {0} /\ StopAfter \in Nat /\ Goal \in Nat \ {0}
    /\ SourceScores \subseteq 0..Goal
    /\ IsFiniteSet(Workflows) /\ None \notin Workflows \cup (0..MaxRounds)
    /\ Actions \subseteq {"stop", "resume", "cancel"}
    /\ Faults \in [Modes -> SUBSET FaultKinds] /\ MaxFaults \in Nat
    /\ TwinsFrom \in Nat

Rounds == 1..MaxRounds
Experiments == 0..MaxRounds
Scores == 0..Goal
Kinds == {"optimization_analysis", "optimization_generate"}
Requests == {"user", "recovery"}

VARIABLES
    mode,       \* optimizations.starting_mode, "none" while there is no row
    status,     \* optimizations.status
    control,    \* optimizations.control_state
    objective,  \* optimizations.objective_status
    wfId,       \* optimizations.dbos_workflow_id
    best,       \* the round of best_version_id, 0 while it is the baseline
    current,    \* optimizations.current_round
    parent,     \* prompt version -> the version it was derived from
    calls,      \* the answered LLM calls of a round; the first writes the row
    exp,        \* the child experiments
    req,        \* the request being handled, and the recovery
    wf,         \* the workflows: program counter and locals
    happened    \* history: the faults so far, and "twin", "missed", "overruled"

row == <<mode, status, control, objective, wfId>>
progress == <<best, current, parent, calls>>
vars == <<row, progress, exp, req, wf, happened>>

IdleRequest == [pc |-> "idle", action |-> "none", seen |-> "none", new |-> None]
NewWorkflow == [pc |-> "none", n |-> 0, resume |-> FALSE, kind |-> "optimization_analysis",
                base |-> 0, snap |-> 0, score |-> 0, linked |-> FALSE, end |-> "none"]
NoExperiment == [status |-> "none", stop |-> FALSE, launched |-> FALSE, score |-> 0]

Init ==
    /\ mode = "none" /\ status = "none" /\ control = "none" /\ objective = "pending"
    /\ wfId = None /\ best = 0 /\ current = 0
    /\ parent = [n \in Experiments |-> None]
    /\ calls = [n \in Rounds |-> [k \in Kinds |-> 0]]
    /\ exp = [n \in Experiments |-> NoExperiment]
    /\ req = [c \in Requests |-> IdleRequest]
    /\ wf = [w \in Workflows |-> NewWorkflow]
    /\ happened = {}

Fault(kind) ==
    /\ mode \in Modes /\ kind \in Faults[mode] \ happened
    /\ Cardinality(happened \cap FaultKinds) < MaxFaults
    /\ happened' = happened \cup {kind}

Live(w) == wf[w].pc \notin {"none", "done"}
Running(n) == exp[n].status = "running"

-----------------------------------------------------------------------------
(* OptimizationService and OptimizationLauncher.                            *)

\* Bound: a request that starts a workflow finds an unused id.
CanLaunch ==
    Cardinality({w \in Workflows : wf[w].pc = "none"})
       > Cardinality({c \in Requests : /\ req[c].pc \in {"patch", "launch"}
                                       /\ req[c].action \in {"start", "resume"}})

\* createOptimization: the row is running from its first moment.  A source
\* experiment has its result, a prompt version was there before.
Create ==
    /\ mode = "none" /\ CanLaunch /\ req["recovery"].pc = "idle"
    /\ mode' \in Modes
    /\ status' = "running"
    /\ parent' = [parent EXCEPT ![0] = IF mode' = "from_dataset_only" THEN None ELSE 0]
    /\ \E s \in SourceScores :
         exp' = IF mode' = "from_experiment"
                THEN [exp EXCEPT ![0] = [@ EXCEPT !.status = "success", !.launched = TRUE,
                                                  !.score = s]]
                ELSE exp
    /\ req' = [req EXCEPT !["user"] = [@ EXCEPT !.pc = "launch", !.action = "start"]]
    /\ UNCHANGED <<control, objective, wfId, best, current, calls, wf, happened>>

\* getControlPatch: the statuses an action is accepted in.
Accepts(action) ==
    CASE action = "stop" -> {"running"}
      [] action = "resume" -> {"stopped"}
      [] action = "cancel" -> {"running", "stopped", "failed"}

Busy == (\E w \in Workflows : Live(w)) \/ (\E n \in Experiments : Running(n))

\* findOptimizationById and the check; the UPDATE comes later, without one.
Request ==
    /\ \A c \in Requests : req[c].pc = "idle"
    /\ \E a \in Actions :
         /\ status \in Accepts(a)
         /\ a = "resume" => CanLaunch
         /\ IF a = "resume" /\ Busy
            THEN current >= TwinsFrom /\ Fault("hasty")
            ELSE UNCHANGED happened
         /\ req' = [req EXCEPT !["user"] = [@ EXCEPT !.pc = "patch", !.action = a,
                                                     !.seen = status]]
    /\ UNCHANGED <<row, progress, exp, wf>>

PatchedStatus(a) ==
    CASE a = "stop" -> "stopped" [] a = "resume" -> "running" [] a = "cancel" -> "cancelled"

Patch ==
    LET a == req["user"].action IN
    /\ req["user"].pc = "patch"
    /\ status' = PatchedStatus(a)
    /\ control' = a
    /\ objective' = CASE a = "resume" -> "pending"
                      [] a = "cancel" /\ req["user"].seen = "failed" -> objective
                      [] OTHER -> "not_met"
    /\ req' = [req EXCEPT !["user"].pc = IF a = "resume" THEN "launch" ELSE "link"]
    /\ UNCHANGED <<mode, wfId, progress, exp, wf, happened>>

\* findActiveChildExperiment: the last round that has not ended; the baseline
\* only when it was started for a prompt version.
ActiveChild ==
    LET open == {n \in Rounds : exp[n].status \in {"running", "stopped"}} IN
    IF open # {} THEN {Max(open)}
    ELSE {n \in {0} : mode = "from_prompt_version" /\ exp[n].status \in {"running", "stopped"}}

\* ExperimentService.controlExperiment: a stop, or a cancel, which is the same
\* for an experiment, is accepted while it runs, a resume when it is stopped.
Stopped(e, S) == [n \in Experiments |->
    IF n \in S /\ e[n].status = "running" THEN [e[n] EXCEPT !.stop = TRUE] ELSE e[n]]
Resumed(e, S) == [n \in Experiments |->
    IF n \in S /\ e[n].status = "stopped" THEN [e[n] EXCEPT !.status = "running"] ELSE e[n]]

\* tryLinkChildExperimentControl; its errors are logged.
LinkChild ==
    /\ req["user"].pc = "link"
    /\ \/ exp' = Stopped(exp, ActiveChild) /\ UNCHANGED happened
       \/ Fault("link") /\ UNCHANGED exp
    /\ req' = [req EXCEPT !["user"] = IdleRequest]
    /\ UNCHANGED <<row, progress, wf>>

\* DBOS.startWorkflow, under an id of its own.
Launch(c) ==
    /\ req[c].pc = "launch"
    /\ LET w == CHOOSE x \in Workflows : wf[x].pc = "none" IN
         /\ wf' = [wf EXCEPT ![w].pc = "load"]
         /\ req' = [req EXCEPT ![c] = [@ EXCEPT !.pc = "setid", !.new = w]]
    /\ happened' = IF \E w \in Workflows : Live(w) THEN happened \cup {"twin"} ELSE happened
    /\ UNCHANGED <<row, progress, exp>>

SetWorkflowId(c) ==
    /\ req[c].pc = "setid"
    /\ wfId' = req[c].new
    /\ req' = [req EXCEPT ![c] = IdleRequest]
    /\ UNCHANGED <<mode, status, control, objective, progress, exp, wf, happened>>

\* The launcher throws: createOptimization writes `failed`, a resume leaves
\* the row as it patched it, the recovery logs.
LaunchFails(c) ==
    /\ req[c].pc \in {"launch", "setid"}
    /\ Fault(req[c].pc)
    /\ \/ /\ req[c].action = "start"
          /\ status' = "failed" /\ objective' = "unknown" /\ control' = "none"
       \/ /\ req[c].action = "resume"
          /\ UNCHANGED <<status, objective, control>>
    /\ req' = [req EXCEPT ![c] = IdleRequest]
    /\ UNCHANGED <<mode, wfId, progress, exp, wf>>

-----------------------------------------------------------------------------
(* OptimizationWorkflowRegistrar: the start.                                *)

InStep(w, pc) == wf[w].pc = pc
Locals(w, l) == wf' = [wf EXCEPT ![w] = l]
Goto(w, pc) == Locals(w, [wf[w] EXCEPT !.pc = pc])
\* A local that is not read any more goes back to its initial value.
End(l, kind) == [NewWorkflow EXCEPT !.pc = "final", !.end = kind]
Ended == [NewWorkflow EXCEPT !.pc = "done"]

Interrupted == {n \in Rounds : exp[n].status \in {"stopped", "running"}}
Finished == {n \in Rounds : exp[n].status \in {"success", "failed"}}

\* loadConfigImpl: an interrupted round is run again, finished ones are not.
Loaded(l) ==
    [l EXCEPT !.n = IF Interrupted # {} THEN Min(Interrupted) ELSE 1 + Max({0} \cup Finished),
              !.resume = Interrupted # {},
              !.snap = best]

\* History: a round ended in success while no workflow waited for it.
Missed == IF \E n \in Rounds : n > current /\ exp[n].status = "success" THEN {"missed"} ELSE {}

LoadConfig(w) ==
    /\ InStep(w, "load")
    /\ Locals(w, [Loaded(wf[w]) EXCEPT !.pc = "mark"])
    /\ happened' = happened \cup Missed
    /\ UNCHANGED <<row, progress, exp, req>>

\* History: the start of a workflow took a stop or a cancel back.
Overruled == IF status \in {"stopped", "cancelled"} THEN {"overruled"} ELSE {}

\* UPDATE ... SET status = 'running', whatever the status is.
MarkStarted(w) ==
    /\ InStep(w, "mark")
    /\ status' = "running"
    /\ happened' = happened \cup Overruled
    /\ Goto(w, IF mode = "from_dataset_only" /\ parent[0] = None THEN "first" ELSE "base")
    /\ UNCHANGED <<mode, control, objective, wfId, progress, exp, req>>

\* generateFirstVersionImpl: WHERE base_version_id IS NULL.
FirstVersion(w) ==
    /\ InStep(w, "first")
    /\ \/ /\ parent' = [parent EXCEPT ![0] = 0]
          /\ Locals(w, [Loaded(wf[w]) EXCEPT !.pc = "base"])
          /\ UNCHANGED happened
       \/ /\ Fault("llm")
          /\ Locals(w, End(wf[w], "failed"))
          /\ UNCHANGED parent
    /\ UNCHANGED <<row, best, current, calls, exp, req>>

\* preparePromptBaselineImpl.
PrepareBaseline(w) ==
    LET s == exp[0].status
        Go(pc) == Locals(w, [wf[w] EXCEPT !.pc = pc, !.n = 0, !.linked = FALSE]) IN
    /\ InStep(w, "base")
    /\ \/ mode = "from_experiment" /\ Goto(w, "check") /\ UNCHANGED exp
       \/ /\ mode # "from_experiment"
          /\ \/ s = "none" /\ exp' = [exp EXCEPT ![0].status = "running"] /\ Go("launchBase")
             \/ s \in {"success", "running"} /\ Go("poll") /\ UNCHANGED exp
             \/ s = "failed" /\ Locals(w, End(wf[w], "failed")) /\ UNCHANGED exp
             \/ s = "stopped" /\ Go("baseControl") /\ UNCHANGED exp
    /\ UNCHANGED <<row, progress, req, happened>>

StartChildUnmarked(n) ==
    /\ \/ exp' = [exp EXCEPT ![n].launched = TRUE] /\ UNCHANGED happened
       \/ ~exp[n].launched /\ Fault("child") /\ UNCHANGED exp

\* DBOS.startWorkflow under the id of the round: a second call does nothing.
\* When it throws, the child experiment is failed.
StartChild(n) ==
    \/ exp' = [exp EXCEPT ![n].launched = TRUE] /\ UNCHANGED happened
    \/ ~exp[n].launched /\ Fault("child") /\ exp' = [exp EXCEPT ![n].status = "failed"]

LaunchBaseline(w) ==
    /\ InStep(w, "launchBase")
    /\ StartChild(0)
    /\ Locals(w, IF Running(0)' THEN [wf[w] EXCEPT !.pc = "poll"] ELSE End(wf[w], "failed"))
    /\ UNCHANGED <<row, progress, req>>

\* The baseline was found stopped: readState, and resume it with its parent.
ReadBaselineControl(w) ==
    /\ InStep(w, "baseControl")
    /\ Locals(w, CASE control = "cancel" -> End(wf[w], "cancelled")
                   [] control = "resume" -> [wf[w] EXCEPT !.pc = "baseResume"]
                   [] OTHER -> End(wf[w], "stopped"))
    /\ UNCHANGED <<row, progress, exp, req, happened>>

ResumeBaseline(w) ==
    /\ InStep(w, "baseResume")
    /\ exp' = Resumed(exp, {0})
    /\ Goto(w, "baseClear")
    /\ UNCHANGED <<row, progress, req, happened>>

\* UPDATE ... WHERE control_state = 'resume'.
ClearResume(w) ==
    /\ wf[w].pc \in {"clear", "baseClear"}
    /\ \/ control = "resume" /\ control' = "none" /\ status' = "running"
       \/ control # "resume" /\ UNCHANGED <<control, status>>
    /\ Goto(w, IF wf[w].pc = "clear" THEN "prepare" ELSE "poll")
    /\ UNCHANGED <<mode, objective, wfId, progress, exp, req, happened>>

\* The wait for the baseline ended in `stopped`.
BaselineStopped(w) ==
    /\ InStep(w, "baseStopped")
    /\ Locals(w, End(wf[w], IF control = "cancel" THEN "cancelled" ELSE "stopped"))
    /\ UNCHANGED <<row, progress, exp, req, happened>>

ReloadConfig(w) ==
    /\ InStep(w, "reload")
    /\ Locals(w, [Loaded(wf[w]) EXCEPT !.pc = "check"])
    /\ happened' = happened \cup Missed
    /\ UNCHANGED <<row, progress, exp, req>>

MeetsGoal(n) == exp[n].score >= Goal

CheckGoals(w) ==
    /\ InStep(w, "check")
    /\ Locals(w, IF MeetsGoal(wf[w].snap) THEN End(wf[w], "goals_met")
                 ELSE [wf[w] EXCEPT !.pc = "top", !.snap = 0])
    /\ UNCHANGED <<row, progress, exp, req, happened>>

-----------------------------------------------------------------------------
(* OptimizationWorkflowRegistrar: the rounds.                               *)

\* readState at the top of the loop, or the end of the loop.
NextRound(w) ==
    /\ InStep(w, "top")
    /\ Locals(w,
         CASE wf[w].n > MaxRounds -> End(wf[w], "max_rounds")
           [] wf[w].n <= MaxRounds /\ status # "running" -> Ended
           [] wf[w].n <= MaxRounds /\ status = "running" /\ control = "cancel" -> End(wf[w], "cancelled")
           [] wf[w].n <= MaxRounds /\ status = "running" /\ control = "stop" -> End(wf[w], "stopped")
           [] OTHER -> [wf[w] EXCEPT !.pc = IF control = "resume" THEN "clear" ELSE "prepare"])
    /\ UNCHANGED <<row, progress, exp, req, happened>>

\* resolveRoundOptimizationContext: the best version, or, when the previous
\* round was worse than the version it came from, that version again.
Regressed(n) ==
    /\ n > 1 /\ exp[n - 1].status = "success" /\ parent[n - 1] # None
    /\ exp[parent[n - 1]].score > exp[n - 1].score
PreviousVersion(n) == n - 1
BaseVersion(n) == IF Regressed(n) THEN parent[n - 1] ELSE best

\* peekOptimizationRunResult: a success row replaces the call.
NeverAnswered(n, kind) == FALSE
Answered(n, kind) == calls[n][kind] > 0

\* The first of the two calls that is still to be made, looked up when the one
\* before it is done.
NextCall(l, kinds) ==
    LET open == {k \in kinds : ~Answered(l.n, k)} IN
    CASE open = {} -> [l EXCEPT !.pc = "version", !.kind = NewWorkflow.kind]
      [] open = {"optimization_generate"} -> [l EXCEPT !.pc = "call", !.kind = "optimization_generate"]
      [] OTHER -> [l EXCEPT !.pc = "call", !.kind = "optimization_analysis"]

\* prepareRoundImpl: the base of the round, then analysis and generation.
PrepareRound(w) ==
    /\ InStep(w, "prepare")
    /\ Locals(w, NextCall([wf[w] EXCEPT !.base = BaseVersion(wf[w].n)], Kinds))
    /\ UNCHANGED <<row, progress, exp, req, happened>>

\* analyzeFailures, generateNextVersion: the call and its run result.
CallAnalysisModel(w) ==
    /\ InStep(w, "call")
    /\ \/ /\ calls' = [calls EXCEPT ![wf[w].n][wf[w].kind] = @ + 1]
          /\ Locals(w, NextCall(wf[w], {"optimization_generate"} \ {wf[w].kind}))
          /\ UNCHANGED happened
       \/ /\ Fault("llm")
          /\ Locals(w, End(wf[w], "failed"))
          /\ UNCHANGED calls
    /\ UNCHANGED <<row, best, current, parent, exp, req>>

\* createOptimizationFrozenVersion and createChildExperimentRow: both ids
\* follow from the round, what exists stays as it is.
CreateVersion(w) ==
    LET n == wf[w].n IN
    /\ InStep(w, "version")
    /\ parent' = [parent EXCEPT ![n] = IF @ = None THEN wf[w].base ELSE @]
    /\ Locals(w, [wf[w] EXCEPT !.pc = "experiment", !.base = 0])
    /\ UNCHANGED <<row, best, current, calls, exp, req, happened>>

CreateExperiment(w) ==
    LET n == wf[w].n IN
    /\ InStep(w, "experiment")
    /\ exp' = [exp EXCEPT ![n].status = IF @ = "none" THEN "running" ELSE @]
    /\ Goto(w, "launch")
    /\ UNCHANGED <<row, progress, req, happened>>

\* finalizeRoundImpl reads the configuration again, then polls.
Await(l) == [l EXCEPT !.pc = "poll", !.snap = best, !.score = 0, !.linked = FALSE, !.resume = FALSE]

\* The interrupted round resumes its child when it is stopped, any other round
\* starts it.
LaunchChild(w) ==
    LET n == wf[w].n IN
    /\ InStep(w, "launch")
    /\ \/ wf[w].resume /\ exp' = Resumed(exp, {n}) /\ UNCHANGED happened
       \/ ~wf[w].resume /\ StartChild(n)
    /\ Locals(w, Await(wf[w]))
    /\ UNCHANGED <<row, progress, req>>

\* The wait for experiment n ended; a round that was not measured is left.
Outcome(l, result) ==
    IF l.n = 0
    THEN CASE result = "success" -> [l EXCEPT !.pc = "reload"]
           [] result = "stopped" -> [l EXCEPT !.pc = "baseStopped"]
           [] result = "failed" -> End(l, "failed")
    ELSE IF result = "success" THEN [l EXCEPT !.pc = "best", !.score = exp[l.n].score, !.linked = FALSE]
         ELSE [l EXCEPT !.pc = "top", !.n = @ + 1, !.snap = 0]

\* waitForExperimentTerminal: the child, or the end of the budget.
PollChild(w) ==
    LET n == wf[w].n IN
    /\ InStep(w, "poll")
    /\ \/ ~Running(n) /\ Locals(w, Outcome(wf[w], exp[n].status)) /\ UNCHANGED happened
       \/ Running(n) /\ Goto(w, "parent") /\ UNCHANGED happened
       \/ Running(n) /\ Fault("timeout") /\ Locals(w, Outcome(wf[w], "failed"))
    /\ UNCHANGED <<row, progress, exp, req>>

\* ... then the parent: its stop is passed on, its end ends the wait.
PassesOnNothing(w) == FALSE
PassesOn(w) == control \in {"stop", "cancel"} /\ ~wf[w].linked

PollParent(w) ==
    /\ InStep(w, "parent")
    /\ exp' = IF PassesOn(w) THEN Stopped(exp, {wf[w].n}) ELSE exp
    /\ Locals(w, LET l == [wf[w] EXCEPT !.linked = @ \/ PassesOn(w)] IN
                 IF status # "running" THEN Outcome(l, "stopped") ELSE [l EXCEPT !.pc = "poll"])
    /\ UNCHANGED <<row, progress, req, happened>>

\* decideRoundOutcome compares with the best that was read before the wait.
IsLatest(l) == TRUE
IsBest(l) == l.score > exp[l.snap].score

UpdateBest(w) ==
    /\ InStep(w, "best")
    /\ best' = IF IsBest(wf[w]) THEN wf[w].n ELSE best
    /\ Goto(w, "current")
    /\ UNCHANGED <<row, current, parent, calls, exp, req, happened>>

UpdateCurrentRound(w) ==
    /\ InStep(w, "current")
    /\ current' = wf[w].n
    /\ Locals(w, IF wf[w].score >= Goal \/ MeetsGoal(wf[w].snap) THEN End(wf[w], "goals_met")
                 ELSE [wf[w] EXCEPT !.pc = "history", !.score = 0, !.snap = 0])
    /\ UNCHANGED <<row, best, parent, calls, exp, req, happened>>

\* computeNoBestStreak over the successful rounds up to n.
Streak(n) == Cardinality({m \in 1..n : exp[m].status = "success" /\ ~(m <= best /\ best <= n)})

CheckHistory(w) ==
    LET n == wf[w].n IN
    /\ InStep(w, "history")
    /\ Locals(w, IF StopAfter > 0 /\ Streak(n) >= StopAfter THEN End(wf[w], "no_improvement")
                 ELSE [wf[w] EXCEPT !.pc = "top", !.n = n + 1])
    /\ UNCHANGED <<row, progress, exp, req, happened>>

FinalStatus(end) == IF end \in {"goals_met", "max_rounds", "no_improvement"} THEN "success" ELSE end
FinalObjective(end) == CASE end = "goals_met" -> "met" [] end = "failed" -> "unknown"
                         [] OTHER -> "not_met"

\* UPDATE ... WHERE status = 'running': a stop or a cancel was there before.
MayAlwaysFinalize == TRUE
MayFinalize == status = "running"

Finalize(w) ==
    /\ InStep(w, "final")
    /\ \/ /\ MayFinalize
          /\ status' = FinalStatus(wf[w].end)
          /\ objective' = FinalObjective(wf[w].end)
          /\ control' = "none"
       \/ ~MayFinalize /\ UNCHANGED <<status, objective, control>>
    /\ Locals(w, Ended)
    /\ UNCHANGED <<mode, wfId, progress, exp, req, happened>>

\* A step throws: the catch block finalizes `failed`.
WorkflowError(w) ==
    /\ Live(w) /\ wf[w].pc # "final"
    /\ wf[w].pc \in {"launchBase", "launch"} => wf[w].resume
    /\ Fault("step")
    /\ Locals(w, End(wf[w], "failed"))
    /\ UNCHANGED <<row, progress, exp, req>>

-----------------------------------------------------------------------------
(* Child experiments, restarts and the recovery.                            *)

\* A run that reads the stop in time ends stopped, with the metrics of the
\* samples so far, else as if there were no stop.  Nobody reads the metrics
\* of a failed one.
ExperimentEnds(n) ==
    /\ Running(n) /\ exp[n].launched
    /\ \E end \in {"success", "failed", "stopped"}, s \in Scores :
         /\ end = "stopped" => exp[n].stop
         /\ exp' = [exp EXCEPT ![n] = [@ EXCEPT !.status = end, !.stop = FALSE,
                                                 !.score = IF end = "failed" THEN 0 ELSE s]]
    /\ UNCHANGED <<row, progress, req, wf, happened>>

\* The user stops a child on its own page.
ExperimentStopped(n) ==
    /\ Running(n)
    /\ Fault("childstop")
    /\ exp' = Stopped(exp, {n})
    /\ UNCHANGED <<row, progress, req, wf>>

\* The step in progress starts over with its inputs.
Replayed(l) ==
    CASE l.pc \in {"call", "version", "experiment"} ->
           [l EXCEPT !.pc = "prepare", !.base = 0, !.kind = NewWorkflow.kind]
      [] l.n # 0 /\ l.pc \in {"poll", "parent", "best", "current"} -> Await(l)
      [] l.n = 0 /\ l.pc = "parent" -> [l EXCEPT !.pc = "poll", !.linked = FALSE]
      [] OTHER -> l

Restart ==
    /\ \/ /\ Fault("restart") \/ (current >= TwinsFrom /\ Fault("lookup"))
          /\ \A c \in Requests : req[c].pc = "idle"
       \/ Fault("crash") /\ \E c \in Requests : req[c].pc # "idle"
    /\ req' = [c \in Requests |->
                 IF c = "recovery" THEN [IdleRequest EXCEPT !.pc = "scan", !.action = "resume"]
                 ELSE IdleRequest]
    /\ wf' = [w \in Workflows |-> Replayed(wf[w])]
    /\ UNCHANGED <<row, progress, exp>>

\* recoverActiveOptimizations: a running row whose workflow DBOS has finished
\* with, or does not tell, gets a new one; a row without a workflow id is not
\* looked at.
Orphaned ==
    /\ status = "running" /\ wfId # None
    /\ wf[wfId].pc = "done" \/ "lookup" \in happened

Recover ==
    /\ req["recovery"].pc = "scan"
    /\ \/ Orphaned /\ CanLaunch /\ req' = [req EXCEPT !["recovery"].pc = "launch"]
       \/ ~Orphaned /\ req' = [req EXCEPT !["recovery"] = IdleRequest]
    /\ UNCHANGED <<row, progress, exp, wf, happened>>

-----------------------------------------------------------------------------
Serve(c) ==
    \/ c = "user" /\ (Patch \/ LinkChild)
    \/ Launch(c) \/ SetWorkflowId(c)

Start(w) ==
    \/ LoadConfig(w) \/ MarkStarted(w) \/ FirstVersion(w) \/ PrepareBaseline(w)
    \/ LaunchBaseline(w) \/ ReadBaselineControl(w) \/ ResumeBaseline(w)
    \/ BaselineStopped(w) \/ ReloadConfig(w) \/ CheckGoals(w)

Round(w) ==
    \/ NextRound(w) \/ ClearResume(w) \/ PrepareRound(w)
    \/ CallAnalysisModel(w) \/ CreateVersion(w) \/ CreateExperiment(w) \/ LaunchChild(w)
    \/ PollChild(w) \/ PollParent(w) \/ UpdateBest(w)
    \/ UpdateCurrentRound(w) \/ CheckHistory(w) \/ Finalize(w)

Next ==
    \/ Create \/ Request
    \/ \E c \in Requests : Serve(c) \/ LaunchFails(c)
    \/ \E w \in Workflows : Start(w) \/ Round(w) \/ WorkflowError(w)
    \/ \E n \in Experiments : ExperimentEnds(n) \/ ExperimentStopped(n)
    \/ Restart \/ Recover

Spec == Init /\ [][Next]_vars

\* Requests, workflows and the recovery keep going, and a child experiment
\* that runs comes to an end (RunningEnds of ExperimentRun).
Fairness ==
    /\ WF_vars(Recover \/ \E c \in Requests : Serve(c))
    /\ \A w \in Workflows : WF_vars(Start(w) \/ Round(w))
    /\ WF_vars(\E n \in Experiments : ExperimentEnds(n))

FairSpec == Spec /\ Fairness

-----------------------------------------------------------------------------
(* Properties.                                                              *)

ExperimentType == [status : {"none", "running", "stopped", "failed", "success"},
                   stop : BOOLEAN, launched : BOOLEAN, score : Scores]
RequestType == [pc : {"idle", "patch", "link", "launch", "setid", "scan"},
                action : {"none", "start", "stop", "resume", "cancel"},
                seen : {"none", "running", "stopped", "failed"}, new : Workflows \cup {None}]
WorkflowPcs ==
    {"none", "load", "mark", "first", "base", "launchBase", "baseControl", "baseResume",
     "baseClear", "baseStopped", "reload", "check", "top", "clear", "prepare", "call", "version",
     "experiment", "launch", "poll", "parent", "best", "current", "history", "final", "done"}
WorkflowType == [pc : WorkflowPcs, n : 0..(MaxRounds + 1), resume : BOOLEAN, kind : Kinds,
                 base : Experiments, snap : Experiments, score : Scores, linked : BOOLEAN,
                 end : {"none", "failed", "cancelled", "stopped", "goals_met", "max_rounds",
                        "no_improvement"}]

TypeOK ==
    /\ mode \in StartingModes \cup {"none"}
    /\ status \in {"none", "running", "stopped", "cancelled", "failed", "success"}
    /\ control \in {"none", "stop", "resume", "cancel"}
    /\ objective \in {"pending", "met", "not_met", "unknown"}
    /\ wfId \in Workflows \cup {None}
    /\ best \in Experiments /\ current \in Experiments
    /\ parent \in [Experiments -> Experiments \cup {None}]
    /\ calls \in [Rounds -> [Kinds -> Nat]]
    /\ exp \in [Experiments -> ExperimentType]
    /\ req \in [Requests -> RequestType]
    /\ wf \in [Workflows -> WorkflowType]
    /\ happened \subseteq FaultKinds \cup {"twin", "missed", "overruled"}

Orderly == happened \cap {"hasty", "twin"} = {}
Watched == Orderly /\ happened \cap {"timeout", "childstop", "missed"} = {}

\* 25-optimizations.md, section 5: the best version is a version whose
\* experiment succeeded, also when several workflows run the optimization; no
\* finished round up to the current one has a better result (step 7); and the
\* objective is reported as met only with a best version that meets the goal,
\* and a success that did not meet it really did not (section 7).
BestIsMeasured == best # 0 => exp[best].status = "success" /\ parent[best] # None
BestOfRounds ==
    \A n \in 0..current : exp[n].status = "success" => exp[n].score <= exp[best].score
ObjectiveIsTrue ==
    /\ objective = "met" => MeetsGoal(best)
    /\ status = "success" /\ objective = "not_met" => ~MeetsGoal(best)
BestIsBest == BestIsMeasured /\ (Watched => BestOfRounds /\ ObjectiveIsTrue)

\* Section 5, step 1: each version is derived from the best of the versions
\* before it, on the regression path as on the normal one; and a round has ended
\* before the next one starts, also when a resume goes on with the round it
\* finds (section 7).
BuildsOnBest ==
    Watched => \A n \in Rounds :
       /\ parent[n] # None =>
             /\ parent[n] < n
             /\ \A m \in 0..(n - 1) :
                   exp[m].status = "success" => exp[m].score <= exp[parent[n]].score
       /\ exp[n].status # "none" =>
             \A m \in 0..(n - 1) : exp[m].status \in {"success", "failed"}

\* Section 7: an answered call is not paid for again by a resume, a restart or
\* a round that runs again.
ChargedOnce ==
    Orderly =>
       \A n \in Rounds : \A k \in Kinds : calls[n][k] <= 1

\* Section 7: after a stop or a cancel that nobody works on any more, no child
\* runs without having been stopped.
StopReachesChildren ==
    /\ status \in {"stopped", "cancelled"}
    /\ \A w \in Workflows : ~Live(w)
    /\ \A c \in Requests : req[c].pc = "idle"
    /\ happened \cap {"twin", "timeout", "step", "setid"} = {}
    => \A n \in Experiments : Running(n) => exp[n].stop

\* Section 7: from the moment a stop or a cancel is written until the user
\* resumes, the row says stopped or cancelled: no workflow that is still at work
\* and no recovery makes it run, succeed or fail.  A workflow that starts at
\* that moment does: it overrules the stop, and nothing is said after that.
StopStands ==
    [][(control \in {"stop", "cancel"} /\ "overruled" \notin happened') =>
          (status' \in {"stopped", "cancelled"} \/ control' = "resume")]_vars

\* Section 7: an optimization that runs comes to an end.  A resume whose launch
\* fails, or a crash before the launch, leaves the row running until somebody
\* stops it or the server restarts.
RunningEnds ==
    status = "running" ~> (status # "running" \/ happened \cap {"crash", "launch"} # {})
=============================================================================
