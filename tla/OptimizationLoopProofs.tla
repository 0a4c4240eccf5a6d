----------------------- MODULE OptimizationLoopProofs -----------------------
(***************************************************************************)
(* Proofs about OptimizationLoop, for any number of rounds, workflow ids   *)
(* and faults, any goal and any starting points.                           *)
(***************************************************************************)
EXTENDS OptimizationLoop, FiniteSetTheorems, WellFoundedInduction, TLAPS

-----------------------------------------------------------------------------
(* Least and greatest rounds.                                               *)

LEMMA MinIsLeast ==
  ASSUME NEW I \in SUBSET Nat, I # {}
  PROVE  Min(I) \in I /\ \A i \in I : Min(I) <= i
<1> DEFINE R == OpToRel(<, Nat)
<1>1. IsWellFoundedOn(R, Nat)
  BY NatLessThanWellFounded
<1> HIDE DEF R
<1>2. PICK x \in I : \A y \in I : ~(<<y, x>> \in R)
  BY <1>1, WFMin
<1>3. \A y \in I : x <= y
  <2> SUFFICES ASSUME NEW y \in I, y < x PROVE FALSE
    OBVIOUS
  <2>1. <<y, x>> \in R
    BY DEF R, OpToRel
  <2> QED BY <1>2, <2>1
<1> QED BY <1>3 DEF Min

LEMMA MaxIsGreatest ==
  ASSUME NEW N \in Nat, NEW I \in SUBSET (0..N), I # {}
  PROVE  Max(I) \in I /\ \A i \in I : i <= Max(I)
<1> DEFINE J == {j \in 0..N : N - j \in I}
<1>1. J \in SUBSET Nat /\ J # {}
  <2>1. PICK i \in I : TRUE
    OBVIOUS
  <2>2. i \in 0..N /\ N - i \in 0..N /\ N - (N - i) = i
    BY <2>1
  <2>3. N - i \in J
    BY <2>1, <2>2
  <2>4. J \subseteq Nat
    OBVIOUS
  <2> QED BY <2>3, <2>4
<1>2. PICK x \in J : \A y \in J : x <= y
  BY <1>1, MinIsLeast
<1>3. N - x \in I /\ \A i \in I : i <= N - x
  <2> SUFFICES ASSUME NEW i \in I PROVE i <= N - x
    BY <1>2
  <2>1. i \in 0..N /\ N - i \in 0..N /\ N - (N - i) = i
    OBVIOUS
  <2>2. N - i \in J
    BY <2>1
  <2>3. x \in 0..N /\ x <= N - i
    BY <1>2, <2>2
  <2> QED BY <2>1, <2>3
<1> QED BY <1>3 DEF Max

LEMMA Constants ==
  /\ MaxRounds \in Nat /\ MaxRounds > 0 /\ Goal \in Nat /\ Goal > 0
  /\ Rounds \subseteq Experiments /\ 0 \in Experiments /\ 0 \notin Rounds
  /\ \A n \in Experiments : n \in Nat /\ n # None /\ (n # 0 => n \in Rounds)
  /\ 0 \in Scores /\ Scores \subseteq Nat
BY OptimizationAssumption DEF Rounds, Experiments, Scores

-----------------------------------------------------------------------------
(* Where a workflow is.                                                     *)

Opening == {"launchBase", "baseControl", "baseResume", "baseClear", "baseStopped", "reload"}
Planned == {"mark", "first", "base", "check", "top"}
InRound == {"clear", "prepare", "call", "version", "experiment", "launch", "best", "current", "history"}
Waiting == {"poll", "parent"}

\* The locals of a workflow fit its program counter.
Fit(l) ==
    /\ l.pc \in {"none", "load", "final", "done"} \cup Opening => l.n = 0
    /\ l.pc \in Planned => l.n # 0
    /\ l.pc \in InRound => l.n \in Rounds
    /\ l.pc \in Waiting => l.n \in Experiments
    /\ l.pc \in {"launchBase", "baseControl", "baseResume", "baseClear"} => ~l.linked
    /\ l.pc = "final" => l.end # "none"
    /\ l.pc # "final" => l.end = "none"

Keeps(r, l) == r.n = l.n /\ r.resume = l.resume /\ r.snap = l.snap /\ r.linked = l.linked /\ r.score = l.score

\* The round that a plan found.
PlanFits(r) ==
    /\ r.snap = best /\ r.n # 0
    /\ r.resume => r.n \in Interrupted /\ \A m \in Interrupted : r.n <= m
    /\ ~r.resume => Interrupted = {} /\ (r.n = 1 \/ r.n - 1 \in Finished) /\ \A m \in Finished : m < r.n

-----------------------------------------------------------------------------
(* What each step of a workflow w does, r being the locals it leaves.       *)

Step(w, r) == Live(w) /\ r \in WorkflowType /\ Fit(r) /\ Locals(w, r)

Fails(w, r) ==
    /\ r.pc = "final" /\ r.end = "failed"
    /\ UNCHANGED <<row, progress, exp, req>>
    /\ \/ wf[w].pc \in {"first", "call"} /\ happened' = happened \cup {"llm"}
       \/ wf[w].pc # "final" /\ happened' = happened \cup {"step"}
          /\ (wf[w].pc \in {"launchBase", "launch"} => wf[w].resume)

Loads(w, r) ==
    /\ wf[w].pc = "load" /\ r.pc = "mark" /\ PlanFits(r)
    /\ happened' = happened \cup Missed
    /\ UNCHANGED <<row, progress, exp, req>>

Marks(w, r) ==
    /\ wf[w].pc = "mark" /\ r.pc \in {"first", "base"} /\ Keeps(r, wf[w])
    /\ status' = "running" /\ happened' = happened \cup Overruled
    /\ UNCHANGED <<mode, control, objective, wfId, progress, exp, req>>

MakesFirst(w, r) ==
    /\ wf[w].pc = "first" /\ r.pc = "base" /\ PlanFits(r)
    /\ parent' = [parent EXCEPT ![0] = 0]
    /\ UNCHANGED <<row, best, current, calls, exp, req, happened>>

FindsBase(w, r) ==
    /\ wf[w].pc = "base"
    /\ \/ mode = "from_experiment" /\ r.pc = "check" /\ Keeps(r, wf[w]) /\ UNCHANGED exp
       \/ mode # "from_experiment" /\ r.n = 0 /\ ~r.linked
          /\ \/ /\ r.pc = "launchBase" /\ exp[0].status = "none"
                /\ exp' = [exp EXCEPT ![0].status = "running"]
             \/ r.pc = "poll" /\ exp[0].status \in {"success", "running"} /\ UNCHANGED exp
             \/ r.pc = "baseControl" /\ exp[0].status = "stopped" /\ UNCHANGED exp
             \/ r.pc = "final" /\ r.end = "failed" /\ exp[0].status = "failed" /\ UNCHANGED exp
    /\ UNCHANGED <<row, progress, req, happened>>

LaunchesBase(w, r) ==
    /\ wf[w].pc = "launchBase" /\ StartChild(0) /\ ~r.linked
    /\ \/ r.pc = "poll" /\ r.n = 0 /\ exp'[0].status = "running"
       \/ r.pc = "final" /\ r.end = "failed" /\ exp'[0].status # "running"
    /\ UNCHANGED <<row, progress, req>>

\* The baseline was stopped: what the control state says.
ReadsControl(w, r) ==
    /\ wf[w].pc \in {"baseControl", "baseStopped"}
    /\ \/ r.pc = "baseResume" /\ wf[w].pc = "baseControl" /\ control = "resume"
       \/ r.pc = "final" /\ r.end = "cancelled" /\ control = "cancel"
       \/ r.pc = "final" /\ r.end = "stopped" /\ control # "cancel"
    /\ UNCHANGED <<row, progress, exp, req, happened>>

ResumesBase(w, r) ==
    /\ wf[w].pc = "baseResume" /\ r.pc = "baseClear"
    /\ exp' = Resumed(exp, {0})
    /\ UNCHANGED <<row, progress, req, happened>>

Clears(w, r) ==
    /\ (wf[w].pc = "clear" /\ r.pc = "prepare") \/ (wf[w].pc = "baseClear" /\ r.pc = "poll")
    /\ Keeps(r, wf[w])
    /\ \/ control = "resume" /\ control' = "none" /\ status' = "running"
       \/ control # "resume" /\ UNCHANGED <<control, status>>
    /\ UNCHANGED <<mode, objective, wfId, progress, exp, req, happened>>

Reloads(w, r) ==
    /\ wf[w].pc = "reload" /\ r.pc = "check" /\ PlanFits(r)
    /\ happened' = happened \cup Missed
    /\ UNCHANGED <<row, progress, exp, req>>

Checks(w, r) ==
    /\ wf[w].pc = "check"
    /\ \/ r.pc = "final" /\ r.end = "goals_met" /\ MeetsGoal(wf[w].snap)
       \/ r.pc = "top" /\ r.n = wf[w].n /\ r.resume = wf[w].resume /\ ~MeetsGoal(wf[w].snap)
    /\ UNCHANGED <<row, progress, exp, req, happened>>

Tops(w, r) ==
    /\ wf[w].pc = "top"
    /\ \/ r.pc = "final" /\ r.end = "max_rounds" /\ wf[w].n > MaxRounds
       \/ r.pc = "done" /\ status # "running"
       \/ r.pc = "final" /\ status = "running" /\ ((r.end = "cancelled" /\ control = "cancel")
                                                   \/ (r.end = "stopped" /\ control = "stop"))
       \/ /\ r.pc \in {"clear", "prepare"} /\ status = "running" /\ control \notin {"stop", "cancel"}
          /\ r.n \in Rounds /\ Keeps(r, wf[w])
    /\ UNCHANGED <<row, progress, exp, req, happened>>

Prepares(w, r) ==
    /\ wf[w].pc = "prepare" /\ r.pc \in {"call", "version"}
    /\ Keeps(r, wf[w]) /\ r.base = BaseVersion(r.n)
    /\ r.pc = "call" => ~Answered(r.n, r.kind)
    /\ UNCHANGED <<row, progress, exp, req, happened>>

Calls(w, r) ==
    /\ wf[w].pc = "call" /\ r.pc \in {"call", "version"}
    /\ Keeps(r, wf[w]) /\ r.base = wf[w].base
    /\ calls' = [calls EXCEPT ![wf[w].n][wf[w].kind] = @ + 1]
    /\ r.pc = "call" => ~Answered(r.n, r.kind) /\ r.kind # wf[w].kind
    /\ UNCHANGED <<row, best, current, parent, exp, req, happened>>

Versions(w, r) ==
    /\ wf[w].pc = "version" /\ r.pc = "experiment" /\ Keeps(r, wf[w])
    /\ parent' = [parent EXCEPT ![r.n] = IF @ = None THEN wf[w].base ELSE @]
    /\ UNCHANGED <<row, best, current, calls, exp, req, happened>>

MakesChild(w, r) ==
    /\ wf[w].pc = "experiment" /\ r.pc = "launch" /\ Keeps(r, wf[w])
    /\ exp' = [exp EXCEPT ![r.n].status = IF @ = "none" THEN "running" ELSE @]
    /\ UNCHANGED <<row, progress, req, happened>>

LaunchesChild(w, r) ==
    /\ wf[w].pc = "launch" /\ r.pc = "poll" /\ r.n = wf[w].n /\ r.snap = best /\ ~r.linked /\ ~r.resume
    /\ \/ wf[w].resume /\ exp' = Resumed(exp, {r.n}) /\ UNCHANGED happened
       \/ ~wf[w].resume /\ StartChild(r.n)
    /\ UNCHANGED <<row, progress, req>>

\* A wait that is over, and what it found of the child.
Leaves(w, r, found) ==
    IF wf[w].n = 0
    THEN \/ found = "success" /\ r.pc = "reload"
         \/ found = "stopped" /\ r.pc = "baseStopped"
         \/ found = "failed" /\ r.pc = "final" /\ r.end = "failed"
    ELSE \/ /\ found = "success" /\ r.pc = "best" /\ r.n = wf[w].n /\ r.snap = wf[w].snap
            /\ r.score = exp[r.n].score /\ r.resume = wf[w].resume
         \/ found \in {"stopped", "failed"} /\ r.pc = "top" /\ r.n = wf[w].n + 1 /\ r.resume = wf[w].resume

Polls(w, r) ==
    /\ wf[w].pc = "poll"
    /\ \/ ~Running(wf[w].n) /\ Leaves(w, r, exp[wf[w].n].status) /\ UNCHANGED happened
       \/ Running(wf[w].n) /\ r.pc = "parent" /\ Keeps(r, wf[w]) /\ UNCHANGED happened
       \/ Leaves(w, r, "failed") /\ happened' = happened \cup {"timeout"}
    /\ UNCHANGED <<row, progress, exp, req>>

PollsParent(w, r) ==
    /\ wf[w].pc = "parent"
    /\ exp' = IF PassesOn(w) THEN Stopped(exp, {wf[w].n}) ELSE exp
    /\ \/ status # "running" /\ Leaves(w, r, "stopped")
       \/ /\ status = "running" /\ r.pc = "poll"
          /\ r.n = wf[w].n /\ r.snap = wf[w].snap /\ r.linked = (wf[w].linked \/ PassesOn(w))
          /\ r.resume = wf[w].resume
    /\ UNCHANGED <<row, progress, req, happened>>

FindsBest(w, r) ==
    /\ wf[w].pc = "best" /\ r.pc = "current" /\ Keeps(r, wf[w])
    /\ best' = IF wf[w].score > exp[wf[w].snap].score THEN wf[w].n ELSE best
    /\ UNCHANGED <<row, current, parent, calls, exp, req, happened>>

EndsRound(w, r) ==
    /\ wf[w].pc = "current"
    /\ current' = wf[w].n
    /\ \/ r.pc = "final" /\ r.end = "goals_met" /\ (wf[w].score >= Goal \/ MeetsGoal(wf[w].snap))
       \/ r.pc = "history" /\ r.n = wf[w].n /\ r.resume = wf[w].resume /\ ~(wf[w].score >= Goal \/ MeetsGoal(wf[w].snap))
    /\ UNCHANGED <<row, best, parent, calls, exp, req, happened>>

ReadsHistory(w, r) ==
    /\ wf[w].pc = "history"
    /\ \/ r.pc = "final" /\ r.end = "no_improvement"
       \/ r.pc = "top" /\ r.n = wf[w].n + 1 /\ r.resume = wf[w].resume
    /\ UNCHANGED <<row, progress, exp, req, happened>>

Finishes(w, r) ==
    /\ wf[w].pc = "final" /\ r.pc = "done"
    /\ \/ /\ status = "running" /\ control' = "none"
          /\ status' = FinalStatus(wf[w].end) /\ objective' = FinalObjective(wf[w].end)
       \/ status # "running" /\ UNCHANGED <<status, objective, control>>
    /\ UNCHANGED <<mode, wfId, progress, exp, req, happened>>

Turn(w, r) ==
    /\ Step(w, r)
    /\ \/ Fails(w, r) \/ Loads(w, r) \/ Marks(w, r) \/ MakesFirst(w, r) \/ FindsBase(w, r)
       \/ LaunchesBase(w, r) \/ ReadsControl(w, r) \/ ResumesBase(w, r) \/ Clears(w, r)
       \/ Reloads(w, r) \/ Checks(w, r) \/ Tops(w, r) \/ Prepares(w, r) \/ Calls(w, r)
       \/ Versions(w, r) \/ MakesChild(w, r) \/ LaunchesChild(w, r) \/ Polls(w, r)
       \/ PollsParent(w, r) \/ FindsBest(w, r) \/ EndsRound(w, r) \/ ReadsHistory(w, r)
       \/ Finishes(w, r)

LEMMA Planning ==
  ASSUME TypeOK, NEW l \in WorkflowType, NEW pc \in WorkflowPcs
  PROVE  LET r == [Loaded(l) EXCEPT !.pc = pc] IN
         r \in WorkflowType /\ r.pc = pc /\ r.end = l.end /\ r.linked = l.linked /\ PlanFits(r)
<1> DEFINE I == Interrupted  F == {0} \cup Finished
           n == IF I # {} THEN Min(I) ELSE 1 + Max(F)
           r == [Loaded(l) EXCEPT !.pc = pc]
<1>1. I \in SUBSET Nat /\ I \subseteq Rounds /\ F \in SUBSET (0..MaxRounds) /\ F # {} /\ 0 \notin I
  BY Constants DEF Interrupted, Finished, Rounds
<1>2. I # {} => Min(I) \in I /\ \A i \in I : Min(I) <= i
  BY <1>1, MinIsLeast
<1>3. Max(F) \in F /\ \A i \in F : i <= Max(F)
  BY <1>1, MaxIsGreatest, Constants
<1>4. /\ n \in 0..(MaxRounds + 1) /\ n # 0
      /\ I # {} => n \in I /\ \A m \in I : n <= m
      /\ I = {} => (n = 1 \/ n - 1 \in Finished) /\ \A m \in Finished : m < n
  <2>1. CASE I # {}
    <3>1. n = Min(I)
      BY <2>1
    <3>2. n \in I /\ \A m \in I : n <= m
      BY <2>1, <3>1, <1>2
    <3>3. n \in Rounds
      BY <3>2, <1>1
    <3> HIDE DEF n, I
    <3> QED BY <2>1, <3>2, <3>3, Constants DEF Rounds
  <2>2. CASE I = {}
    <3>1. n = 1 + Max(F) /\ Max(F) \in 0..MaxRounds
      BY <2>2, <1>1, <1>3
    <3>2. n = 1 \/ n - 1 \in Finished
      BY <3>1, <1>3, Constants
    <3>3. \A m \in Finished : m < n
      BY <3>1, <1>1, <1>3, Constants
    <3> HIDE DEF n, I, F
    <3> QED BY <2>2, <3>1, <3>2, <3>3, Constants
  <2> QED BY <2>1, <2>2
<1>5. Loaded(l) = [l EXCEPT !.n = n, !.resume = (I # {}), !.snap = best]
  BY DEF Loaded
<1>6. best \in Experiments
  BY DEF TypeOK
<1> HIDE DEF n, F
<1>7. /\ r \in WorkflowType /\ r.pc = pc /\ r.end = l.end /\ r.linked = l.linked
      /\ r.n = n /\ r.resume = (I # {}) /\ r.snap = best
  BY <1>4, <1>5, <1>6 DEF WorkflowType
<1> HIDE DEF r
<1>8. PlanFits(r)
  BY <1>7, <1>4 DEF PlanFits
<1> QED BY <1>7, <1>8 DEF r

Results == {"failed", "cancelled", "stopped", "goals_met", "max_rounds", "no_improvement"}

LEMMA InitialLocals ==
  /\ NewWorkflow \in WorkflowType
  /\ \A l, k : k \in Results =>
        End(l, k) \in WorkflowType /\ End(l, k).pc = "final" /\ End(l, k).end = k /\ Fit(End(l, k))
  /\ Ended \in WorkflowType /\ Ended.pc = "done" /\ Fit(Ended)
<1>1. NewWorkflow \in WorkflowType
  BY Constants DEF NewWorkflow, WorkflowType, WorkflowPcs, Kinds, Experiments
<1>2. ASSUME NEW l, NEW k \in Results
      PROVE  /\ End(l, k) \in WorkflowType /\ End(l, k).pc = "final" /\ End(l, k).end = k
             /\ End(l, k).n = 0 /\ ~End(l, k).linked
  BY <1>1 DEF NewWorkflow, End, WorkflowType, WorkflowPcs, Results
<1>3. Ended \in WorkflowType /\ Ended.pc = "done" /\ Ended.n = 0 /\ Ended.end = "none"
  BY <1>1 DEF NewWorkflow, Ended, WorkflowType, WorkflowPcs
<1>4. ASSUME NEW l, NEW k \in Results PROVE Fit(End(l, k))
  BY <1>2 DEF Fit, Opening, Planned, InRound, Waiting, Results
<1>5. Fit(Ended)
  BY <1>3 DEF Fit, Opening, Planned, InRound, Waiting
<1> QED BY <1>1, <1>2, <1>3, <1>4, <1>5

\* The base of a round is a version that exists.
LEMMA BaseTyped ==
  ASSUME TypeOK, NEW n \in Rounds
  PROVE  BaseVersion(n) \in Experiments
<1>1. CASE Regressed(n)
  <2>1. n - 1 \in Experiments /\ parent[n - 1] # None
    BY <1>1, Constants DEF Regressed, Rounds, Experiments
  <2>2. parent[n - 1] \in Experiments
    BY <2>1 DEF TypeOK
  <2> QED BY <1>1, <2>2 DEF BaseVersion
<1>2. CASE ~Regressed(n)
  BY <1>2 DEF BaseVersion, TypeOK
<1> QED BY <1>1, <1>2

LEMMA Calling ==
  ASSUME NEW l \in WorkflowType, NEW K \in SUBSET Kinds
  PROVE  LET r == NextCall(l, K) IN
         /\ r \in WorkflowType /\ r.pc \in {"call", "version"} /\ r.end = l.end
         /\ Keeps(r, l) /\ r.base = l.base
         /\ r.pc = "call" => r.kind \in K /\ ~Answered(l.n, r.kind)
<1> DEFINE open == {k \in K : ~Answered(l.n, k)}
           r == NextCall(l, K)
<1>1. CASE open = {}
  <2>1. r = [l EXCEPT !.pc = "version", !.kind = NewWorkflow.kind]
    BY <1>1 DEF NextCall
  <2>2. r \in WorkflowType
    BY <2>1 DEF WorkflowType, WorkflowPcs, NewWorkflow, Kinds
  <2>3. r.pc = "version" /\ r.end = l.end /\ Keeps(r, l) /\ r.base = l.base
    BY <2>1 DEF WorkflowType, Keeps
  <2> QED BY <2>2, <2>3
<1>2. CASE open = {"optimization_generate"}
  <2>1. r = [l EXCEPT !.pc = "call", !.kind = "optimization_generate"]
    BY <1>2 DEF NextCall
  <2>2. "optimization_generate" \in K /\ ~Answered(l.n, "optimization_generate")
    BY <1>2
  <2>3. r \in WorkflowType
    BY <2>1 DEF WorkflowType, WorkflowPcs, Kinds
  <2>4. r.pc = "call" /\ r.kind = "optimization_generate" /\ r.end = l.end /\ Keeps(r, l) /\ r.base = l.base
    BY <2>1 DEF WorkflowType, Keeps
  <2> QED BY <2>2, <2>3, <2>4
<1>3. CASE open # {} /\ open # {"optimization_generate"}
  <2>1. r = [l EXCEPT !.pc = "call", !.kind = "optimization_analysis"]
    BY <1>3 DEF NextCall
  <2>2. "optimization_analysis" \in K /\ ~Answered(l.n, "optimization_analysis")
    BY <1>3 DEF Kinds
  <2>3. r \in WorkflowType
    BY <2>1 DEF WorkflowType, WorkflowPcs, Kinds
  <2>4. r.pc = "call" /\ r.kind = "optimization_analysis" /\ r.end = l.end /\ Keeps(r, l) /\ r.base = l.base
    BY <2>1 DEF WorkflowType, Keeps
  <2> QED BY <2>2, <2>3, <2>4
<1> QED BY <1>1, <1>2, <1>3

LEMMA Leaving ==
  ASSUME TypeOK, NEW w \in Workflows, NEW l \in WorkflowType, l.n = wf[w].n, l.n \in Experiments,
         l.snap = wf[w].snap, l.resume = wf[w].resume, l.end = "none",
         NEW found \in {"success", "stopped", "failed"}
  PROVE  /\ Outcome(l, found) \in WorkflowType
         /\ Fit(Outcome(l, found))
         /\ Leaves(w, Outcome(l, found), found)
<1>0. exp[l.n].score \in Scores
  BY DEF TypeOK, ExperimentType
<1>1. CASE l.n = 0
  <2>1. CASE found = "failed"
    <3>1. Outcome(l, found) = End(l, "failed")
      BY <1>1, <2>1 DEF Outcome
    <3> QED BY <3>1, <2>1, <1>1, InitialLocals DEF Leaves, Results
  <2>2. CASE found # "failed"
    <3>1. PICK r : r = [l EXCEPT !.pc = IF found = "success" THEN "reload" ELSE "baseStopped"]
      OBVIOUS
    <3>2. Outcome(l, found) = r
      BY <1>1, <2>2, <3>1 DEF Outcome
    <3>3. /\ r \in WorkflowType /\ r.n = 0 /\ r.end = "none"
          /\ r.pc = IF found = "success" THEN "reload" ELSE "baseStopped"
      BY <3>1, <1>1 DEF WorkflowType, WorkflowPcs
    <3> QED BY <3>2, <3>3, <2>2, <1>1 DEF Leaves, Fit, Opening, Planned, InRound, Waiting
  <2> QED BY <2>1, <2>2
<1>2. CASE l.n # 0
  <2>1. l.n \in Rounds
    BY <1>2, Constants
  <2>2. CASE found = "success"
    <3>1. PICK r : r = [l EXCEPT !.pc = "best", !.score = exp[l.n].score, !.linked = FALSE]
      OBVIOUS
    <3>2. Outcome(l, found) = r
      BY <1>2, <2>2, <3>1 DEF Outcome
    <3>3. /\ r \in WorkflowType /\ r.n = l.n /\ r.end = "none" /\ r.pc = "best" /\ r.snap = l.snap /\ r.resume = l.resume
          /\ r.score = exp[l.n].score
      BY <3>1, <1>0 DEF WorkflowType, WorkflowPcs
    <3> QED BY <3>2, <3>3, <2>1, <2>2, <1>2 DEF Leaves, Fit, Opening, Planned, InRound, Waiting
  <2>3. CASE found # "success"
    <3>1. PICK r : r = [l EXCEPT !.pc = "top", !.n = l.n + 1, !.snap = 0]
      OBVIOUS
    <3>2. Outcome(l, found) = r
      BY <1>2, <2>3, <3>1 DEF Outcome
    <3>3. l.n + 1 \in 0..(MaxRounds + 1) /\ l.n + 1 # 0
      BY <2>1, Constants DEF Rounds
    <3>4. r \in WorkflowType /\ r.n = l.n + 1 /\ r.end = "none" /\ r.pc = "top" /\ r.resume = l.resume
      BY <3>1, <3>3, Constants DEF WorkflowType, WorkflowPcs
    <3> QED BY <3>2, <3>3, <3>4, <2>3, <1>2 DEF Leaves, Fit, Opening, Planned, InRound, Waiting
  <2> QED BY <2>2, <2>3
<1> QED BY <1>1, <1>2

-----------------------------------------------------------------------------
(* Every step of a workflow is one of these turns.                          *)

Fits == \A w \in Workflows : Fit(wf[w])

\* Who waits for a child, or starts it, has made it.
Made == \A w \in Workflows :
    wf[w].pc \in {"launchBase", "baseControl", "baseResume", "baseClear", "launch", "poll", "parent"} =>
       exp[wf[w].n].status # "none"

\* The parts of a configuration of workflow w that its steps start from.
LEMMA Here ==
  ASSUME TypeOK, Fits, NEW w \in Workflows
  PROVE  /\ wf[w] \in WorkflowType /\ Fit(wf[w])
         /\ \A pc \in WorkflowPcs : Goto(w, pc) <=> Locals(w, [wf[w] EXCEPT !.pc = pc])
BY DEF TypeOK, Fits, Goto

LEMMA WorkflowErrorTurns ==
  ASSUME TypeOK, Fits, NEW w \in Workflows, WorkflowError(w)
  PROVE  \E r \in WorkflowType : Turn(w, r)
<1> DEFINE r == End(wf[w], "failed")
<1>1. r \in WorkflowType /\ r.pc = "final" /\ r.end = "failed" /\ Fit(r)
  BY InitialLocals DEF Results
<1>2. Locals(w, r) /\ Live(w)
  BY DEF WorkflowError
<1> HIDE DEF r
<1>3. Step(w, r)
  BY <1>1, <1>2 DEF Step
<1>4. Fails(w, r)
  BY <1>1 DEF WorkflowError, Fault, Fails
<1> QED BY <1>1, <1>3, <1>4 DEF Turn

LEMMA LoadConfigTurns ==
  ASSUME TypeOK, Fits, NEW w \in Workflows, LoadConfig(w) \/ ReloadConfig(w)
  PROVE  \E r \in WorkflowType : Turn(w, r)
<1>1. wf[w] \in WorkflowType /\ Fit(wf[w])
  BY Here
<1>2. wf[w].pc \in {"load", "reload"} /\ wf[w].end = "none"
  BY <1>1 DEF LoadConfig, ReloadConfig, InStep, Fit
<1> DEFINE pc == IF wf[w].pc = "load" THEN "mark" ELSE "check"
           r == [Loaded(wf[w]) EXCEPT !.pc = pc]
<1>3. pc \in WorkflowPcs
  BY DEF WorkflowPcs
<1>4. r \in WorkflowType /\ r.pc = pc /\ r.end = "none" /\ PlanFits(r)
  BY <1>1, <1>2, <1>3, Planning
<1>5. Locals(w, r) /\ Live(w)
  BY <1>2 DEF LoadConfig, ReloadConfig, InStep, Live
<1> HIDE DEF r
<1>6. Fit(r)
  BY <1>4 DEF Fit, PlanFits, Opening, Planned, InRound, Waiting
<1>7. Step(w, r)
  BY <1>4, <1>5, <1>6 DEF Step
<1>8. Loads(w, r) \/ Reloads(w, r)
  BY <1>4 DEF LoadConfig, ReloadConfig, InStep, Loads, Reloads
<1> QED BY <1>4, <1>7, <1>8 DEF Turn

LEMMA MarkStartedTurns ==
  ASSUME TypeOK, Fits, NEW w \in Workflows, MarkStarted(w)
  PROVE  \E r \in WorkflowType : Turn(w, r)
<1>1. wf[w] \in WorkflowType /\ Fit(wf[w]) /\ wf[w].pc = "mark"
  BY Here DEF MarkStarted, InStep
<1>2. PICK pc \in {"first", "base"} : Locals(w, [wf[w] EXCEPT !.pc = pc])
  BY DEF MarkStarted, Goto
<1>3. PICK r : r = [wf[w] EXCEPT !.pc = pc]
  OBVIOUS
<1>4. r \in WorkflowType /\ r.pc = pc /\ Keeps(r, wf[w]) /\ r.end = "none" /\ r.n # 0
  BY <1>1, <1>3 DEF WorkflowType, WorkflowPcs, Keeps, Fit, Planned
<1>5. Step(w, r)
  BY <1>1, <1>2, <1>3, <1>4 DEF Step, Live, Fit, Opening, Planned, InRound, Waiting
<1>6. Marks(w, r)
  BY <1>1, <1>4 DEF MarkStarted, Marks
<1> QED BY <1>4, <1>5, <1>6 DEF Turn

LEMMA FirstVersionTurns ==
  ASSUME TypeOK, Fits, NEW w \in Workflows, FirstVersion(w)
  PROVE  \E r \in WorkflowType : Turn(w, r)
<1>1. wf[w] \in WorkflowType /\ Fit(wf[w]) /\ wf[w].pc = "first" /\ wf[w].end = "none" /\ Live(w)
  BY Here DEF FirstVersion, InStep, Fit, Live
<1>2. CASE /\ parent' = [parent EXCEPT ![0] = 0]
           /\ Locals(w, [Loaded(wf[w]) EXCEPT !.pc = "base"])
           /\ UNCHANGED happened
  <2>1. PICK r : r = [Loaded(wf[w]) EXCEPT !.pc = "base"]
    OBVIOUS
  <2>0. "base" \in WorkflowPcs
    BY DEF WorkflowPcs
  <2>2. r \in WorkflowType /\ r.pc = "base" /\ r.end = "none" /\ PlanFits(r)
    BY <1>1, <2>0, <2>1, Planning
  <2>3. Step(w, r)
    BY <1>1, <1>2, <2>1, <2>2 DEF Step, Fit, PlanFits, Opening, Planned, InRound, Waiting
  <2>4. MakesFirst(w, r)
    BY <1>1, <1>2, <2>2 DEF FirstVersion, MakesFirst
  <2> QED BY <2>2, <2>3, <2>4 DEF Turn
<1>3. CASE /\ Fault("llm")
           /\ Locals(w, End(wf[w], "failed"))
           /\ UNCHANGED parent
  <2>1. PICK r : r = End(wf[w], "failed")
    OBVIOUS
  <2>2. r \in WorkflowType /\ r.pc = "final" /\ r.end = "failed" /\ Fit(r)
    BY <2>1, InitialLocals DEF Results
  <2>3. Step(w, r)
    BY <1>1, <1>3, <2>1, <2>2 DEF Step
  <2>4. Fails(w, r)
    BY <1>1, <1>3, <2>2 DEF FirstVersion, Fault, Fails, progress
  <2> QED BY <2>2, <2>3, <2>4 DEF Turn
<1> QED BY <1>2, <1>3 DEF FirstVersion

LEMMA PrepareBaselineTurns ==
  ASSUME TypeOK, Fits, NEW w \in Workflows, PrepareBaseline(w)
  PROVE  \E r \in WorkflowType : Turn(w, r)
<1>1. wf[w] \in WorkflowType /\ Fit(wf[w]) /\ wf[w].pc = "base" /\ wf[w].end = "none" /\ Live(w) /\ wf[w].n # 0
  BY Here DEF PrepareBaseline, InStep, Fit, Live, Planned
<1>2. CASE mode = "from_experiment" /\ Goto(w, "check") /\ UNCHANGED exp
  <2>1. PICK r : r = [wf[w] EXCEPT !.pc = "check"]
    OBVIOUS
  <2>2. r \in WorkflowType /\ r.pc = "check" /\ r.end = "none" /\ r.n # 0 /\ Keeps(r, wf[w])
    BY <1>1, <2>1 DEF WorkflowType, WorkflowPcs, Keeps
  <2>3. Step(w, r)
    BY <1>1, <1>2, <2>1, <2>2 DEF Step, Goto, Fit, Opening, Planned, InRound, Waiting
  <2>4. FindsBase(w, r)
    BY <1>1, <1>2, <2>2 DEF PrepareBaseline, FindsBase
  <2> QED BY <2>2, <2>3, <2>4 DEF Turn
<1>0. 0 \in 0..(MaxRounds + 1)
  BY Constants
<1>3. CASE mode # "from_experiment" /\ exp[0].status = "failed" /\ Locals(w, End(wf[w], "failed"))
           /\ UNCHANGED exp
  <2>1. PICK r : r = End(wf[w], "failed")
    OBVIOUS
  <2>2. r \in WorkflowType /\ r.pc = "final" /\ r.end = "failed" /\ Fit(r)
    BY <2>1, InitialLocals DEF Results
  <2>3. Step(w, r)
    BY <1>1, <1>3, <2>1, <2>2 DEF Step
  <2>5. UNCHANGED <<row, progress, req, happened>>
    BY DEF PrepareBaseline
  <2>4. FindsBase(w, r)
    <3>1. r.n = 0 /\ ~r.linked
      BY <2>1 DEF End, NewWorkflow
    <3> QED BY <1>1, <1>3, <2>2, <2>5, <3>1 DEF FindsBase
  <2> QED BY <2>2, <2>3, <2>4 DEF Turn
<1>4. ASSUME mode # "from_experiment", NEW pc \in {"launchBase", "poll", "baseControl"},
             Locals(w, [wf[w] EXCEPT !.pc = pc, !.n = 0, !.linked = FALSE]),
             \/ pc = "launchBase" /\ exp[0].status = "none" /\ exp' = [exp EXCEPT ![0].status = "running"]
             \/ pc = "poll" /\ exp[0].status \in {"success", "running"} /\ UNCHANGED exp
             \/ pc = "baseControl" /\ exp[0].status = "stopped" /\ UNCHANGED exp
      PROVE  \E r \in WorkflowType : Turn(w, r)
  <2>0. pc \in WorkflowPcs
    BY <1>4 DEF WorkflowPcs
  <2>1. PICK r : r = [wf[w] EXCEPT !.pc = pc, !.n = 0, !.linked = FALSE]
    OBVIOUS
  <2>2. /\ r \in WorkflowType /\ r.pc = pc /\ r.end = "none" /\ r.n = 0 /\ ~r.linked
        /\ r.resume = wf[w].resume
    BY <1>0, <1>1, <2>1, <2>0 DEF WorkflowType
  <2>3. Step(w, r)
    BY <1>1, <1>4, <2>1, <2>2, Constants DEF Step, Fit, Opening, Planned, InRound, Waiting
  <2>5. UNCHANGED <<row, progress, req, happened>>
    BY DEF PrepareBaseline
  <2>4. FindsBase(w, r)
    <3>1. CASE pc = "launchBase"
      BY <1>1, <1>4, <2>2, <2>5, <3>1 DEF FindsBase
    <3>2. CASE pc = "poll"
      BY <1>1, <1>4, <2>2, <2>5, <3>2 DEF FindsBase
    <3>3. CASE pc = "baseControl"
      BY <1>1, <1>4, <2>2, <2>5, <3>3 DEF FindsBase
    <3> QED BY <1>4, <3>1, <3>2, <3>3
  <2> QED BY <2>2, <2>3, <2>4 DEF Turn
<1> QED BY <1>2, <1>3, <1>4 DEF PrepareBaseline

LEMMA LaunchBaselineTurns ==
  ASSUME TypeOK, Fits, Made, NEW w \in Workflows, LaunchBaseline(w)
  PROVE  \E r \in WorkflowType : Turn(w, r)
<1>1. /\ wf[w] \in WorkflowType /\ Fit(wf[w]) /\ wf[w].pc = "launchBase" /\ wf[w].end = "none" /\ Live(w)
      /\ wf[w].n = 0 /\ ~wf[w].linked
  BY Here DEF LaunchBaseline, InStep, Fit, Live, Opening
<1>2. CASE Running(0)'
  <2>1. PICK r : r = [wf[w] EXCEPT !.pc = "poll"]
    OBVIOUS
  <2>2. r \in WorkflowType /\ r.pc = "poll" /\ r.end = "none" /\ r.n = 0 /\ ~r.linked
    BY <1>1, <2>1 DEF WorkflowType, WorkflowPcs
  <2>3. Step(w, r)
    BY <1>1, <1>2, <2>1, <2>2, Constants DEF LaunchBaseline, Step, Fit, Opening, Planned, InRound, Waiting
  <2>4. LaunchesBase(w, r)
    BY <1>1, <1>2, <2>2 DEF LaunchBaseline, LaunchesBase, Running
  <2> QED BY <2>2, <2>3, <2>4 DEF Turn
<1>3. CASE ~Running(0)'
  <2>1. PICK r : r = End(wf[w], "failed")
    OBVIOUS
  <2>2. r \in WorkflowType /\ r.pc = "final" /\ r.end = "failed" /\ Fit(r) /\ ~r.linked
    BY <2>1, InitialLocals DEF Results, End, NewWorkflow
  <2>3. Step(w, r)
    BY <1>1, <1>3, <2>1, <2>2 DEF LaunchBaseline, Step
  <2>4. LaunchesBase(w, r)
    BY <1>1, <1>3, <2>2 DEF LaunchBaseline, LaunchesBase, Running
  <2> QED BY <2>2, <2>3, <2>4 DEF Turn
<1> QED BY <1>2, <1>3

LEMMA BaselineControlTurns ==
  ASSUME TypeOK, Fits, NEW w \in Workflows, ReadBaselineControl(w) \/ BaselineStopped(w)
  PROVE  \E r \in WorkflowType : Turn(w, r)
<1>1. /\ wf[w] \in WorkflowType /\ Fit(wf[w]) /\ wf[w].pc \in {"baseControl", "baseStopped"}
      /\ wf[w].end = "none" /\ Live(w) /\ wf[w].n = 0 /\ (wf[w].pc = "baseControl" => ~wf[w].linked)
  BY Here DEF ReadBaselineControl, BaselineStopped, InStep, Fit, Live, Opening
<1>2. CASE wf[w].pc = "baseControl" /\ control = "resume"
  <2>1. PICK r : r = [wf[w] EXCEPT !.pc = "baseResume"]
    OBVIOUS
  <2>2. r \in WorkflowType /\ r.pc = "baseResume" /\ r.end = "none" /\ r.n = 0 /\ ~r.linked
    BY <1>1, <1>2, <2>1 DEF WorkflowType, WorkflowPcs
  <2>3. Locals(w, r)
    BY <1>2, <2>1 DEF ReadBaselineControl, BaselineStopped, InStep
  <2>4. Step(w, r)
    BY <1>1, <2>2, <2>3 DEF Step, Fit, Opening, Planned, InRound, Waiting
  <2>5. ReadsControl(w, r)
    BY <1>2, <2>2 DEF ReadBaselineControl, BaselineStopped, ReadsControl
  <2> QED BY <2>2, <2>4, <2>5 DEF Turn
<1>3. CASE ~(wf[w].pc = "baseControl" /\ control = "resume")
  <2>1. PICK r : r = End(wf[w], IF control = "cancel" THEN "cancelled" ELSE "stopped")
    OBVIOUS
  <2>2. /\ r \in WorkflowType /\ r.pc = "final" /\ Fit(r)
        /\ r.end = IF control = "cancel" THEN "cancelled" ELSE "stopped"
    BY <2>1, InitialLocals DEF Results
  <2>3. Locals(w, r)
    BY <1>3, <2>1 DEF ReadBaselineControl, BaselineStopped, InStep
  <2>4. Step(w, r)
    BY <1>1, <2>2, <2>3 DEF Step
  <2>5. ReadsControl(w, r)
    BY <1>1, <2>2 DEF ReadBaselineControl, BaselineStopped, ReadsControl
  <2> QED BY <2>2, <2>4, <2>5 DEF Turn
<1> QED BY <1>2, <1>3

LEMMA ResumeBaselineTurns ==
  ASSUME TypeOK, Fits, NEW w \in Workflows, ResumeBaseline(w)
  PROVE  \E r \in WorkflowType : Turn(w, r)
<1>1. /\ wf[w] \in WorkflowType /\ Fit(wf[w]) /\ wf[w].pc = "baseResume" /\ wf[w].end = "none" /\ Live(w)
      /\ wf[w].n = 0 /\ ~wf[w].linked
  BY Here DEF ResumeBaseline, InStep, Fit, Live, Opening
<1>2. PICK r : r = [wf[w] EXCEPT !.pc = "baseClear"]
  OBVIOUS
<1>3. r \in WorkflowType /\ r.pc = "baseClear" /\ r.end = "none" /\ r.n = 0 /\ ~r.linked
  BY <1>1, <1>2 DEF WorkflowType, WorkflowPcs
<1>4. Step(w, r)
  BY <1>1, <1>2, <1>3 DEF ResumeBaseline, Goto, Step, Fit, Opening, Planned, InRound, Waiting
<1>5. ResumesBase(w, r)
  BY <1>1, <1>3 DEF ResumeBaseline, ResumesBase
<1> QED BY <1>3, <1>4, <1>5 DEF Turn

LEMMA CheckGoalsTurns ==
  ASSUME TypeOK, Fits, NEW w \in Workflows, CheckGoals(w)
  PROVE  \E r \in WorkflowType : Turn(w, r)
<1>1. wf[w] \in WorkflowType /\ Fit(wf[w]) /\ wf[w].pc = "check" /\ wf[w].end = "none" /\ Live(w) /\ wf[w].n # 0
  BY Here DEF CheckGoals, InStep, Fit, Live, Planned
<1>2. CASE MeetsGoal(wf[w].snap)
  <2>1. PICK r : r = End(wf[w], "goals_met")
    OBVIOUS
  <2>2. r \in WorkflowType /\ r.pc = "final" /\ r.end = "goals_met" /\ Fit(r)
    BY <2>1, InitialLocals DEF Results
  <2>3. Step(w, r)
    BY <1>1, <1>2, <2>1, <2>2 DEF CheckGoals, Step
  <2>4. Checks(w, r)
    BY <1>1, <1>2, <2>2 DEF CheckGoals, Checks
  <2> QED BY <2>2, <2>3, <2>4 DEF Turn
<1>3. CASE ~MeetsGoal(wf[w].snap)
  <2>1. PICK r : r = [wf[w] EXCEPT !.pc = "top", !.snap = 0]
    OBVIOUS
  <2>2. r \in WorkflowType /\ r.pc = "top" /\ r.end = "none" /\ r.n = wf[w].n /\ r.resume = wf[w].resume
    BY <1>1, <2>1, Constants DEF WorkflowType, WorkflowPcs
  <2>3. Step(w, r)
    BY <1>1, <1>3, <2>1, <2>2 DEF CheckGoals, Step, Fit, Opening, Planned, InRound, Waiting
  <2>4. Checks(w, r)
    BY <1>1, <1>3, <2>2 DEF CheckGoals, Checks
  <2> QED BY <2>2, <2>3, <2>4 DEF Turn
<1> QED BY <1>2, <1>3

LEMMA NextRoundTurns ==
  ASSUME TypeOK, Fits, NEW w \in Workflows, NextRound(w)
  PROVE  \E r \in WorkflowType : Turn(w, r)
<1>1. /\ wf[w] \in WorkflowType /\ Fit(wf[w]) /\ wf[w].pc = "top" /\ wf[w].end = "none" /\ Live(w)
      /\ wf[w].n # 0 /\ wf[w].n \in 0..(MaxRounds + 1)
  BY Here DEF NextRound, InStep, Fit, Live, Planned, WorkflowType
<1>2. UNCHANGED <<row, progress, exp, req, happened>>
  BY DEF NextRound
<1>3. ASSUME NEW k \in Results, Locals(w, End(wf[w], k)),
             \/ k = "max_rounds" /\ wf[w].n > MaxRounds
             \/ k = "cancelled" /\ status = "running" /\ control = "cancel"
             \/ k = "stopped" /\ status = "running" /\ control = "stop"
      PROVE  \E r \in WorkflowType : Turn(w, r)
  <2>1. PICK r : r = End(wf[w], k)
    OBVIOUS
  <2>2. r \in WorkflowType /\ r.pc = "final" /\ r.end = k /\ Fit(r)
    BY <2>1, InitialLocals
  <2>3. Step(w, r)
    BY <1>1, <1>3, <2>1, <2>2 DEF Step
  <2>4. Tops(w, r)
    BY <1>1, <1>2, <1>3, <2>2 DEF Tops
  <2> QED BY <2>2, <2>3, <2>4 DEF Turn
<1>4. CASE wf[w].n > MaxRounds
  <2>1. Locals(w, End(wf[w], "max_rounds"))
    BY <1>1, <1>4, Constants DEF NextRound
  <2> QED BY <1>3, <1>4, <2>1 DEF Results
<1>5. CASE wf[w].n <= MaxRounds /\ status # "running"
  <2>1. Locals(w, Ended)
    BY <1>1, <1>5, Constants DEF NextRound
  <2>2. Step(w, Ended)
    BY <1>1, <2>1, InitialLocals DEF Step
  <2>3. Tops(w, Ended)
    BY <1>1, <1>2, <1>5, InitialLocals DEF Tops
  <2> QED BY <2>2, <2>3, InitialLocals DEF Turn
<1>6. CASE wf[w].n <= MaxRounds /\ status = "running" /\ control \in {"stop", "cancel"}
  <2>1. CASE control = "stop"
    <3>1. Locals(w, End(wf[w], "stopped"))
      BY <1>1, <1>6, <2>1, Constants DEF NextRound
    <3> QED BY <1>3, <1>6, <2>1, <3>1 DEF Results
  <2>2. CASE control = "cancel"
    <3>1. Locals(w, End(wf[w], "cancelled"))
      BY <1>1, <1>6, <2>2, Constants DEF NextRound
    <3> QED BY <1>3, <1>6, <2>2, <3>1 DEF Results
  <2> QED BY <1>6, <2>1, <2>2
<1>7. CASE wf[w].n <= MaxRounds /\ status = "running" /\ control \notin {"stop", "cancel"}
  <2>1. PICK r : r = [wf[w] EXCEPT !.pc = IF control = "resume" THEN "clear" ELSE "prepare"]
    OBVIOUS
  <2>2. Locals(w, r)
    BY <1>1, <1>7, <2>1, Constants DEF NextRound
  <2>3. wf[w].n \in Rounds
    BY <1>1, <1>7, Constants DEF Rounds
  <2>4. r \in WorkflowType /\ r.pc \in {"clear", "prepare"} /\ r.end = "none" /\ r.n \in Rounds /\ Keeps(r, wf[w])
    BY <1>1, <2>1, <2>3 DEF WorkflowType, WorkflowPcs, Keeps
  <2>5. Step(w, r)
    BY <1>1, <2>2, <2>4 DEF Step, Fit, Opening, Planned, InRound, Waiting
  <2>6. Tops(w, r)
    BY <1>1, <1>2, <1>7, <2>4 DEF Tops
  <2> QED BY <2>4, <2>5, <2>6 DEF Turn
<1> QED BY <1>1, <1>4, <1>5, <1>6, <1>7, Constants

LEMMA ClearResumeTurns ==
  ASSUME TypeOK, Fits, NEW w \in Workflows, ClearResume(w)
  PROVE  \E r \in WorkflowType : Turn(w, r)
<1>1. /\ wf[w] \in WorkflowType /\ Fit(wf[w]) /\ wf[w].pc \in {"clear", "baseClear"} /\ wf[w].end = "none"
      /\ Live(w)
  BY Here DEF ClearResume, Fit, Live
<1>2. PICK pc : pc = IF wf[w].pc = "clear" THEN "prepare" ELSE "poll"
  OBVIOUS
<1>3. PICK r : r = [wf[w] EXCEPT !.pc = pc]
  OBVIOUS
<1>4. Locals(w, r)
  BY <1>2, <1>3 DEF ClearResume, Goto
<1>5. r \in WorkflowType /\ r.pc = pc /\ r.end = "none" /\ Keeps(r, wf[w])
  BY <1>1, <1>2, <1>3 DEF WorkflowType, WorkflowPcs, Keeps
<1>6. Fit(r)
  BY <1>1, <1>2, <1>5, Constants DEF Fit, Keeps, Opening, Planned, InRound, Waiting
<1>7. Step(w, r)
  BY <1>1, <1>4, <1>5, <1>6 DEF Step
<1>8. Clears(w, r)
  BY <1>1, <1>2, <1>5 DEF ClearResume, Clears
<1> QED BY <1>5, <1>7, <1>8 DEF Turn

LEMMA PrepareRoundTurns ==
  ASSUME TypeOK, Fits, NEW w \in Workflows, PrepareRound(w)
  PROVE  \E r \in WorkflowType : Turn(w, r)
<1>1. /\ wf[w] \in WorkflowType /\ Fit(wf[w]) /\ wf[w].pc = "prepare" /\ wf[w].end = "none"
      /\ Live(w) /\ wf[w].n \in Rounds
  BY Here DEF PrepareRound, InStep, Fit, Live, InRound
<1>2. PICK l : l = [wf[w] EXCEPT !.base = BaseVersion(wf[w].n)]
  OBVIOUS
<1>3. /\ l \in WorkflowType /\ l.end = "none" /\ l.n = wf[w].n /\ Keeps(l, wf[w])
      /\ l.base = BaseVersion(wf[w].n)
  BY <1>1, <1>2, BaseTyped DEF WorkflowType, Keeps
<1>4. PICK r : r = NextCall(l, Kinds)
  OBVIOUS
<1>5. /\ r \in WorkflowType /\ r.pc \in {"call", "version"} /\ r.end = "none"
      /\ Keeps(r, l) /\ r.base = l.base
      /\ r.pc = "call" => ~Answered(l.n, r.kind)
  BY <1>3, <1>4, Calling
<1>6. Locals(w, r)
  BY <1>2, <1>4 DEF PrepareRound
<1>7. Keeps(r, wf[w]) /\ r.n = l.n
  BY <1>3, <1>5 DEF Keeps
<1>8. Step(w, r)
  BY <1>1, <1>3, <1>5, <1>6, <1>7 DEF Step, Fit, Opening, Planned, InRound, Waiting
<1>9. Prepares(w, r)
  BY <1>1, <1>3, <1>5, <1>7 DEF PrepareRound, Prepares
<1> QED BY <1>5, <1>8, <1>9 DEF Turn

LEMMA CallAnalysisModelTurns ==
  ASSUME TypeOK, Fits, NEW w \in Workflows, CallAnalysisModel(w)
  PROVE  \E r \in WorkflowType : Turn(w, r)
<1>1. /\ wf[w] \in WorkflowType /\ Fit(wf[w]) /\ wf[w].pc = "call" /\ wf[w].end = "none"
      /\ Live(w) /\ wf[w].n \in Rounds
  BY Here DEF CallAnalysisModel, InStep, Fit, Live, InRound
<1>2. CASE /\ calls' = [calls EXCEPT ![wf[w].n][wf[w].kind] = @ + 1]
           /\ Locals(w, NextCall(wf[w], {"optimization_generate"} \ {wf[w].kind}))
           /\ UNCHANGED happened
  <2>1. PICK r : r = NextCall(wf[w], {"optimization_generate"} \ {wf[w].kind})
    OBVIOUS
  <2>2. {"optimization_generate"} \ {wf[w].kind} \in SUBSET Kinds
    BY DEF Kinds
  <2>3. /\ r \in WorkflowType /\ r.pc \in {"call", "version"} /\ r.end = "none"
        /\ Keeps(r, wf[w]) /\ r.base = wf[w].base
        /\ r.pc = "call" => ~Answered(wf[w].n, r.kind) /\ r.kind # wf[w].kind
    BY <1>1, <2>1, <2>2, Calling
  <2>4. r.n = wf[w].n
    BY <2>3 DEF Keeps
  <2>5. Step(w, r)
    BY <1>1, <1>2, <2>1, <2>3, <2>4 DEF Step, Fit, Opening, Planned, InRound, Waiting
  <2>6. Calls(w, r)
    BY <1>1, <1>2, <2>3, <2>4 DEF CallAnalysisModel, Calls
  <2> QED BY <2>3, <2>5, <2>6 DEF Turn
<1>3. CASE /\ Fault("llm")
           /\ Locals(w, End(wf[w], "failed"))
           /\ UNCHANGED calls
  <2>1. PICK r : r = End(wf[w], "failed")
    OBVIOUS
  <2>2. r \in WorkflowType /\ r.pc = "final" /\ r.end = "failed" /\ Fit(r)
    BY <2>1, InitialLocals DEF Results
  <2>3. Step(w, r)
    BY <1>1, <1>3, <2>1, <2>2 DEF Step
  <2>4. Fails(w, r)
    BY <1>1, <1>3, <2>2 DEF CallAnalysisModel, Fault, Fails, progress
  <2> QED BY <2>2, <2>3, <2>4 DEF Turn
<1> QED BY <1>2, <1>3 DEF CallAnalysisModel

LEMMA CreateVersionTurns ==
  ASSUME TypeOK, Fits, NEW w \in Workflows, CreateVersion(w)
  PROVE  \E r \in WorkflowType : Turn(w, r)
<1>1. /\ wf[w] \in WorkflowType /\ Fit(wf[w]) /\ wf[w].pc = "version" /\ wf[w].end = "none"
      /\ Live(w) /\ wf[w].n \in Rounds
  BY Here DEF CreateVersion, InStep, Fit, Live, InRound
<1>2. PICK r : r = [wf[w] EXCEPT !.pc = "experiment", !.base = 0]
  OBVIOUS
<1>3. r \in WorkflowType /\ r.pc = "experiment" /\ r.end = "none" /\ r.n = wf[w].n /\ Keeps(r, wf[w])
  BY <1>1, <1>2, Constants DEF WorkflowType, WorkflowPcs, Keeps
<1>4. Step(w, r)
  BY <1>1, <1>2, <1>3 DEF CreateVersion, Step, Fit, Opening, Planned, InRound, Waiting
<1>5. Versions(w, r)
  BY <1>1, <1>3 DEF CreateVersion, Versions
<1> QED BY <1>3, <1>4, <1>5 DEF Turn

LEMMA CreateExperimentTurns ==
  ASSUME TypeOK, Fits, NEW w \in Workflows, CreateExperiment(w)
  PROVE  \E r \in WorkflowType : Turn(w, r)
<1>1. /\ wf[w] \in WorkflowType /\ Fit(wf[w]) /\ wf[w].pc = "experiment" /\ wf[w].end = "none"
      /\ Live(w) /\ wf[w].n \in Rounds
  BY Here DEF CreateExperiment, InStep, Fit, Live, InRound
<1>2. PICK r : r = [wf[w] EXCEPT !.pc = "launch"]
  OBVIOUS
<1>3. r \in WorkflowType /\ r.pc = "launch" /\ r.end = "none" /\ r.n = wf[w].n /\ Keeps(r, wf[w])
  BY <1>1, <1>2 DEF WorkflowType, WorkflowPcs, Keeps
<1>4. Step(w, r)
  BY <1>1, <1>2, <1>3 DEF CreateExperiment, Goto, Step, Fit, Opening, Planned, InRound, Waiting
<1>5. MakesChild(w, r)
  BY <1>1, <1>3 DEF CreateExperiment, MakesChild
<1> QED BY <1>3, <1>4, <1>5 DEF Turn

\* A wait starts with the best version so far.
LEMMA Awaiting ==
  ASSUME TypeOK, NEW l \in WorkflowType, l.n \in Experiments, l.end = "none"
  PROVE  /\ Await(l) \in WorkflowType /\ Fit(Await(l))
         /\ Await(l).pc = "poll" /\ Await(l).n = l.n /\ Await(l).snap = best /\ ~Await(l).linked
         /\ ~Await(l).resume /\ Await(l).end = "none"
<1>1. PICK r : r = Await(l)
  OBVIOUS
<1>2. best \in Experiments /\ 0 \in Scores
  BY Constants DEF TypeOK
<1>3. /\ r \in WorkflowType /\ r.pc = "poll" /\ r.n = l.n /\ r.snap = best /\ ~r.linked /\ r.end = "none"
      /\ ~r.resume
  BY <1>1, <1>2 DEF Await, WorkflowType, WorkflowPcs
<1>4. Fit(r)
  BY <1>3 DEF Fit, Opening, Planned, InRound, Waiting
<1> QED BY <1>1, <1>3, <1>4

LEMMA LaunchChildTurns ==
  ASSUME TypeOK, Fits, NEW w \in Workflows, LaunchChild(w)
  PROVE  \E r \in WorkflowType : Turn(w, r)
<1>1. /\ wf[w] \in WorkflowType /\ Fit(wf[w]) /\ wf[w].pc = "launch" /\ wf[w].end = "none"
      /\ Live(w) /\ wf[w].n \in Rounds /\ wf[w].n \in Experiments
  BY Here, Constants DEF LaunchChild, InStep, Fit, Live, InRound
<1>2. PICK r : r = Await(wf[w])
  OBVIOUS
<1>3. /\ r \in WorkflowType /\ r.pc = "poll" /\ r.n = wf[w].n /\ r.snap = best /\ ~r.linked /\ ~r.resume /\ Fit(r)
  BY <1>1, <1>2, Awaiting
<1>4. Step(w, r)
  BY <1>1, <1>2, <1>3 DEF LaunchChild, Step
<1>5. LaunchesChild(w, r)
  BY <1>1, <1>3 DEF LaunchChild, LaunchesChild
<1> QED BY <1>3, <1>4, <1>5 DEF Turn

LEMMA PollChildTurns ==
  ASSUME TypeOK, Fits, Made, NEW w \in Workflows, PollChild(w)
  PROVE  \E r \in WorkflowType : Turn(w, r)
<1>1. /\ wf[w] \in WorkflowType /\ Fit(wf[w]) /\ wf[w].pc = "poll" /\ wf[w].end = "none"
      /\ Live(w) /\ wf[w].n \in Experiments
  BY Here DEF PollChild, InStep, Fit, Live, Waiting
<1>2. UNCHANGED <<row, progress, exp, req>>
  BY DEF PollChild
<1>3. ASSUME NEW found \in {"success", "stopped", "failed"}, Locals(w, Outcome(wf[w], found)),
             \/ ~Running(wf[w].n) /\ found = exp[wf[w].n].status /\ UNCHANGED happened
             \/ found = "failed" /\ happened' = happened \cup {"timeout"}
      PROVE  \E r \in WorkflowType : Turn(w, r)
  <2>1. PICK r : r = Outcome(wf[w], found)
    OBVIOUS
  <2>2. r \in WorkflowType /\ Fit(r) /\ Leaves(w, r, found)
    BY <1>1, <2>1, Leaving
  <2>3. Step(w, r)
    BY <1>1, <1>3, <2>1, <2>2 DEF Step
  <2>4. Polls(w, r)
    BY <1>1, <1>2, <1>3, <2>2 DEF Polls
  <2> QED BY <2>2, <2>3, <2>4 DEF Turn
<1>4. CASE ~Running(wf[w].n) /\ Locals(w, Outcome(wf[w], exp[wf[w].n].status)) /\ UNCHANGED happened
  <2>1. exp[wf[w].n].status \in {"success", "stopped", "failed"}
    BY <1>1, <1>4 DEF Made, TypeOK, ExperimentType, Running
  <2> QED BY <1>3, <1>4, <2>1
<1>5. CASE Running(wf[w].n) /\ Fault("timeout") /\ Locals(w, Outcome(wf[w], "failed"))
  BY <1>3, <1>5 DEF Fault
<1>6. CASE Running(wf[w].n) /\ Goto(w, "parent") /\ UNCHANGED happened
  <2>1. PICK r : r = [wf[w] EXCEPT !.pc = "parent"]
    OBVIOUS
  <2>2. r \in WorkflowType /\ r.pc = "parent" /\ r.n = wf[w].n /\ r.end = "none" /\ Keeps(r, wf[w])
    BY <1>1, <2>1 DEF WorkflowType, WorkflowPcs, Keeps
  <2>3. Step(w, r)
    BY <1>1, <1>6, <2>1, <2>2 DEF Step, Goto, Fit, Opening, Planned, InRound, Waiting
  <2>4. Polls(w, r)
    BY <1>1, <1>2, <1>6, <2>2 DEF Polls
  <2> QED BY <2>2, <2>3, <2>4 DEF Turn
<1> QED BY <1>4, <1>5, <1>6 DEF PollChild

LEMMA PollParentTurns ==
  ASSUME TypeOK, Fits, NEW w \in Workflows, PollParent(w)
  PROVE  \E r \in WorkflowType : Turn(w, r)
<1>1. /\ wf[w] \in WorkflowType /\ Fit(wf[w]) /\ wf[w].pc = "parent" /\ wf[w].end = "none"
      /\ Live(w) /\ wf[w].n \in Experiments
  BY Here DEF PollParent, InStep, Fit, Live, Waiting
<1>2. PassesOn(w) \in BOOLEAN
  BY DEF PassesOn
<1>3. PICK l : l = [wf[w] EXCEPT !.linked = @ \/ PassesOn(w)]
  OBVIOUS
<1>4. /\ l \in WorkflowType /\ l.n = wf[w].n /\ l.snap = wf[w].snap /\ l.resume = wf[w].resume
      /\ l.end = "none" /\ l.linked = (wf[w].linked \/ PassesOn(w))
  BY <1>1, <1>2, <1>3 DEF WorkflowType
<1>5. /\ exp' = IF PassesOn(w) THEN Stopped(exp, {wf[w].n}) ELSE exp
      /\ UNCHANGED <<row, progress, req, happened>>
  BY DEF PollParent
<1>6. CASE status # "running"
  <2>1. PICK r : r = Outcome(l, "stopped")
    OBVIOUS
  <2>2. r \in WorkflowType /\ Fit(r) /\ Leaves(w, r, "stopped")
    BY <1>1, <1>4, <2>1, Leaving
  <2>3. Locals(w, r)
    BY <1>3, <1>6, <2>1 DEF PollParent
  <2>4. Step(w, r)
    BY <1>1, <2>2, <2>3 DEF Step
  <2>5. PollsParent(w, r)
    BY <1>1, <1>5, <1>6, <2>2 DEF PollsParent
  <2> QED BY <2>2, <2>4, <2>5 DEF Turn
<1>7. CASE status = "running"
  <2>1. PICK r : r = [l EXCEPT !.pc = "poll"]
    OBVIOUS
  <2>2. /\ r \in WorkflowType /\ r.pc = "poll" /\ r.n = wf[w].n /\ r.snap = wf[w].snap
        /\ r.end = "none" /\ r.linked = l.linked /\ r.resume = l.resume
    BY <1>1, <1>4, <2>1 DEF WorkflowType, WorkflowPcs
  <2>3. Locals(w, r)
    BY <1>3, <1>7, <2>1 DEF PollParent
  <2>4. Step(w, r)
    BY <1>1, <2>2, <2>3 DEF Step, Fit, Opening, Planned, InRound, Waiting
  <2>5. PollsParent(w, r)
    BY <1>1, <1>4, <1>5, <1>7, <2>2 DEF PollsParent
  <2> QED BY <2>2, <2>4, <2>5 DEF Turn
<1> QED BY <1>6, <1>7

LEMMA UpdateBestTurns ==
  ASSUME TypeOK, Fits, NEW w \in Workflows, UpdateBest(w)
  PROVE  \E r \in WorkflowType : Turn(w, r)
<1>1. /\ wf[w] \in WorkflowType /\ Fit(wf[w]) /\ wf[w].pc = "best" /\ wf[w].end = "none"
      /\ Live(w) /\ wf[w].n \in Rounds
  BY Here DEF UpdateBest, InStep, Fit, Live, InRound
<1>2. PICK r : r = [wf[w] EXCEPT !.pc = "current"]
  OBVIOUS
<1>3. r \in WorkflowType /\ r.pc = "current" /\ r.end = "none" /\ r.n = wf[w].n /\ Keeps(r, wf[w])
  BY <1>1, <1>2 DEF WorkflowType, WorkflowPcs, Keeps
<1>4. Step(w, r)
  BY <1>1, <1>2, <1>3 DEF UpdateBest, Goto, Step, Fit, Opening, Planned, InRound, Waiting
<1>5. FindsBest(w, r)
  BY <1>1, <1>3 DEF UpdateBest, FindsBest, IsBest
<1> QED BY <1>3, <1>4, <1>5 DEF Turn

LEMMA UpdateCurrentRoundTurns ==
  ASSUME TypeOK, Fits, NEW w \in Workflows, UpdateCurrentRound(w)
  PROVE  \E r \in WorkflowType : Turn(w, r)
<1>1. /\ wf[w] \in WorkflowType /\ Fit(wf[w]) /\ wf[w].pc = "current" /\ wf[w].end = "none"
      /\ Live(w) /\ wf[w].n \in Rounds
  BY Here DEF UpdateCurrentRound, InStep, Fit, Live, InRound
<1>2. UNCHANGED <<row, best, parent, calls, exp, req, happened>> /\ current' = wf[w].n
  BY DEF UpdateCurrentRound
<1>3. CASE wf[w].score >= Goal \/ MeetsGoal(wf[w].snap)
  <2>1. PICK r : r = End(wf[w], "goals_met")
    OBVIOUS
  <2>2. r \in WorkflowType /\ r.pc = "final" /\ r.end = "goals_met" /\ Fit(r)
    BY <2>1, InitialLocals DEF Results
  <2>3. Step(w, r)
    BY <1>1, <1>3, <2>1, <2>2 DEF UpdateCurrentRound, Step
  <2>4. EndsRound(w, r)
    BY <1>1, <1>2, <1>3, <2>2 DEF EndsRound
  <2> QED BY <2>2, <2>3, <2>4 DEF Turn
<1>4. CASE ~(wf[w].score >= Goal \/ MeetsGoal(wf[w].snap))
  <2>1. PICK r : r = [wf[w] EXCEPT !.pc = "history", !.score = 0, !.snap = 0]
    OBVIOUS
  <2>2. r \in WorkflowType /\ r.pc = "history" /\ r.end = "none" /\ r.n = wf[w].n /\ r.resume = wf[w].resume
    BY <1>1, <2>1, Constants DEF WorkflowType, WorkflowPcs
  <2>3. Step(w, r)
    BY <1>1, <1>4, <2>1, <2>2 DEF UpdateCurrentRound, Step, Fit, Opening, Planned, InRound, Waiting
  <2>4. EndsRound(w, r)
    BY <1>1, <1>2, <1>4, <2>2 DEF EndsRound
  <2> QED BY <2>2, <2>3, <2>4 DEF Turn
<1> QED BY <1>3, <1>4

LEMMA CheckHistoryTurns ==
  ASSUME TypeOK, Fits, NEW w \in Workflows, CheckHistory(w)
  PROVE  \E r \in WorkflowType : Turn(w, r)
<1>1. /\ wf[w] \in WorkflowType /\ Fit(wf[w]) /\ wf[w].pc = "history" /\ wf[w].end = "none"
      /\ Live(w) /\ wf[w].n \in Rounds
  BY Here DEF CheckHistory, InStep, Fit, Live, InRound
<1>2. UNCHANGED <<row, progress, exp, req, happened>>
  BY DEF CheckHistory
<1>3. CASE Locals(w, End(wf[w], "no_improvement"))
  <2>1. PICK r : r = End(wf[w], "no_improvement")
    OBVIOUS
  <2>2. r \in WorkflowType /\ r.pc = "final" /\ r.end = "no_improvement" /\ Fit(r)
    BY <2>1, InitialLocals DEF Results
  <2>3. Step(w, r)
    BY <1>1, <1>3, <2>1, <2>2 DEF Step
  <2>4. ReadsHistory(w, r)
    BY <1>1, <1>2, <2>2 DEF ReadsHistory
  <2> QED BY <2>2, <2>3, <2>4 DEF Turn
<1>4. CASE Locals(w, [wf[w] EXCEPT !.pc = "top", !.n = wf[w].n + 1])
  <2>1. PICK r : r = [wf[w] EXCEPT !.pc = "top", !.n = wf[w].n + 1]
    OBVIOUS
  <2>2. wf[w].n + 1 \in 0..(MaxRounds + 1) /\ wf[w].n + 1 # 0
    BY <1>1, Constants DEF Rounds
  <2>3. r \in WorkflowType /\ r.pc = "top" /\ r.end = "none" /\ r.n = wf[w].n + 1 /\ r.resume = wf[w].resume
    BY <1>1, <2>1, <2>2 DEF WorkflowType, WorkflowPcs
  <2>4. Step(w, r)
    BY <1>1, <1>4, <2>1, <2>2, <2>3 DEF Step, Fit, Opening, Planned, InRound, Waiting
  <2>5. ReadsHistory(w, r)
    BY <1>1, <1>2, <2>3 DEF ReadsHistory
  <2> QED BY <2>3, <2>4, <2>5 DEF Turn
<1> QED BY <1>3, <1>4 DEF CheckHistory

LEMMA FinalizeTurns ==
  ASSUME TypeOK, Fits, NEW w \in Workflows, Finalize(w)
  PROVE  \E r \in WorkflowType : Turn(w, r)
<1>1. wf[w].pc = "final" /\ Live(w)
  BY DEF Finalize, InStep, Live
<1>2. Ended \in WorkflowType /\ Step(w, Ended)
  BY <1>1, InitialLocals DEF Finalize, Step
<1>3. Finishes(w, Ended)
  BY <1>1, InitialLocals DEF Finalize, Finishes, MayFinalize
<1> QED BY <1>2, <1>3 DEF Turn

LEMMA Turns ==
  ASSUME TypeOK, Fits, Made, NEW w \in Workflows, Start(w) \/ Round(w) \/ WorkflowError(w)
  PROVE  \E r \in WorkflowType : Turn(w, r)
BY WorkflowErrorTurns, LoadConfigTurns, MarkStartedTurns, FirstVersionTurns, PrepareBaselineTurns,
   LaunchBaselineTurns, BaselineControlTurns, ResumeBaselineTurns, CheckGoalsTurns, NextRoundTurns,
   ClearResumeTurns, PrepareRoundTurns, CallAnalysisModelTurns, CreateVersionTurns,
   CreateExperimentTurns, LaunchChildTurns, PollChildTurns, PollParentTurns, UpdateBestTurns,
   UpdateCurrentRoundTurns, CheckHistoryTurns, FinalizeTurns
   DEF Start, Round

-----------------------------------------------------------------------------
(* The child experiments.                                                   *)

\* What a step may make of an experiment e.
Evolves(e, f) ==
    \/ f = e
    \/ e.status = "none" /\ f = [e EXCEPT !.status = "running"]
    \/ e.status # "none" /\ f = [e EXCEPT !.launched = TRUE]
    \/ ~e.launched /\ f = [e EXCEPT !.status = "failed"]
    \/ e.status = "stopped" /\ f = [e EXCEPT !.status = "running"]
    \/ e.status = "running" /\ f = [e EXCEPT !.stop = TRUE]
    \/ e.status = "running" /\ e.launched /\ ~f.stop /\ f.launched
       /\ f.status \in {"success", "failed", "stopped"} /\ (f.status = "stopped" => e.stop)
    \/ e.status = "none" /\ f.status = "success" /\ f.launched /\ ~f.stop

\* A child that was not started has no result, and only one that runs, or
\* that could not be started, has a stop to hear.
Sound(e) ==
    /\ ~e.launched => e.status \in {"none", "running", "failed"}
    /\ e.launched => e.status # "none"
    /\ e.stop => e.status \in {"running", "failed"}

LEMMA EvolvesSoundly ==
  ASSUME NEW e \in ExperimentType, NEW f \in ExperimentType, Sound(e), Evolves(e, f)
  PROVE  /\ Sound(f)
         /\ e.status # "none" => f.status # "none"
         /\ e.status = "success" => f.status = "success" /\ f.score = e.score
         /\ e.status = "failed" => f.status = "failed" /\ f.score = e.score
         /\ e.launched => f.launched
<1>1. CASE f = e
  BY <1>1
<1>2. CASE e.status = "none" /\ f = [e EXCEPT !.status = "running"]
  BY <1>2 DEF ExperimentType, Sound
<1>3. CASE e.status # "none" /\ f = [e EXCEPT !.launched = TRUE]
  BY <1>3 DEF ExperimentType, Sound
<1>4. CASE ~e.launched /\ f = [e EXCEPT !.status = "failed"]
  BY <1>4 DEF ExperimentType, Sound
<1>5. CASE e.status = "stopped" /\ f = [e EXCEPT !.status = "running"]
  BY <1>5 DEF ExperimentType, Sound
<1>6. CASE e.status = "running" /\ f = [e EXCEPT !.stop = TRUE]
  BY <1>6 DEF ExperimentType, Sound
<1>7. CASE e.status \in {"running", "none"} /\ ~f.stop /\ f.launched /\ f.status \in {"success", "failed", "stopped"}
  BY <1>7 DEF ExperimentType, Sound
<1> QED BY <1>1, <1>2, <1>3, <1>4, <1>5, <1>6, <1>7 DEF Evolves

\* What each operation on the children does to one of them.
LEMMA StoppedChild ==
  ASSUME TypeOK, NEW S, NEW n \in Experiments
  PROVE  /\ Stopped(exp, S)[n] \in ExperimentType
         /\ Evolves(exp[n], Stopped(exp, S)[n])
         /\ Stopped(exp, S)[n].status = exp[n].status
         /\ Stopped(exp, S)[n].launched = exp[n].launched
         /\ Stopped(exp, S)[n].score = exp[n].score
         /\ Stopped(exp, S)[n].stop = (exp[n].stop \/ (n \in S /\ Running(n)))
BY DEF TypeOK, ExperimentType, Stopped, Running, Evolves

LEMMA ResumedChild ==
  ASSUME TypeOK, NEW S, NEW n \in Experiments
  PROVE  /\ Resumed(exp, S)[n] \in ExperimentType
         /\ Evolves(exp[n], Resumed(exp, S)[n])
         /\ Resumed(exp, S)[n].launched = exp[n].launched
         /\ Resumed(exp, S)[n].score = exp[n].score
         /\ Resumed(exp, S)[n].stop = exp[n].stop
         /\ Resumed(exp, S)[n].status =
              IF n \in S /\ exp[n].status = "stopped" THEN "running" ELSE exp[n].status
BY DEF TypeOK, ExperimentType, Resumed, Evolves

LEMMA StartedChild ==
  ASSUME TypeOK, NEW k \in Experiments, StartChild(k), exp[k].status # "none", NEW n \in Experiments
  PROVE  /\ exp' \in [Experiments -> ExperimentType]
         /\ Evolves(exp[n], exp'[n])
         /\ n # k => exp'[n] = exp[n]
         /\ exp'[n].score = exp[n].score /\ exp'[n].stop = exp[n].stop
         /\ \/ exp'[k].launched /\ exp'[k].status = exp[k].status /\ happened' = happened
            \/ exp'[k].launched = exp[k].launched /\ ~exp[k].launched /\ exp'[k].status = "failed"
               /\ happened' = happened \cup {"child"}
<1>1. CASE exp' = [exp EXCEPT ![k].launched = TRUE] /\ UNCHANGED happened
  <2>1. exp' \in [Experiments -> ExperimentType]
    <3>1. [exp[k] EXCEPT !.launched = TRUE] \in ExperimentType
      <4>1. exp[k] \in ExperimentType
        BY DEF TypeOK
      <4> QED BY <4>1 DEF ExperimentType
    <3> QED BY <1>1, <3>1 DEF TypeOK
  <2>2. (n # k => exp'[n] = exp[n]) /\ exp'[k] = [exp[k] EXCEPT !.launched = TRUE]
    BY <1>1 DEF TypeOK
  <2>3. exp[k] \in ExperimentType /\ exp[n] \in ExperimentType
    BY DEF TypeOK
  <2>4. /\ exp'[k].launched /\ exp'[k].status = exp[k].status
        /\ exp'[k].score = exp[k].score /\ exp'[k].stop = exp[k].stop
    BY <2>2, <2>3 DEF ExperimentType
  <2>5. Evolves(exp[n], exp'[n])
    BY <2>2 DEF Evolves
  <2> QED BY <1>1, <2>1, <2>2, <2>4, <2>5
<1>2. CASE ~exp[k].launched /\ Fault("child") /\ exp' = [exp EXCEPT ![k].status = "failed"]
  <2>1. exp' \in [Experiments -> ExperimentType] /\ happened' = happened \cup {"child"}
    <3>1. [exp[k] EXCEPT !.status = "failed"] \in ExperimentType
      <4>1. exp[k] \in ExperimentType
        BY DEF TypeOK
      <4> QED BY <4>1 DEF ExperimentType
    <3> QED BY <1>2, <3>1 DEF TypeOK, Fault
  <2>2. (n # k => exp'[n] = exp[n]) /\ exp'[k] = [exp[k] EXCEPT !.status = "failed"]
    BY <1>2 DEF TypeOK
  <2>3. exp[k] \in ExperimentType /\ exp[n] \in ExperimentType
    BY DEF TypeOK
  <2>4. /\ exp'[k].launched = exp[k].launched /\ exp'[k].status = "failed"
        /\ exp'[k].score = exp[k].score /\ exp'[k].stop = exp[k].stop
    BY <2>2, <2>3 DEF ExperimentType
  <2>5. Evolves(exp[n], exp'[n])
    BY <1>2, <2>2 DEF Evolves
  <2> QED BY <1>2, <2>1, <2>2, <2>4, <2>5
<1> QED BY <1>1, <1>2 DEF StartChild

LEMMA MadeChild ==
  ASSUME TypeOK, NEW k \in Experiments,
         exp' = [exp EXCEPT ![k].status = IF @ = "none" THEN "running" ELSE @], NEW n \in Experiments
  PROVE  /\ exp' \in [Experiments -> ExperimentType]
         /\ Evolves(exp[n], exp'[n])
         /\ n # k => exp'[n] = exp[n]
         /\ exp'[n].score = exp[n].score /\ exp'[n].stop = exp[n].stop /\ exp'[n].launched = exp[n].launched
         /\ exp'[k].status = IF exp[k].status = "none" THEN "running" ELSE exp[k].status
BY DEF TypeOK, ExperimentType, Evolves

LEMMA EndedChild ==
  ASSUME TypeOK, NEW k \in Experiments, ExperimentEnds(k), NEW n \in Experiments
  PROVE  /\ exp' \in [Experiments -> ExperimentType]
         /\ Evolves(exp[n], exp'[n])
         /\ n # k => exp'[n] = exp[n]
         /\ Running(k) /\ exp[k].launched
         /\ exp'[k].status \in {"success", "failed", "stopped"} /\ ~exp'[k].stop
         /\ exp'[k].status = "stopped" => exp[k].stop
         /\ exp'[k].launched
<1>1. PICK end \in {"success", "failed", "stopped"}, s \in Scores :
         /\ end = "stopped" => exp[k].stop
         /\ exp' = [exp EXCEPT ![k] = [exp[k] EXCEPT !.status = end, !.stop = FALSE,
                                                 !.score = IF end = "failed" THEN 0 ELSE s]]
  BY DEF ExperimentEnds
<1>2. PICK t \in Scores : t = IF end = "failed" THEN 0 ELSE s
  BY Constants
<1>3. PICK f : f = [exp[k] EXCEPT !.status = end, !.stop = FALSE, !.score = t]
  OBVIOUS
<1>4. exp[k] \in ExperimentType /\ Running(k) /\ exp[k].launched
  BY DEF TypeOK, ExperimentEnds
<1>5. f \in ExperimentType /\ f.status = end /\ ~f.stop /\ f.launched
  BY <1>3, <1>4 DEF ExperimentType
<1>6. exp' = [exp EXCEPT ![k] = f]
  BY <1>1, <1>2, <1>3
<1>7. exp' \in [Experiments -> ExperimentType] /\ exp'[k] = f /\ (n # k => exp'[n] = exp[n])
  BY <1>5, <1>6 DEF TypeOK
<1>8. Evolves(exp[k], f)
  BY <1>1, <1>4, <1>5 DEF Evolves, Running
<1>9. Evolves(exp[n], exp'[n])
  BY <1>7, <1>8 DEF Evolves
<1> QED BY <1>1, <1>4, <1>5, <1>7, <1>9

\* Which steps of a workflow write what.
LEMMA TurnWrites ==
  ASSUME TypeOK, NEW w \in Workflows, NEW r \in WorkflowType, Turn(w, r)
  PROVE  /\ Live(w) /\ Fit(r) /\ r.pc # "none" /\ wf'[w] = r
         /\ \A v \in Workflows : v # w => wf'[v] = wf[v]
         /\ wf' \in [Workflows -> WorkflowType]
         /\ mode' = mode /\ wfId' = wfId /\ req' = req
         /\ best' = best \/ FindsBest(w, r)
         /\ current' = current \/ EndsRound(w, r)
         /\ parent' = parent \/ MakesFirst(w, r) \/ Versions(w, r)
         /\ calls' = calls \/ Calls(w, r)
         /\ (status' = status /\ control' = control /\ objective' = objective)
            \/ Marks(w, r) \/ Clears(w, r) \/ Finishes(w, r)
         /\ exp' = exp \/ FindsBase(w, r) \/ LaunchesBase(w, r) \/ ResumesBase(w, r)
            \/ MakesChild(w, r) \/ LaunchesChild(w, r) \/ PollsParent(w, r)
         /\ happened' = happened \/ Fails(w, r) \/ Loads(w, r) \/ Marks(w, r) \/ Reloads(w, r)
            \/ LaunchesBase(w, r) \/ LaunchesChild(w, r) \/ Polls(w, r)
<1>1. Step(w, r)
  BY DEF Turn
<1>2. Live(w) /\ Fit(r) /\ wf' = [wf EXCEPT ![w] = r]
  BY <1>1 DEF Step, Locals
<1>3. /\ wf'[w] = r
      /\ \A v \in Workflows : v # w => wf'[v] = wf[v]
      /\ wf' \in [Workflows -> WorkflowType]
  BY <1>2 DEF TypeOK
<1>4. r.pc # "none"
  BY DEF Turn, Fails, Loads, Marks, MakesFirst, FindsBase, LaunchesBase, ReadsControl, ResumesBase, Clears,
     Reloads, Checks, Tops, Prepares, Calls, Versions, MakesChild, LaunchesChild, Polls, PollsParent,
     Leaves, FindsBest, EndsRound, ReadsHistory, Finishes
<1>5. mode' = mode /\ wfId' = wfId /\ req' = req
  BY DEF Turn, Fails, Loads, Marks, MakesFirst, FindsBase, LaunchesBase, ReadsControl, ResumesBase, Clears,
     Reloads, Checks, Tops, Prepares, Calls, Versions, MakesChild, LaunchesChild, Polls, PollsParent,
     FindsBest, EndsRound, ReadsHistory, Finishes, row, progress
<1>6. /\ best' = best \/ FindsBest(w, r)
      /\ current' = current \/ EndsRound(w, r)
      /\ parent' = parent \/ MakesFirst(w, r) \/ Versions(w, r)
      /\ calls' = calls \/ Calls(w, r)
  BY DEF Turn, Fails, Loads, Marks, MakesFirst, FindsBase, LaunchesBase, ReadsControl, ResumesBase, Clears,
     Reloads, Checks, Tops, Prepares, Calls, Versions, MakesChild, LaunchesChild, Polls, PollsParent,
     FindsBest, EndsRound, ReadsHistory, Finishes, row, progress
<1>7. (status' = status /\ control' = control /\ objective' = objective)
      \/ Marks(w, r) \/ Clears(w, r) \/ Finishes(w, r)
  BY DEF Turn, Fails, Loads, MakesFirst, FindsBase, LaunchesBase, ReadsControl, ResumesBase,
     Reloads, Checks, Tops, Prepares, Calls, Versions, MakesChild, LaunchesChild, Polls, PollsParent,
     FindsBest, EndsRound, ReadsHistory, row, progress
<1>8. exp' = exp \/ FindsBase(w, r) \/ LaunchesBase(w, r) \/ ResumesBase(w, r)
      \/ MakesChild(w, r) \/ LaunchesChild(w, r) \/ PollsParent(w, r)
  BY DEF Turn, Fails, Loads, Marks, MakesFirst, ReadsControl, Clears,
     Reloads, Checks, Tops, Prepares, Calls, Versions, Polls,
     FindsBest, EndsRound, ReadsHistory, Finishes, row, progress
<1>9. happened' = happened \/ Fails(w, r) \/ Loads(w, r) \/ Marks(w, r) \/ Reloads(w, r)
      \/ LaunchesBase(w, r) \/ LaunchesChild(w, r) \/ Polls(w, r)
  BY DEF Turn, MakesFirst, FindsBase, ReadsControl, ResumesBase, Clears,
     Checks, Tops, Prepares, Calls, Versions, MakesChild, PollsParent,
     FindsBest, EndsRound, ReadsHistory, Finishes, row, progress
<1> QED BY <1>2, <1>3, <1>4, <1>5, <1>6, <1>7, <1>8, <1>9

-----------------------------------------------------------------------------
(* The shape of a state: its types, the requests, and who waits for what.   *)

Asked ==
    /\ req["user"].pc # "scan" /\ req["recovery"].pc \in {"idle", "scan", "launch", "setid"}
    /\ req["user"].pc # "idle" => req["recovery"].pc = "idle"
    /\ req["user"].pc = "patch" => req["user"].action \in {"stop", "resume", "cancel"}
    /\ req["user"].pc = "link" => req["user"].action \in {"stop", "cancel"}
    /\ req["user"].pc \in {"launch", "setid"} => req["user"].action \in {"start", "resume"}
    /\ req["recovery"].pc # "idle" => req["recovery"].action = "resume"
    /\ \A c \in Requests : req[c].pc = "setid" => req[c].new \in Workflows /\ wf[req[c].new].pc # "none"
    /\ wfId # None => wf[wfId].pc # "none"

\* The first workflow of an optimization is the one its creation starts, and a
\* request that is about to start one finds an unused id.
Pending(c) == req[c].pc \in {"patch", "launch"} /\ req[c].action \in {"start", "resume"}
Opened ==
    /\ mode = "none" => /\ status = "none" /\ req["user"].pc = "idle" /\ req["recovery"].pc \in {"idle", "scan"}
                        /\ \A w \in Workflows : wf[w].pc = "none"
                        /\ \A n \in Experiments : exp[n].status = "none"
    /\ req["user"].pc # "idle" /\ req["user"].action = "start" =>
          /\ wfId = None
          /\ req["user"].pc = "launch" => \A w \in Workflows : wf[w].pc = "none"
    /\ (\E c \in Requests : Pending(c)) => \E w \in Workflows : wf[w].pc = "none"

\* What is taken for a result is one.
Measured ==
    /\ best # 0 => exp[best].status = "success"
    /\ \A n \in Rounds : exp[n].status # "none" => parent[n] # None
    /\ \A n \in Experiments : Sound(exp[n])
    /\ \A w \in Workflows :
          /\ wf[w].pc \in {"best", "current"} =>
                exp[wf[w].n].status = "success" /\ wf[w].score = exp[wf[w].n].score
          /\ wf[w].pc = "experiment" => parent[wf[w].n] # None

Shape == TypeOK /\ Fits /\ Made /\ Asked /\ Opened /\ Measured

LEMMA UnusedId ==
  ASSUME CanLaunch
  PROVE  \E w \in Workflows : wf[w].pc = "none"
<1> DEFINE U == {w \in Workflows : wf[w].pc = "none"}
           P == {c \in Requests : /\ req[c].pc \in {"patch", "launch"}
                                  /\ req[c].action \in {"start", "resume"}}
<1>1. IsFiniteSet(Requests)
  <2>1. Requests = {"user"} \cup {"recovery"}
    BY DEF Requests
  <2> QED BY <2>1, FS_Singleton, FS_Union
<1>2. P \subseteq Requests
  OBVIOUS
<1>3. Cardinality(P) \in Nat
  BY <1>1, <1>2, FS_Subset, FS_CardinalityType
<1>4. Cardinality(U) > Cardinality(P)
  BY DEF CanLaunch
<1>5. SUFFICES ASSUME U = {} PROVE FALSE
  OBVIOUS
<1>6. Cardinality(U) = 0
  BY <1>5, FS_EmptySet
<1> HIDE DEF U, P
<1> QED BY <1>3, <1>4, <1>6

LEMMA Initially ==
  ASSUME Init
  PROVE  Shape
<1>1. TypeOK
  <2>1. exp \in [Experiments -> ExperimentType]
    BY Constants DEF Init, NoExperiment, ExperimentType
  <2>2. req \in [Requests -> RequestType]
    BY DEF Init, IdleRequest, RequestType
  <2>3. wf \in [Workflows -> WorkflowType]
    BY InitialLocals DEF Init
  <2>4. parent \in [Experiments -> Experiments \cup {None}] /\ calls \in [Rounds -> [Kinds -> Nat]]
    BY DEF Init
  <2> QED BY <2>1, <2>2, <2>3, <2>4, Constants DEF Init, TypeOK
<1>2. Fits /\ Made
  BY DEF Init, Fits, Made, NewWorkflow, Fit, Opening, Planned, InRound, Waiting
<1>3. Asked
  BY DEF Init, Asked, IdleRequest, Requests
<1>4. Opened
  BY DEF Init, Opened, IdleRequest, NewWorkflow, NoExperiment, Pending, Requests
<1>5. Measured
  BY Constants DEF Init, Measured, NoExperiment, Sound, NewWorkflow
<1> QED BY <1>1, <1>2, <1>3, <1>4, <1>5 DEF Shape

\* What a restart makes of the locals of a workflow.
Restarts(l, r) ==
    \/ l.pc \in {"call", "version", "experiment"} /\ r.pc = "prepare" /\ Keeps(r, l)
    \/ /\ l.pc \in {"poll", "parent", "best", "current"} /\ l.n # 0
       /\ r.pc = "poll" /\ r.n = l.n /\ r.snap = best /\ ~r.linked /\ ~r.resume
    \/ l.pc = "parent" /\ l.n = 0 /\ r.pc = "poll" /\ r.n = 0 /\ ~r.linked
    \/ r = l /\ l.pc \notin {"call", "version", "experiment", "parent", "best", "current"}
       /\ (l.pc = "poll" => l.n = 0)

LEMMA Replaying ==
  ASSUME TypeOK, NEW l \in WorkflowType, Fit(l)
  PROVE  Replayed(l) \in WorkflowType /\ Fit(Replayed(l)) /\ Restarts(l, Replayed(l))
<1>1. CASE l.pc \in {"call", "version", "experiment"}
  <2>1. PICK r : r = [l EXCEPT !.pc = "prepare", !.base = 0, !.kind = NewWorkflow.kind]
    OBVIOUS
  <2>2. Replayed(l) = r
    BY <1>1, <2>1 DEF Replayed
  <2>3. r \in WorkflowType /\ r.pc = "prepare" /\ r.n = l.n /\ r.end = l.end /\ Keeps(r, l)
    BY <2>1, Constants DEF WorkflowType, WorkflowPcs, NewWorkflow, Kinds, Keeps
  <2> QED BY <1>1, <2>2, <2>3 DEF Restarts, Fit, Opening, Planned, InRound, Waiting
<1>2. CASE l.n # 0 /\ l.pc \in {"poll", "parent", "best", "current"}
  <2>1. Replayed(l) = Await(l)
    BY <1>2 DEF Replayed
  <2>2. l.n \in Experiments /\ l.end = "none"
    BY <1>2, Constants DEF Fit, Waiting, InRound
  <2>3. /\ Await(l) \in WorkflowType /\ Fit(Await(l))
        /\ Await(l).pc = "poll" /\ Await(l).n = l.n /\ Await(l).snap = best /\ ~Await(l).linked
        /\ ~Await(l).resume
    BY <2>2, Awaiting
  <2> QED BY <1>2, <2>1, <2>3 DEF Restarts
<1>3. CASE l.n = 0 /\ l.pc = "parent"
  <2>1. PICK r : r = [l EXCEPT !.pc = "poll", !.linked = FALSE]
    OBVIOUS
  <2>2. Replayed(l) = r
    BY <1>3, <2>1 DEF Replayed
  <2>3. r \in WorkflowType /\ r.pc = "poll" /\ r.n = 0 /\ r.end = l.end /\ ~r.linked
    BY <1>3, <2>1 DEF WorkflowType, WorkflowPcs
  <2> QED BY <1>3, <2>2, <2>3, Constants DEF Restarts, Fit, Opening, Planned, InRound, Waiting
<1>4. CASE /\ l.pc \notin {"call", "version", "experiment"}
           /\ ~(l.n # 0 /\ l.pc \in {"poll", "parent", "best", "current"})
           /\ ~(l.n = 0 /\ l.pc = "parent")
  <2>1. Replayed(l) = l
    BY <1>4 DEF Replayed
  <2>2. l.pc \notin {"best", "current"}
    BY <1>4, Constants DEF Fit, InRound
  <2> QED BY <1>4, <2>1, <2>2 DEF Restarts
<1> QED BY <1>1, <1>2, <1>3, <1>4

\* No step of a workflow takes a result back.
LEMMA TurnChildren ==
  ASSUME Shape, NEW w \in Workflows, NEW r \in WorkflowType, Turn(w, r), NEW n \in Experiments
  PROVE  exp' \in [Experiments -> ExperimentType] /\ Evolves(exp[n], exp'[n])
<1>1. TypeOK /\ Made /\ Fit(wf[w]) /\ 0 \in Experiments
  BY Constants DEF Shape, Fits
<1>2. CASE exp' = exp
  BY <1>1, <1>2 DEF TypeOK, Evolves
<1>3. CASE FindsBase(w, r)
  <2>1. CASE exp' = exp
    BY <1>1, <2>1 DEF TypeOK, Evolves
  <2>2. CASE exp[0].status = "none" /\ exp' = [exp EXCEPT ![0].status = "running"]
    <3>1. exp' = [exp EXCEPT ![0].status = IF @ = "none" THEN "running" ELSE @]
      BY <2>2
    <3> QED BY <1>1, <3>1, MadeChild
  <2> QED BY <1>3, <2>1, <2>2 DEF FindsBase
<1>4. CASE LaunchesBase(w, r)
  <2>1. StartChild(0) /\ exp[0].status # "none"
    BY <1>1, <1>4 DEF LaunchesBase, Made, Fit, Opening
  <2> QED BY <1>1, <2>1, StartedChild
<1>5. CASE ResumesBase(w, r)
  <2>1. exp' = Resumed(exp, {0})
    BY <1>5 DEF ResumesBase
  <2>2. \A m \in Experiments : exp'[m] \in ExperimentType
    BY <1>1, <2>1, ResumedChild
  <2> QED BY <1>1, <2>1, <2>2, ResumedChild DEF Resumed
<1>6. CASE MakesChild(w, r)
  <2>1. r.n \in Experiments /\ exp' = [exp EXCEPT ![r.n].status = IF @ = "none" THEN "running" ELSE @]
    BY <1>1, <1>6, Constants DEF MakesChild, Fit, InRound, Keeps
  <2> QED BY <1>1, <2>1, MadeChild
<1>7. CASE LaunchesChild(w, r)
  <2>1. r.n \in Experiments /\ exp[r.n].status # "none"
    BY <1>1, <1>7, Constants DEF LaunchesChild, Fit, InRound, Made
  <2>2. CASE StartChild(r.n)
    BY <1>1, <2>1, <2>2, StartedChild
  <2>3. CASE exp' = Resumed(exp, {r.n})
    <3>1. \A m \in Experiments : exp'[m] \in ExperimentType
      BY <1>1, <2>3, ResumedChild
    <3> QED BY <1>1, <2>3, <3>1, ResumedChild DEF Resumed
  <2> QED BY <1>7, <2>2, <2>3 DEF LaunchesChild
<1>8. CASE PollsParent(w, r) /\ exp' # exp
  <2>1. exp' = Stopped(exp, {wf[w].n})
    BY <1>8 DEF PollsParent
  <2>2. \A m \in Experiments : exp'[m] \in ExperimentType
    BY <1>1, <2>1, StoppedChild
  <2> QED BY <1>1, <2>1, <2>2, StoppedChild DEF Stopped
<1> QED BY <1>1, <1>2, <1>3, <1>4, <1>5, <1>6, <1>7, <1>8, TurnWrites

LEMMA TurnTypes ==
  ASSUME Shape, NEW w \in Workflows, NEW r \in WorkflowType, Turn(w, r)
  PROVE  TypeOK'
<1>1. TypeOK /\ Fits /\ wf[w] \in WorkflowType /\ Fit(wf[w]) /\ 0 \in Experiments
  BY Constants DEF Shape, Fits, TypeOK
<1>2. exp' \in [Experiments -> ExperimentType]
  BY <1>1, TurnChildren
<1>3. /\ status' \in {"none", "running", "stopped", "cancelled", "failed", "success"}
      /\ control' \in {"none", "stop", "resume", "cancel"}
      /\ objective' \in {"pending", "met", "not_met", "unknown"}
  <2>1. CASE Marks(w, r) \/ Clears(w, r)
    BY <1>1, <2>1 DEF Marks, Clears, TypeOK
  <2>2. CASE Finishes(w, r)
    <3>1. FinalStatus(wf[w].end) \in {"success", "failed", "cancelled", "stopped"}
      BY <1>1, <2>2 DEF Finishes, FinalStatus, Fit, WorkflowType
    <3>2. FinalObjective(wf[w].end) \in {"met", "not_met", "unknown"}
      BY DEF FinalObjective
    <3> QED BY <1>1, <2>2, <3>1, <3>2 DEF Finishes, TypeOK
  <2> QED BY <1>1, <2>1, <2>2, TurnWrites DEF TypeOK
<1>4. best' \in Experiments /\ current' \in Experiments
  BY <1>1, TurnWrites, Constants DEF FindsBest, EndsRound, Fit, InRound, TypeOK
<1>5. parent' \in [Experiments -> Experiments \cup {None}]
  <2>1. CASE MakesFirst(w, r)
    BY <1>1, <2>1 DEF MakesFirst, TypeOK
  <2>2. CASE Versions(w, r)
    <3>1. r.n \in Experiments /\ wf[w].base \in Experiments
      BY <1>1, <2>2, Constants DEF Versions, Keeps, Fit, InRound, WorkflowType
    <3>2. PICK p \in Experiments \cup {None} : p = IF parent[r.n] = None THEN wf[w].base ELSE parent[r.n]
      BY <1>1, <3>1 DEF TypeOK
    <3>3. parent' = [parent EXCEPT ![r.n] = p]
      BY <2>2, <3>2 DEF Versions
    <3> QED BY <1>1, <3>3 DEF TypeOK
  <2> QED BY <1>1, <2>1, <2>2, TurnWrites DEF TypeOK
<1>6. calls' \in [Rounds -> [Kinds -> Nat]]
  <2>1. CASE Calls(w, r)
    <3>1. wf[w].n \in Rounds /\ wf[w].kind \in Kinds
      BY <1>1, <2>1 DEF Calls, Fit, InRound, WorkflowType
    <3>2. calls[wf[w].n] \in [Kinds -> Nat]
      BY <1>1, <3>1 DEF TypeOK
    <3>3. PICK f : f = [calls[wf[w].n] EXCEPT ![wf[w].kind] = calls[wf[w].n][wf[w].kind] + 1]
      OBVIOUS
    <3>4. f \in [Kinds -> Nat]
      BY <3>1, <3>2, <3>3
    <3>5. calls' = [calls EXCEPT ![wf[w].n] = f]
      BY <2>1, <3>3 DEF Calls
    <3> QED BY <1>1, <3>4, <3>5 DEF TypeOK
  <2> QED BY <1>1, <2>1, TurnWrites DEF TypeOK
<1>7. happened' \subseteq FaultKinds \cup {"twin", "missed", "overruled"}
  <2>1. CASE Loads(w, r) \/ Reloads(w, r)
    <3>1. Missed \subseteq {"missed"}
      BY DEF Missed
    <3>2. happened' = happened \cup Missed
      BY <2>1 DEF Loads, Reloads
    <3> QED BY <1>1, <3>1, <3>2 DEF TypeOK
  <2>5. CASE Marks(w, r)
    <3>1. Overruled \subseteq {"overruled"} /\ happened' = happened \cup Overruled
      BY <2>5 DEF Marks, Overruled
    <3> QED BY <1>1, <3>1 DEF TypeOK
  <2>2. CASE \E k \in {"llm", "step", "child", "timeout"} : happened' = happened \cup {k}
    <3>1. \A k \in {"llm", "step", "child", "timeout"} : k \in FaultKinds
      BY DEF FaultKinds
    <3>2. PICK k \in {"llm", "step", "child", "timeout"} : happened' = happened \cup {k}
      BY <2>2
    <3>3. k \in FaultKinds /\ happened \subseteq FaultKinds \cup {"twin", "missed", "overruled"}
      BY <1>1, <3>1 DEF TypeOK
    <3>4. \A x \in happened' : x \in happened \/ x = k
      BY <3>2
    <3>5. ASSUME NEW x \in happened' PROVE x \in FaultKinds \cup {"twin", "missed", "overruled"}
      BY <3>3, <3>4
    <3> QED BY <3>5
  <2>3. CASE happened' = happened
    BY <1>1, <2>3 DEF TypeOK
  <2>4. Fails(w, r) \/ LaunchesBase(w, r) \/ LaunchesChild(w, r) \/ Polls(w, r) =>
           happened' = happened \/ \E k \in {"llm", "step", "child", "timeout"} : happened' = happened \cup {k}
    BY DEF Fails, LaunchesBase, LaunchesChild, StartChild, Fault, Polls
  <2> QED BY <1>1, <2>1, <2>2, <2>3, <2>4, <2>5, TurnWrites
<1> QED BY <1>1, <1>2, <1>3, <1>4, <1>5, <1>6, <1>7, TurnWrites DEF TypeOK

\* What a step does not take back.
LEMMA TurnGrows ==
  ASSUME Shape, NEW w \in Workflows, NEW r \in WorkflowType, Turn(w, r)
  PROVE  /\ \A n \in Experiments :
              /\ Sound(exp'[n])
              /\ exp[n].status # "none" => exp'[n].status # "none"
              /\ exp[n].status = "success" => exp'[n].status = "success" /\ exp'[n].score = exp[n].score
              /\ exp[n].status = "failed" => exp'[n].status = "failed" /\ exp'[n].score = exp[n].score
         /\ \A n \in Experiments : parent[n] # None => parent'[n] # None
         /\ happened \subseteq happened'
<1>1. TypeOK /\ Fits /\ Measured /\ Fit(wf[w]) /\ wf[w] \in WorkflowType
  BY DEF Shape, Fits, TypeOK
<1>2. ASSUME NEW n \in Experiments
      PROVE  /\ Sound(exp'[n])
             /\ exp[n].status # "none" => exp'[n].status # "none"
             /\ exp[n].status = "success" => exp'[n].status = "success" /\ exp'[n].score = exp[n].score
             /\ exp[n].status = "failed" => exp'[n].status = "failed" /\ exp'[n].score = exp[n].score
  <2>1. exp[n] \in ExperimentType /\ exp'[n] \in ExperimentType /\ Evolves(exp[n], exp'[n]) /\ Sound(exp[n])
    BY <1>1, TurnChildren DEF TypeOK, Measured
  <2> QED BY <2>1, EvolvesSoundly
<1>3. \A n \in Experiments : parent[n] # None => parent'[n] # None
  BY <1>1, TurnWrites, Constants DEF MakesFirst, Versions, TypeOK
<1>4. happened \subseteq happened'
  <2>1. \/ Fails(w, r) \/ Loads(w, r) \/ Marks(w, r) \/ Reloads(w, r) \/ LaunchesBase(w, r)
        \/ LaunchesChild(w, r) \/ Polls(w, r) \/ happened' = happened
    BY <1>1, TurnWrites
  <2>2. Fails(w, r) \/ Loads(w, r) \/ Marks(w, r) \/ Reloads(w, r) \/ Polls(w, r)
           => happened \subseteq happened'
    BY DEF Fails, Loads, Marks, Reloads, Polls
  <2>3. LaunchesBase(w, r) \/ LaunchesChild(w, r) => happened \subseteq happened'
    BY DEF LaunchesBase, LaunchesChild, StartChild, Fault
  <2> QED BY <2>1, <2>2, <2>3
<1> QED BY <1>2, <1>3, <1>4

LEMMA TurnKeepsShape ==
  ASSUME Shape, NEW w \in Workflows, NEW r \in WorkflowType, Turn(w, r)
  PROVE  Shape'
<1>1. /\ TypeOK /\ Fits /\ Made /\ Asked /\ Opened /\ Measured /\ wf[w] \in WorkflowType /\ Fit(wf[w])
      /\ 0 \in Experiments
  BY Constants DEF Shape, Fits, TypeOK
<1>2. TypeOK'
  BY TurnTypes
<1>3. Fits'
  BY <1>1, TurnWrites DEF Fits
<1>4. Made'
  <2>1. ASSUME r.pc \in {"launchBase", "baseControl", "baseResume", "baseClear", "launch", "poll", "parent"}
        PROVE  exp'[r.n].status # "none"
    <3>1. CASE FindsBase(w, r)
      <4>1. r.n = 0
        BY <1>1, <2>1, <3>1 DEF FindsBase, Keeps
      <4>2. exp' = [exp EXCEPT ![0].status = "running"] => exp'[0].status = "running"
        BY <1>1 DEF TypeOK
      <4> QED BY <2>1, <3>1, <4>1, <4>2 DEF FindsBase
    <3>2. CASE LaunchesBase(w, r)
      BY <1>1, <2>1, <3>2 DEF LaunchesBase
    <3>3. CASE MakesChild(w, r)
      <4>1. r.n \in Experiments
        BY <1>1, <3>3, Constants DEF MakesChild, Fit, InRound, Keeps
      <4>2. exp' = [exp EXCEPT ![r.n].status = IF @ = "none" THEN "running" ELSE @]
        BY <3>3 DEF MakesChild
      <4>3. exp'[r.n].status = IF exp[r.n].status = "none" THEN "running" ELSE exp[r.n].status
        BY <1>1, <4>1, <4>2, MadeChild
      <4> QED BY <4>3
    <3>4. CASE ~(FindsBase(w, r) \/ LaunchesBase(w, r) \/ MakesChild(w, r))
      <4>1. /\ r.n = wf[w].n /\ r.n \in Experiments
            /\ wf[w].pc \in {"launchBase", "baseControl", "baseResume", "baseClear", "launch", "poll", "parent"}
        <5>1. CASE ReadsControl(w, r) \/ ResumesBase(w, r)
          BY <1>1, <2>1, <5>1, TurnWrites DEF ReadsControl, ResumesBase, Fit, Opening
        <5>2. CASE Clears(w, r)
          BY <1>1, <2>1, <5>2, TurnWrites, Constants DEF Clears, Keeps, Fit, Waiting
        <5>3. CASE LaunchesChild(w, r)
          BY <1>1, <2>1, <5>3, TurnWrites, Constants DEF LaunchesChild, Fit, InRound
        <5>4. CASE Polls(w, r) \/ PollsParent(w, r)
          BY <1>1, <2>1, <5>4, TurnWrites, Constants DEF Polls, PollsParent, Leaves, Keeps, Fit, Waiting
        <5> QED BY <2>1, <3>4, <5>1, <5>2, <5>3, <5>4 DEF Turn, Fails, Loads, Marks, MakesFirst,
                Reloads, Checks, Tops, Prepares, Calls, Versions, FindsBest, EndsRound, ReadsHistory, Finishes
      <4> QED BY <1>1, <4>1, TurnGrows DEF Made
    <3> QED BY <3>1, <3>2, <3>3, <3>4
  <2>2. ASSUME NEW v \in Workflows, v # w,
               wf[v].pc \in {"launchBase", "baseControl", "baseResume", "baseClear", "launch", "poll", "parent"}
        PROVE  exp'[wf[v].n].status # "none"
    <3>1. wf[v].n \in Experiments
      BY <1>1, <2>2, Constants DEF Fits, Fit, Opening, InRound, Waiting
    <3> QED BY <1>1, <2>2, <3>1, TurnGrows DEF Made
  <2> QED BY <1>1, <2>1, <2>2, TurnWrites DEF Made
<1>5. Asked'
  BY <1>1, TurnWrites DEF Asked, TypeOK
<1>6. Opened'
  <2>1. mode # "none" /\ mode' # "none"
    BY <1>1, TurnWrites DEF Opened, Live
  <2>2. ~(req["user"].pc = "launch" /\ req["user"].action = "start")
    BY <1>1, TurnWrites DEF Opened, Live
  <2>3. ASSUME NEW v \in Workflows, wf[v].pc = "none" PROVE wf'[v].pc = "none"
    BY <2>3, TurnWrites, <1>1 DEF Live
  <2> QED BY <1>1, <2>1, <2>2, <2>3, TurnWrites DEF Opened, Pending
<1>7. Measured'
  <2>1. best' # 0 => exp'[best'].status = "success"
    <3>1. CASE best' = best
      BY <1>1, <3>1, TurnGrows DEF Measured, TypeOK
    <3>2. CASE FindsBest(w, r) /\ best' = wf[w].n
      <4>1. exp[wf[w].n].status = "success" /\ wf[w].n \in Experiments
        BY <1>1, <3>2, Constants DEF FindsBest, Measured, Fit, InRound
      <4> QED BY <3>2, <4>1, TurnGrows
    <3> QED BY <1>1, <3>1, <3>2, TurnWrites DEF FindsBest
  <2>2. ASSUME NEW n \in Rounds, exp'[n].status # "none" PROVE parent'[n] # None
    <3>1. n \in Experiments /\ n # 0
      BY Constants
    <3>2. CASE MakesChild(w, r) /\ n = r.n
      <4>1. parent[n] # None
        BY <1>1, <3>2 DEF MakesChild, Keeps, Measured
      <4> QED BY <3>1, <4>1, TurnGrows
    <3>3. CASE ~(MakesChild(w, r) /\ n = r.n)
      <4>1. exp[n].status # "none"
        <5>1. CASE exp' = exp
          BY <2>2, <5>1
        <5>2. CASE FindsBase(w, r)
          BY <1>1, <2>2, <3>1, <5>2 DEF FindsBase, TypeOK
        <5>3. CASE LaunchesBase(w, r)
          BY <1>1, <2>2, <3>1, <5>3, StartedChild DEF LaunchesBase, Made, Fit, Opening
        <5>4. CASE ResumesBase(w, r)
          BY <1>1, <2>2, <3>1, <5>4, ResumedChild DEF ResumesBase
        <5>5. CASE MakesChild(w, r)
          <6>1. r.n \in Experiments /\ n # r.n
            BY <1>1, <3>3, <5>5, Constants DEF MakesChild, Fit, InRound, Keeps
          <6> QED BY <1>1, <2>2, <3>1, <5>5, <6>1, MadeChild DEF MakesChild
        <5>6. CASE LaunchesChild(w, r)
          <6>1. r.n \in Experiments /\ exp[r.n].status # "none"
            BY <1>1, <5>6, Constants DEF LaunchesChild, Fit, InRound, Made
          <6> QED BY <1>1, <2>2, <3>1, <5>6, <6>1, StartedChild, ResumedChild DEF LaunchesChild
        <5>7. CASE PollsParent(w, r)
          BY <1>1, <2>2, <3>1, <5>7, StoppedChild DEF PollsParent
        <5> QED BY <1>1, <5>1, <5>2, <5>3, <5>4, <5>5, <5>6, <5>7, TurnWrites
      <4> QED BY <1>1, <3>1, <4>1, TurnGrows DEF Measured
    <3> QED BY <3>2, <3>3
  <2>3. r.pc \in {"best", "current"} => exp'[r.n].status = "success" /\ r.score = exp'[r.n].score
    <3>1. ASSUME r.pc \in {"best", "current"}
          PROVE  r.n \in Experiments /\ exp[r.n].status = "success" /\ r.score = exp[r.n].score
      <4>1. r.n \in Experiments
        <5>1. Fit(r)
          BY <1>1, TurnWrites
        <5> QED BY <3>1, <5>1, Constants DEF Fit, InRound
      <4>2. Polls(w, r) \/ PollsParent(w, r) \/ FindsBest(w, r)
        BY <3>1 DEF Turn, Fails, Loads, Marks, MakesFirst, FindsBase, LaunchesBase, ReadsControl, ResumesBase,
           Clears, Reloads, Checks, Tops, Prepares, Calls, Versions, MakesChild, LaunchesChild, EndsRound,
           ReadsHistory, Finishes
      <4> QED BY <1>1, <3>1, <4>1, <4>2 DEF Polls, PollsParent, FindsBest, Leaves, Keeps, Measured
    <3> QED BY <3>1, TurnGrows
  <2>4. r.pc = "experiment" => parent'[r.n] # None
    <3>1. ASSUME r.pc = "experiment" PROVE Versions(w, r)
      BY <3>1, TurnWrites DEF Turn, Fails, Loads, Marks, MakesFirst, FindsBase, LaunchesBase, ReadsControl, ResumesBase,
           Clears, Reloads, Checks, Tops, Prepares, Calls, MakesChild, LaunchesChild, Polls, PollsParent,
           Leaves, FindsBest, EndsRound, ReadsHistory, Finishes
    <3>2. ASSUME Versions(w, r) PROVE parent'[r.n] # None
      <4>1. r.n \in Experiments /\ wf[w].base \in Experiments
        BY <1>1, <3>2, Constants DEF Versions, Keeps, Fit, InRound, WorkflowType
      <4> QED BY <1>1, <3>2, <4>1, Constants DEF Versions, TypeOK
    <3> QED BY <3>1, <3>2
  <2>5. ASSUME NEW v \in Workflows, v # w
        PROVE  /\ wf[v].pc \in {"best", "current"} =>
                    exp'[wf[v].n].status = "success" /\ wf[v].score = exp'[wf[v].n].score
               /\ wf[v].pc = "experiment" => parent'[wf[v].n] # None
    <3>1. wf[v].pc \in {"best", "current", "experiment"} => wf[v].n \in Experiments
      BY <1>1, Constants DEF Fits, Fit, InRound
    <3> QED BY <1>1, <3>1, TurnGrows DEF Measured
  <2> QED BY <1>1, <2>1, <2>2, <2>3, <2>4, <2>5, TurnWrites, TurnGrows DEF Measured
<1> QED BY <1>2, <1>3, <1>4, <1>5, <1>6, <1>7 DEF Shape

\* The other steps.
LEMMA SameWork ==
  ASSUME Shape, UNCHANGED <<best, parent, exp, wf>>
  PROVE  Fits' /\ Made' /\ Measured'
<1>1. Fits' /\ Made'
  BY DEF Shape, Fits, Made
<1>2. Measured'
  BY DEF Shape, Measured
<1> QED BY <1>1, <1>2

LEMMA CreateKeepsShape ==
  ASSUME Shape, Create
  PROVE  Shape'
<1>1. /\ TypeOK /\ Fits /\ Made /\ Asked /\ Opened /\ Measured /\ 0 \in Experiments /\ mode = "none" /\ CanLaunch
      /\ req["recovery"].pc = "idle"
  BY Constants DEF Shape, Create
<1>2. /\ mode' \in Modes /\ status' = "running"
      /\ parent' = [parent EXCEPT ![0] = IF mode' = "from_dataset_only" THEN None ELSE 0]
      /\ UNCHANGED <<control, objective, wfId, best, current, calls, wf, happened>>
  BY DEF Create
<1>3. mode' \in StartingModes
  BY <1>2, OptimizationAssumption
<1>4. PICK s \in SourceScores :
         exp' = IF mode' = "from_experiment"
                THEN [exp EXCEPT ![0] = [@ EXCEPT !.status = "success", !.launched = TRUE,
                                                  !.score = s]]
                ELSE exp
  BY DEF Create
<1>5. s \in Scores
  BY OptimizationAssumption DEF Scores
<1>6. PICK e : e = [exp[0] EXCEPT !.status = "success", !.launched = TRUE, !.score = s]
  OBVIOUS
<1>7. exp[0] \in ExperimentType /\ Sound(exp[0]) /\ exp[0].status = "none"
  BY <1>1 DEF TypeOK, Measured, Opened
<1>8. e \in ExperimentType /\ Sound(e)
  BY <1>5, <1>6, <1>7 DEF ExperimentType, Sound
<1>9. /\ exp' \in [Experiments -> ExperimentType]
      /\ exp'[0] = exp[0] \/ exp'[0] = e
      /\ \A n \in Rounds : exp'[n] = exp[n]
  BY <1>1, <1>4, <1>6, <1>8, Constants DEF TypeOK
<1>10. parent' \in [Experiments -> Experiments \cup {None}] /\ \A n \in Rounds : parent'[n] = parent[n]
  BY <1>1, <1>2, Constants DEF TypeOK
<1>11. PICK q : q = [req["user"] EXCEPT !.pc = "launch", !.action = "start"]
  OBVIOUS
<1>12. q \in RequestType /\ q.pc = "launch" /\ q.action = "start"
  BY <1>1, <1>11 DEF TypeOK, RequestType, Requests
<1>13. req' = [req EXCEPT !["user"] = q]
  BY <1>11 DEF Create
<1>14. req' \in [Requests -> RequestType] /\ req'["user"] = q /\ req'["recovery"] = req["recovery"]
  BY <1>1, <1>12, <1>13 DEF TypeOK, Requests
<1>15. TypeOK'
  BY <1>1, <1>2, <1>3, <1>9, <1>10, <1>14 DEF TypeOK
<1>16. \A w \in Workflows : wf[w].pc = "none"
  BY <1>1 DEF Opened
<1>17. Fits' /\ Made'
  BY <1>1, <1>2, <1>16 DEF Fits, Made
<1>18. Asked'
  BY <1>1, <1>2, <1>12, <1>14 DEF Asked, Requests
<1>19. Opened'
  <2>1. mode' # "none"
    BY <1>3 DEF StartingModes
  <2>2. wfId' = None
    BY <1>1, <1>2, <1>16 DEF Asked, TypeOK
  <2>3. \E w \in Workflows : wf'[w].pc = "none"
    BY <1>1, <1>2, UnusedId
  <2> QED BY <2>1, <2>2, <2>3, <1>2, <1>16 DEF Opened
<1>20. Measured'
  <2>1. best' # 0 => exp'[best'].status = "success"
    <3>1. best' # 0 => best \in Rounds
      BY <1>1, <1>2, Constants DEF TypeOK
    <3> QED BY <1>1, <1>2, <1>9, <3>1 DEF Measured
  <2>2. \A n \in Rounds : exp'[n].status # "none" => parent'[n] # None
    BY <1>1, <1>9, <1>10 DEF Measured
  <2>3. \A n \in Experiments : Sound(exp'[n])
    BY <1>1, <1>8, <1>9, Constants DEF Measured
  <2> QED BY <2>1, <2>2, <2>3, <1>2, <1>16 DEF Measured
<1> QED BY <1>15, <1>17, <1>18, <1>19, <1>20 DEF Shape

LEMMA RequestKeepsShape ==
  ASSUME Shape, Request
  PROVE  Shape'
<1>1. /\ TypeOK /\ Asked /\ Opened /\ \A c \in Requests : req[c].pc = "idle"
      /\ UNCHANGED <<row, progress, exp, wf>>
  BY DEF Shape, Request
<1>2. PICK a \in Actions :
         /\ status \in Accepts(a)
         /\ a = "resume" => CanLaunch
         /\ happened' = happened \/ happened' = happened \cup {"hasty"}
         /\ req' = [req EXCEPT !["user"] = [@ EXCEPT !.pc = "patch", !.action = a, !.seen = status]]
  BY DEF Request, Fault
<1>3. a \in {"stop", "resume", "cancel"}
  BY OptimizationAssumption
<1>4. status \in {"running", "stopped", "failed"}
  BY <1>2, <1>3 DEF Accepts
<1>5. PICK q : q = [req["user"] EXCEPT !.pc = "patch", !.action = a, !.seen = status]
  OBVIOUS
<1>6. q \in RequestType /\ q.pc = "patch" /\ q.action = a
  BY <1>1, <1>3, <1>4, <1>5 DEF TypeOK, RequestType, Requests
<1>7. req' \in [Requests -> RequestType] /\ req'["user"] = q /\ req'["recovery"] = req["recovery"]
  BY <1>1, <1>2, <1>5, <1>6 DEF TypeOK, Requests
<1>8. TypeOK'
  <2>1. happened' \subseteq FaultKinds \cup {"twin", "missed", "overruled"}
    BY <1>1, <1>2 DEF TypeOK, FaultKinds
  <2> QED BY <1>1, <1>7, <2>1 DEF TypeOK, row, progress
<1>9. Fits' /\ Made' /\ Measured'
  BY <1>1, SameWork DEF progress
<1>10. Asked'
  BY <1>1, <1>3, <1>6, <1>7 DEF Asked, Requests, row
<1>11. Opened'
  <2>1. mode # "none"
    BY <1>1, <1>4 DEF Opened
  <2>2. a = "resume" => \E w \in Workflows : wf[w].pc = "none"
    BY <1>2, UnusedId
  <2>3. \A c \in Requests : Pending(c)' => a = "resume"
    BY <1>1, <1>3, <1>6, <1>7 DEF Pending, Requests
  <2> QED BY <1>1, <1>3, <1>6, <1>7, <2>1, <2>2, <2>3 DEF Opened, row
<1> QED BY <1>8, <1>9, <1>10, <1>11 DEF Shape

LEMMA PatchKeepsShape ==
  ASSUME Shape, Patch
  PROVE  Shape'
<1>1. /\ TypeOK /\ Asked /\ Opened /\ req["user"].pc = "patch"
      /\ UNCHANGED <<mode, wfId, progress, exp, wf, happened>>
  BY DEF Shape, Patch
<1>2. PICK a : a = req["user"].action
  OBVIOUS
<1>3. a \in {"stop", "resume", "cancel"}
  BY <1>1, <1>2 DEF Asked
<1>4. /\ status' = PatchedStatus(a) /\ control' = a
      /\ objective' \in {"pending", "not_met", objective}
      /\ req' = [req EXCEPT !["user"].pc = IF a = "resume" THEN "launch" ELSE "link"]
  BY <1>2 DEF Patch
<1>5. PICK q : q = [req["user"] EXCEPT !.pc = IF a = "resume" THEN "launch" ELSE "link"]
  OBVIOUS
<1>6. q \in RequestType /\ q.pc = (IF a = "resume" THEN "launch" ELSE "link") /\ q.action = a
  BY <1>1, <1>2, <1>3, <1>5 DEF TypeOK, RequestType, Requests
<1>7. req' \in [Requests -> RequestType] /\ req'["user"] = q /\ req'["recovery"] = req["recovery"]
  BY <1>1, <1>4, <1>5, <1>6 DEF TypeOK, Requests
<1>8. TypeOK'
  <2>1. status' \in {"stopped", "running", "cancelled"}
    BY <1>3, <1>4 DEF PatchedStatus
  <2> QED BY <1>1, <1>3, <1>4, <1>7, <2>1 DEF TypeOK, progress
<1>9. Fits' /\ Made' /\ Measured'
  BY <1>1, SameWork DEF progress
<1>10. Asked'
  BY <1>1, <1>3, <1>6, <1>7 DEF Asked, Requests
<1>11. Opened'
  <2>1. mode # "none"
    BY <1>1 DEF Opened
  <2>2. a = "resume" => \E w \in Workflows : wf[w].pc = "none"
    BY <1>1, <1>2 DEF Opened, Pending, Requests
  <2>3. \A c \in Requests : Pending(c)' => a = "resume"
    BY <1>1, <1>3, <1>6, <1>7 DEF Pending, Requests, Asked
  <2> QED BY <1>1, <1>3, <1>6, <1>7, <2>1, <2>2, <2>3 DEF Opened
<1> QED BY <1>8, <1>9, <1>10, <1>11 DEF Shape

LEMMA LinkChildKeepsShape ==
  ASSUME Shape, LinkChild
  PROVE  Shape'
<1>1. /\ TypeOK /\ Fits /\ Made /\ Asked /\ Opened /\ Measured /\ req["user"].pc = "link"
      /\ UNCHANGED <<row, progress, wf>>
  BY DEF Shape, LinkChild
<1>2. /\ exp' = Stopped(exp, ActiveChild) \/ exp' = exp
      /\ happened' = happened \/ happened' = happened \cup {"link"}
      /\ req' = [req EXCEPT !["user"] = IdleRequest]
  BY DEF LinkChild, Fault
<1>3. \A n \in Experiments : exp'[n] \in ExperimentType /\ Evolves(exp[n], exp'[n]) /\ exp'[n].status = exp[n].status
                             /\ exp'[n].score = exp[n].score
  <2>1. CASE exp' = exp
    BY <1>1, <2>1 DEF TypeOK, Evolves
  <2>2. CASE exp' = Stopped(exp, ActiveChild)
    BY <1>1, <2>2, StoppedChild
  <2> QED BY <1>2, <2>1, <2>2
<1>4. exp' \in [Experiments -> ExperimentType]
  BY <1>1, <1>2, <1>3 DEF Stopped, TypeOK
<1>5. \A n \in Experiments : Sound(exp'[n])
  BY <1>1, <1>3, EvolvesSoundly DEF TypeOK, Measured
<1>6. IdleRequest \in RequestType /\ IdleRequest.pc = "idle"
  BY DEF IdleRequest, RequestType
<1>7. req' \in [Requests -> RequestType] /\ req'["user"] = IdleRequest /\ req'["recovery"] = req["recovery"]
  BY <1>1, <1>2, <1>6 DEF TypeOK, Requests
<1>8. TypeOK'
  <2>1. happened' \subseteq FaultKinds \cup {"twin", "missed", "overruled"}
    BY <1>1, <1>2 DEF TypeOK, FaultKinds
  <2> QED BY <1>1, <1>4, <1>7, <2>1 DEF TypeOK, row, progress
<1>9. Fits'
  BY <1>1 DEF Fits
<1>10. \A w \in Workflows : wf[w].pc \in {"launchBase", "baseControl", "baseResume", "baseClear", "launch", "poll",
                                          "parent", "best", "current", "experiment"} => wf[w].n \in Experiments
  BY <1>1, Constants DEF Fits, Fit, Opening, InRound, Waiting
<1>11. Made'
  BY <1>1, <1>3, <1>10 DEF Made
<1>12. Measured'
  BY <1>1, <1>3, <1>5, <1>10, Constants DEF Measured, progress, TypeOK
<1>13. Asked'
  BY <1>1, <1>6, <1>7 DEF Asked, Requests, row
<1>14. Opened'
  <2>1. mode # "none"
    BY <1>1 DEF Opened
  <2>2. \A c \in Requests : Pending(c)' => Pending(c)
    BY <1>6, <1>7 DEF Pending, Requests
  <2> QED BY <1>1, <1>6, <1>7, <2>1, <2>2 DEF Opened, row
<1> QED BY <1>8, <1>9, <1>11, <1>12, <1>13, <1>14 DEF Shape

\* A workflow is started under an id that was not used before.
LEMMA Launched ==
  ASSUME Shape, NEW c \in Requests, Launch(c)
  PROVE  \E w \in Workflows :
           /\ wf[w].pc = "none" /\ wf'[w].pc = "load" /\ wf'[w].n = 0 /\ wf'[w].end = "none"
           /\ wf'[w].linked = wf[w].linked
           /\ wf' \in [Workflows -> WorkflowType]
           /\ \A v \in Workflows : v # w => wf'[v] = wf[v]
           /\ req' \in [Requests -> RequestType]
           /\ req'[c].pc = "setid" /\ req'[c].action = req[c].action /\ req'[c].new = w
           /\ \A d \in Requests : d # c => req'[d] = req[d]
<1>1. TypeOK /\ Fits /\ Asked /\ Opened /\ req[c].pc = "launch"
  BY DEF Shape, Launch
<1>2. Pending(c)
  BY <1>1 DEF Asked, Pending, Requests
<1>3. PICK w : w = CHOOSE x \in Workflows : wf[x].pc = "none"
  OBVIOUS
<1>4. w \in Workflows /\ wf[w].pc = "none"
  BY <1>1, <1>2, <1>3 DEF Opened
<1>5. /\ wf' = [wf EXCEPT ![w].pc = "load"]
      /\ req' = [req EXCEPT ![c] = [@ EXCEPT !.pc = "setid", !.new = w]]
  BY <1>3 DEF Launch
<1>6. PICK l : l = [wf[w] EXCEPT !.pc = "load"]
  OBVIOUS
<1>7. l \in WorkflowType /\ l.pc = "load" /\ l.n = 0 /\ l.end = "none" /\ l.linked = wf[w].linked
  BY <1>1, <1>4, <1>6 DEF TypeOK, Fits, Fit, WorkflowType, WorkflowPcs
<1>8. wf' \in [Workflows -> WorkflowType] /\ wf'[w] = l /\ \A v \in Workflows : v # w => wf'[v] = wf[v]
  BY <1>1, <1>4, <1>5, <1>6, <1>7 DEF TypeOK
<1>9. PICK q : q = [req[c] EXCEPT !.pc = "setid", !.new = w]
  OBVIOUS
<1>10. q \in RequestType /\ q.pc = "setid" /\ q.action = req[c].action /\ q.new = w
  BY <1>1, <1>4, <1>9 DEF TypeOK, RequestType
<1>11. req' \in [Requests -> RequestType] /\ req'[c] = q /\ \A d \in Requests : d # c => req'[d] = req[d]
  BY <1>1, <1>5, <1>9, <1>10 DEF TypeOK
<1> QED BY <1>4, <1>7, <1>8, <1>10, <1>11

LEMMA LaunchKeepsShape ==
  ASSUME Shape, NEW c \in Requests, Launch(c)
  PROVE  Shape'
<1>1. /\ TypeOK /\ Fits /\ Made /\ Asked /\ Opened /\ Measured /\ req[c].pc = "launch"
      /\ UNCHANGED <<row, progress, exp>>
      /\ happened' = happened \/ happened' = happened \cup {"twin"}
  BY DEF Shape, Launch
<1>2. PICK w \in Workflows :
           /\ wf[w].pc = "none" /\ wf'[w].pc = "load" /\ wf'[w].n = 0 /\ wf'[w].end = "none"
           /\ wf'[w].linked = wf[w].linked
           /\ wf' \in [Workflows -> WorkflowType]
           /\ \A v \in Workflows : v # w => wf'[v] = wf[v]
           /\ req' \in [Requests -> RequestType]
           /\ req'[c].pc = "setid" /\ req'[c].action = req[c].action /\ req'[c].new = w
           /\ \A d \in Requests : d # c => req'[d] = req[d]
  BY Launched
<1>3. TypeOK'
  <2>1. happened' \subseteq FaultKinds \cup {"twin", "missed", "overruled"}
    BY <1>1 DEF TypeOK
  <2> QED BY <1>1, <1>2, <2>1 DEF TypeOK, row, progress
<1>4. Fits'
  BY <1>1, <1>2 DEF Fits, Fit, Opening, Planned, InRound, Waiting
<1>5. Made'
  BY <1>1, <1>2 DEF Made
<1>6. Measured'
  <2>1. \A v \in Workflows :
          /\ wf'[v].pc \in {"best", "current"} =>
                exp'[wf'[v].n].status = "success" /\ wf'[v].score = exp'[wf'[v].n].score
          /\ wf'[v].pc = "experiment" => parent'[wf'[v].n] # None
    BY <1>1, <1>2 DEF Measured, progress
  <2> QED BY <1>1, <2>1 DEF Measured, progress
<1>7. Asked'
  <2>1. \A v \in Workflows : wf[v].pc # "none" => wf'[v].pc # "none"
    BY <1>2
  <2>2. CASE c = "user"
    <3>1. req'["user"].pc = "setid" /\ req'["user"].action = req["user"].action /\ req'["user"].new = w
          /\ req'["recovery"] = req["recovery"] /\ req["recovery"].pc = "idle"
      BY <1>1, <1>2, <2>2 DEF Requests, Asked
    <3> QED BY <1>1, <1>2, <2>1, <2>2, <3>1 DEF Asked, Requests, row, TypeOK
  <2>3. CASE c = "recovery"
    <3>1. req'["recovery"].pc = "setid" /\ req'["recovery"].action = req["recovery"].action /\ req'["recovery"].new = w
          /\ req'["user"] = req["user"] /\ req["user"].pc = "idle"
      BY <1>1, <1>2, <2>3 DEF Requests, Asked
    <3> QED BY <1>1, <1>2, <2>1, <2>3, <3>1 DEF Asked, Requests, row, TypeOK
  <2> QED BY <2>2, <2>3 DEF Requests
<1>8. Opened'
  <2>1. mode # "none"
    BY <1>1, <1>2 DEF Opened, Requests
  <2>2. \A d \in Requests : ~Pending(d)'
    BY <1>1, <1>2 DEF Pending, Requests, Asked
  <2>3. req'["user"].pc # "idle" /\ req'["user"].action = "start" => c = "user"
    BY <1>1, <1>2 DEF Requests, Asked
  <2>4. req'["user"].pc # "launch"
    BY <1>1, <1>2 DEF Requests, Asked
  <2> QED BY <1>1, <1>2, <2>1, <2>2, <2>3, <2>4 DEF Opened, row
<1> QED BY <1>3, <1>4, <1>5, <1>6, <1>7, <1>8 DEF Shape

LEMMA Freed ==
  ASSUME TypeOK, NEW c \in Requests, req' = [req EXCEPT ![c] = IdleRequest]
  PROVE  /\ req' \in [Requests -> RequestType] /\ req'[c].pc = "idle"
         /\ \A d \in Requests : d # c => req'[d] = req[d]
<1>1. IdleRequest \in RequestType /\ IdleRequest.pc = "idle"
  BY DEF IdleRequest, RequestType
<1> QED BY <1>1 DEF TypeOK

LEMMA SetWorkflowIdKeepsShape ==
  ASSUME Shape, NEW c \in Requests, SetWorkflowId(c)
  PROVE  Shape'
<1>1. /\ TypeOK /\ Asked /\ Opened /\ req[c].pc = "setid" /\ wfId' = req[c].new
      /\ req' = [req EXCEPT ![c] = IdleRequest]
      /\ UNCHANGED <<mode, status, control, objective, progress, exp, wf, happened>>
  BY DEF Shape, SetWorkflowId
<1>2. /\ req' \in [Requests -> RequestType] /\ req'[c].pc = "idle"
      /\ \A d \in Requests : d # c => req'[d] = req[d]
  BY <1>1, Freed
<1>3. wfId' \in Workflows /\ wf[wfId'].pc # "none"
  BY <1>1 DEF Asked
<1>4. TypeOK'
  BY <1>1, <1>2, <1>3 DEF TypeOK, progress
<1>5. Fits' /\ Made' /\ Measured'
  BY <1>1, SameWork DEF progress
<1>6. Asked'
  BY <1>1, <1>2, <1>3 DEF Asked, Requests
<1>7. Opened'
  <2>1. mode # "none"
    BY <1>1, <1>3 DEF Opened
  <2>2. \A d \in Requests : Pending(d)' => Pending(d)
    BY <1>2 DEF Pending
  <2>3. req'["user"].pc = "idle"
    BY <1>1, <1>2 DEF Requests, Asked
  <2> QED BY <1>1, <2>1, <2>2, <2>3 DEF Opened
<1> QED BY <1>4, <1>5, <1>6, <1>7 DEF Shape

LEMMA LaunchFailsKeepsShape ==
  ASSUME Shape, NEW c \in Requests, LaunchFails(c)
  PROVE  Shape'
<1>1. /\ TypeOK /\ Asked /\ Opened /\ req[c].pc \in {"launch", "setid"}
      /\ happened' = happened \cup {req[c].pc}
      /\ req' = [req EXCEPT ![c] = IdleRequest]
      /\ UNCHANGED <<mode, wfId, progress, exp, wf>>
      /\ \/ status' = "failed" /\ objective' = "unknown" /\ control' = "none"
         \/ UNCHANGED <<status, objective, control>>
  BY DEF Shape, LaunchFails, Fault
<1>2. /\ req' \in [Requests -> RequestType] /\ req'[c].pc = "idle"
      /\ \A d \in Requests : d # c => req'[d] = req[d]
  BY <1>1, Freed
<1>3. TypeOK'
  <2>1. happened' \subseteq FaultKinds \cup {"twin", "missed", "overruled"}
    BY <1>1 DEF TypeOK, FaultKinds
  <2> QED BY <1>1, <1>2, <2>1 DEF TypeOK, progress
<1>4. Fits' /\ Made' /\ Measured'
  BY <1>1, SameWork DEF progress
<1>5. Asked'
  BY <1>1, <1>2 DEF Asked, Requests
<1>6. Opened'
  <2>1. mode # "none"
    <3>1. CASE c = "user"
      BY <1>1, <3>1 DEF Opened
    <3>2. CASE c = "recovery" /\ req[c].pc = "launch"
      BY <1>1, <3>2 DEF Opened
    <3>3. CASE c = "recovery" /\ req[c].pc = "setid"
      BY <1>1, <3>3 DEF Opened
    <3> QED BY <1>1, <3>1, <3>2, <3>3 DEF Requests
  <2>2. \A d \in Requests : Pending(d)' => Pending(d)
    BY <1>2 DEF Pending
  <2>3. req'["user"].pc = "idle"
    BY <1>1, <1>2 DEF Requests, Asked
  <2> QED BY <1>1, <2>1, <2>2, <2>3 DEF Opened
<1> QED BY <1>3, <1>4, <1>5, <1>6 DEF Shape

\* The children go on by themselves.
LEMMA ChildKeepsShape ==
  ASSUME Shape, NEW n \in Experiments, ExperimentEnds(n) \/ ExperimentStopped(n)
  PROVE  Shape' /\ \A m \in Experiments : Evolves(exp[m], exp'[m])
<1>1. /\ TypeOK /\ Fits /\ Made /\ Asked /\ Opened /\ Measured /\ Running(n)
      /\ UNCHANGED <<row, progress, req, wf>>
      /\ happened' = happened \/ happened' = happened \cup {"childstop"}
  BY DEF Shape, ExperimentEnds, ExperimentStopped, Fault
<1>2. exp' \in [Experiments -> ExperimentType] /\ \A m \in Experiments : Evolves(exp[m], exp'[m])
  <2>1. CASE ExperimentEnds(n)
    BY <1>1, <2>1, EndedChild
  <2>2. CASE exp' = Stopped(exp, {n})
    <3>1. \A m \in Experiments : exp'[m] \in ExperimentType /\ Evolves(exp[m], exp'[m])
      BY <1>1, <2>2, StoppedChild
    <3> QED BY <2>2, <3>1 DEF Stopped
  <2> QED BY <2>1, <2>2 DEF ExperimentStopped
<1>3. ASSUME NEW m \in Experiments
      PROVE  /\ Sound(exp'[m])
             /\ exp[m].status # "none" => exp'[m].status # "none"
             /\ exp[m].status = "success" => exp'[m].status = "success" /\ exp'[m].score = exp[m].score
  <2>1. exp[m] \in ExperimentType /\ exp'[m] \in ExperimentType /\ Evolves(exp[m], exp'[m]) /\ Sound(exp[m])
    BY <1>1, <1>2 DEF TypeOK, Measured
  <2> QED BY <2>1, EvolvesSoundly
<1>4. ASSUME NEW m \in Experiments, exp'[m].status # "none" PROVE exp[m].status # "none"
  <2>1. CASE ExperimentEnds(n)
    BY <1>1, <1>4, <2>1, EndedChild DEF Running
  <2>2. CASE exp' = Stopped(exp, {n})
    BY <1>1, <1>4, <2>2, StoppedChild
  <2> QED BY <2>1, <2>2 DEF ExperimentStopped
<1>5. TypeOK'
  <2>1. happened' \subseteq FaultKinds \cup {"twin", "missed", "overruled"}
    BY <1>1 DEF TypeOK, FaultKinds
  <2> QED BY <1>1, <1>2, <2>1 DEF TypeOK, row, progress
<1>6. Fits'
  BY <1>1 DEF Fits
<1>7. \A w \in Workflows : wf[w].pc \in {"launchBase", "baseControl", "baseResume", "baseClear", "launch", "poll",
                                         "parent", "best", "current", "experiment"} => wf[w].n \in Experiments
  BY <1>1, Constants DEF Fits, Fit, Opening, InRound, Waiting
<1>8. Made'
  BY <1>1, <1>3, <1>7 DEF Made
<1>9. Measured'
  BY <1>1, <1>3, <1>4, <1>7, Constants DEF Measured, progress, TypeOK
<1>10. Asked' /\ Opened'
  <2>1. mode # "none"
    BY <1>1 DEF Opened, Running
  <2> QED BY <1>1, <2>1 DEF Asked, Opened, Pending, row
<1> QED BY <1>2, <1>5, <1>6, <1>8, <1>9, <1>10 DEF Shape

LEMMA Restarted ==
  ASSUME Shape, Restart
  PROVE  /\ wf' \in [Workflows -> WorkflowType]
         /\ \A w \in Workflows : Fit(wf'[w]) /\ Restarts(wf[w], wf'[w])
         /\ req' \in [Requests -> RequestType]
         /\ req'["user"].pc = "idle" /\ req'["recovery"].pc = "scan" /\ req'["recovery"].action = "resume"
         /\ mode \in Modes /\ UNCHANGED <<row, progress, exp>>
         /\ \/ happened' = happened \cup {"restart"}
            \/ happened' = happened \cup {"lookup"} /\ current >= TwinsFrom
            \/ happened' = happened \cup {"crash"}
<1>1. TypeOK /\ Fits
  BY DEF Shape
<1>2. /\ req' = [c \in Requests |->
                  IF c = "recovery" THEN [IdleRequest EXCEPT !.pc = "scan", !.action = "resume"]
                  ELSE IdleRequest]
      /\ wf' = [w \in Workflows |-> Replayed(wf[w])]
      /\ UNCHANGED <<row, progress, exp>>
  BY DEF Restart
<1>3. /\ mode \in Modes
      /\ \/ happened' = happened \cup {"restart"}
         \/ happened' = happened \cup {"lookup"} /\ current >= TwinsFrom
         \/ happened' = happened \cup {"crash"}
  BY DEF Restart, Fault
<1>4. \A w \in Workflows : wf'[w] \in WorkflowType /\ Fit(wf'[w]) /\ Restarts(wf[w], wf'[w])
  BY <1>1, <1>2, Replaying DEF TypeOK, Fits
<1>5. wf' \in [Workflows -> WorkflowType]
  BY <1>2, <1>4
<1>6. PICK q : q = [IdleRequest EXCEPT !.pc = "scan", !.action = "resume"]
  OBVIOUS
<1>7. /\ IdleRequest \in RequestType /\ IdleRequest.pc = "idle"
      /\ q \in RequestType /\ q.pc = "scan" /\ q.action = "resume"
  BY <1>6 DEF IdleRequest, RequestType
<1>8. req' = [c \in Requests |-> IF c = "recovery" THEN q ELSE IdleRequest]
  BY <1>2, <1>6
<1>9. /\ req' \in [Requests -> RequestType]
      /\ req'["user"].pc = "idle" /\ req'["recovery"].pc = "scan" /\ req'["recovery"].action = "resume"
  BY <1>7, <1>8 DEF Requests
<1> QED BY <1>2, <1>3, <1>4, <1>5, <1>9

LEMMA RestartKeepsShape ==
  ASSUME Shape, Restart
  PROVE  Shape'
<1>1. TypeOK /\ Fits /\ Made /\ Asked /\ Opened /\ Measured
  BY DEF Shape
<1>2. /\ wf' \in [Workflows -> WorkflowType]
      /\ \A w \in Workflows : Fit(wf'[w]) /\ Restarts(wf[w], wf'[w])
      /\ req' \in [Requests -> RequestType]
      /\ req'["user"].pc = "idle" /\ req'["recovery"].pc = "scan" /\ req'["recovery"].action = "resume"
      /\ mode \in Modes /\ UNCHANGED <<row, progress, exp>>
      /\ \/ happened' = happened \cup {"restart"} \/ happened' = happened \cup {"lookup"}
         \/ happened' = happened \cup {"crash"}
  BY Restarted
<1>3. TypeOK'
  <2>1. happened' \subseteq FaultKinds \cup {"twin", "missed", "overruled"}
    BY <1>1, <1>2 DEF TypeOK, FaultKinds
  <2> QED BY <1>1, <1>2, <2>1 DEF TypeOK, row, progress
<1>4. Fits'
  BY <1>2 DEF Fits
<1>5. ASSUME NEW w \in Workflows
      PROVE  /\ wf'[w].pc = "none" <=> wf[w].pc = "none"
             /\ wf'[w].pc \in {"launchBase", "baseControl", "baseResume", "baseClear", "launch", "parent"} =>
                   wf'[w] = wf[w]
             /\ wf'[w].pc = "poll" => exp[wf'[w].n].status # "none"
             /\ wf'[w].pc \in {"best", "current", "experiment"} => wf'[w] = wf[w]
  <2>1. Restarts(wf[w], wf'[w])
    BY <1>2
  <2>2. CASE wf'[w] = wf[w]
    BY <1>1, <2>2 DEF Made
  <2>3. CASE wf'[w].pc = "prepare" /\ wf[w].pc \in {"call", "version", "experiment"}
    BY <2>3
  <2>4. CASE wf[w].pc \in {"poll", "parent", "best", "current"} /\ wf'[w].pc = "poll" /\ wf'[w].n = wf[w].n
    <3>1. exp[wf[w].n].status # "none"
      BY <1>1, <2>4 DEF Made, Measured
    <3> QED BY <2>4, <3>1
  <2> QED BY <2>1, <2>2, <2>3, <2>4 DEF Restarts
<1>6. Made' /\ Measured'
  <2>1. Made'
    BY <1>1, <1>2, <1>5 DEF Made
  <2>2. Measured'
    BY <1>1, <1>2, <1>5 DEF Measured, progress
  <2> QED BY <2>1, <2>2
<1>7. Asked'
  BY <1>1, <1>2, <1>5 DEF Asked, Requests, row, TypeOK
<1>8. Opened'
  <2>1. \A c \in Requests : ~Pending(c)'
    BY <1>2 DEF Pending, Requests
  <2> QED BY <1>1, <1>2, <1>5, <2>1 DEF Opened, row
<1> QED BY <1>3, <1>4, <1>6, <1>7, <1>8 DEF Shape

LEMMA RecoverKeepsShape ==
  ASSUME Shape, Recover
  PROVE  Shape'
<1>1. /\ TypeOK /\ Asked /\ Opened /\ req["recovery"].pc = "scan"
      /\ UNCHANGED <<row, progress, exp, wf, happened>>
      /\ \/ Orphaned /\ CanLaunch /\ req' = [req EXCEPT !["recovery"].pc = "launch"]
         \/ req' = [req EXCEPT !["recovery"] = IdleRequest]
  BY DEF Shape, Recover
<1>2. /\ req' \in [Requests -> RequestType] /\ req'["user"] = req["user"]
      /\ \/ /\ req'["recovery"].pc = "launch" /\ req'["recovery"].action = req["recovery"].action
            /\ Orphaned /\ CanLaunch
         \/ req'["recovery"].pc = "idle"
  <2>1. CASE req' = [req EXCEPT !["recovery"] = IdleRequest]
    BY <1>1, <2>1, Freed DEF Requests
  <2>2. CASE Orphaned /\ CanLaunch /\ req' = [req EXCEPT !["recovery"].pc = "launch"]
    <3>1. PICK q : q = [req["recovery"] EXCEPT !.pc = "launch"]
      OBVIOUS
    <3>2. q \in RequestType /\ q.pc = "launch" /\ q.action = req["recovery"].action
      BY <1>1, <3>1 DEF TypeOK, RequestType, Requests
    <3>3. req' = [req EXCEPT !["recovery"] = q]
      BY <2>2, <3>1
    <3> QED BY <1>1, <2>2, <3>2, <3>3 DEF TypeOK, Requests
  <2> QED BY <1>1, <2>1, <2>2
<1>3. TypeOK'
  BY <1>1, <1>2 DEF TypeOK, row, progress
<1>4. Fits' /\ Made' /\ Measured'
  BY <1>1, SameWork DEF progress
<1>5. Asked'
  BY <1>1, <1>2 DEF Asked, Requests, row
<1>6. Opened'
  <2>1. req["user"].pc = "idle"
    BY <1>1 DEF Asked
  <2>2. CASE req'["recovery"].pc = "idle"
    BY <1>1, <1>2, <2>1, <2>2 DEF Opened, Pending, Requests, row
  <2>3. CASE req'["recovery"].pc = "launch" /\ Orphaned /\ CanLaunch
    <3>1. \E w \in Workflows : wf[w].pc = "none"
      BY <2>3, UnusedId
    <3>2. mode # "none"
      BY <1>1, <2>3 DEF Opened, Orphaned
    <3> QED BY <1>1, <1>2, <2>1, <3>1, <3>2 DEF Opened, row
  <2> QED BY <1>2, <2>2, <2>3
<1> QED BY <1>3, <1>4, <1>5, <1>6 DEF Shape

\* One step of the specification, as the cases of the proofs below.
LEMMA Cases ==
  ASSUME Shape, Next
  PROVE  \/ Create \/ Request \/ Patch \/ LinkChild \/ Restart \/ Recover
         \/ \E c \in Requests : Launch(c) \/ SetWorkflowId(c) \/ LaunchFails(c)
         \/ \E w \in Workflows : \E r \in WorkflowType : Turn(w, r)
         \/ \E n \in Experiments : ExperimentEnds(n) \/ ExperimentStopped(n)
<1>1. CASE \E w \in Workflows : Start(w) \/ Round(w) \/ WorkflowError(w)
  BY <1>1, Turns DEF Shape
<1>2. CASE \E c \in Requests : Serve(c) \/ LaunchFails(c)
  BY <1>2 DEF Serve
<1> QED BY <1>1, <1>2 DEF Next

LEMMA NextKeepsShape ==
  ASSUME Shape, [Next]_vars
  PROVE  Shape'
<1>1. CASE Next
  BY <1>1, Cases, CreateKeepsShape, RequestKeepsShape, PatchKeepsShape, LinkChildKeepsShape,
     RestartKeepsShape, RecoverKeepsShape, LaunchKeepsShape, SetWorkflowIdKeepsShape,
     LaunchFailsKeepsShape, TurnKeepsShape, ChildKeepsShape
<1>2. CASE UNCHANGED vars
  BY <1>2 DEF vars, row, progress, Shape, TypeOK, Fits, Made, Asked, Opened, Pending, Measured
<1> QED BY <1>1, <1>2

LEMMA ShapeInvariant == Spec => []Shape
<1> QED BY Initially, NextKeepsShape, PTL DEF Spec

(***************************************************************************)
(* Every variable has its type: in particular, the round a workflow works  *)
(* on is one of the configured rounds wherever it writes a version, a      *)
(* child experiment or a call, and a request always finds the workflow id  *)
(* it launches.                                                            *)
(***************************************************************************)
THEOREM TypeCorrect == Spec => []TypeOK
<1>1. Shape => TypeOK
  BY DEF Shape
<1> QED BY <1>1, ShapeInvariant, PTL

-----------------------------------------------------------------------------
(* An answered call is charged once.                                        *)

\* Two workflows are at work only after a second one was started.
Solo == "twin" \notin happened => \A v, w \in Workflows : Live(v) /\ Live(w) => v = w

\* A workflow is about to make a call that is not answered.
Paid == "twin" \notin happened =>
    /\ \A n \in Rounds : \A k \in Kinds : calls[n][k] <= 1
    /\ \A w \in Workflows : wf[w].pc = "call" => calls[wf[w].n][wf[w].kind] = 0

\* What the steps outside the workflows leave alone.
LEMMA OtherSteps ==
  ASSUME Shape, Next
  PROVE  \/ \E w \in Workflows : \E r \in WorkflowType : Turn(w, r)
         \/ /\ calls' = calls /\ best' = best /\ current' = current /\ happened \subseteq happened'
            /\ \/ wf' = wf
               \/ Restart
               \/ \E c \in Requests : Launch(c)
<1>1. ASSUME \/ Create \/ Request \/ Patch \/ LinkChild \/ Recover
             \/ \E c \in Requests : SetWorkflowId(c) \/ LaunchFails(c)
             \/ \E n \in Experiments : ExperimentEnds(n) \/ ExperimentStopped(n)
      PROVE  calls' = calls /\ best' = best /\ current' = current /\ happened \subseteq happened' /\ wf' = wf
  BY <1>1 DEF Create, Request, Patch, LinkChild, Recover, SetWorkflowId, LaunchFails, ExperimentEnds,
     ExperimentStopped, Fault, progress
<1>2. ASSUME Restart \/ \E c \in Requests : Launch(c)
      PROVE  calls' = calls /\ best' = best /\ current' = current /\ happened \subseteq happened'
  BY <1>2 DEF Restart, Launch, Fault, progress
<1> QED BY <1>1, <1>2, Cases

\* Nobody else is at work where a workflow takes its step.
LEMMA SoloTurn ==
  ASSUME Shape, Solo, NEW w \in Workflows, NEW r \in WorkflowType, Turn(w, r)
  PROVE  /\ Solo'
         /\ "twin" \notin happened' => "twin" \notin happened
                                       /\ \A v \in Workflows : v # w => ~Live(v) /\ wf'[v] = wf[v]
<1>1. TypeOK
  BY DEF Shape
<1>2. "twin" \notin happened' => "twin" \notin happened
  BY TurnGrows
<1> QED BY <1>1, <1>2, TurnWrites DEF Solo, Live

LEMMA LiveAfterRestart ==
  ASSUME Shape, Restart, NEW w \in Workflows
  PROVE  /\ Live(w)' <=> Live(w)
         /\ wf'[w].pc = "call" => FALSE
<1>1. Restarts(wf[w], wf'[w])
  BY Restarted
<1> QED BY <1>1 DEF Restarts, Live

LEMMA NextKeepsSolo ==
  ASSUME Shape, Solo, [Next]_vars
  PROVE  Solo'
<1>1. CASE \E w \in Workflows : \E r \in WorkflowType : Turn(w, r)
  BY <1>1, SoloTurn
<1>2. CASE happened \subseteq happened' /\ wf' = wf
  BY <1>2 DEF Solo, Live
<1>3. CASE happened \subseteq happened' /\ Restart
  BY <1>3, LiveAfterRestart DEF Solo
<1>4. ASSUME happened \subseteq happened', NEW c \in Requests, Launch(c) PROVE Solo'
  <2>1. SUFFICES ASSUME "twin" \notin happened', NEW u \in Workflows, NEW v \in Workflows, Live(u)', Live(v)'
                 PROVE  u = v
    BY DEF Solo
  <2>2. \A x \in Workflows : ~Live(x)
    BY <1>4, <2>1 DEF Launch
  <2>3. PICK w \in Workflows : \A x \in Workflows : x # w => wf'[x] = wf[x]
    BY <1>4, Launched
  <2> QED BY <2>1, <2>2, <2>3 DEF Live
<1>5. CASE UNCHANGED vars
  BY <1>5 DEF vars, Solo, Live
<1> QED BY <1>1, <1>2, <1>3, <1>4, <1>5, OtherSteps

LEMMA TurnKeepsPaid ==
  ASSUME Shape, Solo, Paid, NEW w \in Workflows, NEW r \in WorkflowType, Turn(w, r)
  PROVE  Paid'
<1>1. SUFFICES ASSUME "twin" \notin happened' PROVE Paid'
  BY DEF Paid
<1>2. /\ "twin" \notin happened /\ TypeOK /\ Fit(wf[w]) /\ wf[w] \in WorkflowType
      /\ \A v \in Workflows : v # w => wf'[v].pc # "call"
  BY <1>1, SoloTurn DEF Shape, Fits, TypeOK, Live
<1>3. wf'[w] = r /\ Fit(r)
  BY <1>2, TurnWrites
<1>4. CASE Calls(w, r)
  <2>1. wf[w].n \in Rounds /\ wf[w].kind \in Kinds /\ r.n = wf[w].n
    BY <1>2, <1>4 DEF Calls, Fit, InRound, WorkflowType, Keeps
  <2>2. calls[wf[w].n][wf[w].kind] = 0
    BY <1>2, <1>4 DEF Calls, Paid
  <2>3. calls \in [Rounds -> [Kinds -> Nat]] /\ calls' = [calls EXCEPT ![wf[w].n][wf[w].kind] = @ + 1]
    BY <1>2, <1>4 DEF Calls, TypeOK
  <2>4. ASSUME NEW n \in Rounds, NEW k \in Kinds
        PROVE  calls'[n][k] = IF n = wf[w].n /\ k = wf[w].kind THEN 1 ELSE calls[n][k]
    BY <2>1, <2>2, <2>3
  <2>5. \A n \in Rounds : \A k \in Kinds : calls'[n][k] <= 1
    BY <1>2, <2>4 DEF Paid
  <2>6. r.pc = "call" => calls'[r.n][r.kind] = 0
    <3>1. ASSUME r.pc = "call" PROVE r.kind \in Kinds /\ r.kind # wf[w].kind /\ ~(calls[r.n][r.kind] > 0)
      BY <1>4, <3>1 DEF Calls, WorkflowType, Answered
    <3> QED BY <2>1, <2>3, <2>4, <3>1
  <2> QED BY <1>2, <1>3, <2>5, <2>6 DEF Paid
<1>5. CASE ~Calls(w, r)
  <2>1. calls' = calls
    BY <1>2, <1>5, TurnWrites
  <2>2. r.pc = "call" => calls[r.n][r.kind] = 0
    <3>1. ASSUME r.pc = "call" PROVE Prepares(w, r)
      BY <1>5, <3>1 DEF Turn, Fails, Loads, Marks, MakesFirst, FindsBase, LaunchesBase, ReadsControl,
           ResumesBase, Clears, Reloads, Checks, Tops, Versions, MakesChild, LaunchesChild, Polls, PollsParent,
           Leaves, FindsBest, EndsRound, ReadsHistory, Finishes
    <3>2. ASSUME r.pc = "call" PROVE r.n \in Rounds /\ r.kind \in Kinds /\ ~(calls[r.n][r.kind] > 0)
      BY <1>3, <3>1, <3>2 DEF Prepares, Fit, InRound, WorkflowType, Answered
    <3>3. \A n \in Rounds : \A k \in Kinds : calls[n][k] \in Nat
      BY <1>2 DEF TypeOK
    <3> QED BY <3>2, <3>3
  <2> QED BY <1>2, <1>3, <2>1, <2>2 DEF Paid
<1> QED BY <1>4, <1>5

LEMMA NextKeepsPaid ==
  ASSUME Shape, Solo, Paid, [Next]_vars
  PROVE  Paid'
<1>1. CASE \E w \in Workflows : \E r \in WorkflowType : Turn(w, r)
  BY <1>1, TurnKeepsPaid
<1>2. CASE calls' = calls /\ happened \subseteq happened' /\ wf' = wf
  BY <1>2 DEF Paid
<1>3. CASE calls' = calls /\ happened \subseteq happened' /\ Restart
  BY <1>3, LiveAfterRestart DEF Paid
<1>4. ASSUME calls' = calls, happened \subseteq happened', NEW c \in Requests, Launch(c) PROVE Paid'
  <2>1. PICK w \in Workflows : wf'[w].pc = "load" /\ \A x \in Workflows : x # w => wf'[x] = wf[x]
    BY <1>4, Launched
  <2> QED BY <1>4, <2>1 DEF Paid
<1>5. CASE UNCHANGED vars
  BY <1>5 DEF vars, progress, Paid
<1> QED BY <1>1, <1>2, <1>3, <1>4, <1>5, OtherSteps

LEMMA SoloInvariant == Spec => [](Shape /\ Solo /\ Paid)
<1>1. Init => Shape /\ Solo /\ Paid
  <2> SUFFICES ASSUME Init PROVE Solo /\ Paid
    BY Initially
  <2>1. \A w \in Workflows : wf[w].pc = "none"
    BY DEF Init, NewWorkflow
  <2>2. \A n \in Rounds : \A k \in Kinds : calls[n][k] = 0
    BY DEF Init
  <2> QED BY <2>1, <2>2 DEF Solo, Paid, Live
<1>2. Shape /\ Solo /\ Paid /\ [Next]_vars => (Shape /\ Solo /\ Paid)'
  BY NextKeepsShape, NextKeepsSolo, NextKeepsPaid
<1> QED BY <1>1, <1>2, PTL DEF Spec

(***************************************************************************)
(* An answered call is not made again: not by the workflow that a resume   *)
(* or the recovery starts, not after a restart in the middle of a round,   *)
(* and not by a round that runs again.  Only two workflows at once, or a   *)
(* resume while one is at work, can make it twice.                         *)
(***************************************************************************)
THEOREM NoCallIsChargedTwice == Spec => []ChargedOnce
<1>1. Paid => ChargedOnce
  BY DEF Paid, ChargedOnce, Orderly
<1> QED BY <1>1, SoloInvariant, PTL

-----------------------------------------------------------------------------
(* A stop reaches the child.                                                *)

\* The workflow looks after experiment n.
InCharge(l, n) == l.n = n /\ l.pc \in {"launch", "launchBase", "baseClear", "poll", "parent"}

Unbroken == happened \cap {"twin", "timeout", "step", "setid"} = {}

\* A child that runs without a stop has a workflow that looks after it, a stop
\* that was passed on was passed on, and a workflow that is in its rounds finds
\* the row running, or a reason why it is not that it passes on.
LookedAfter == \A n \in Experiments : Running(n) /\ ~exp[n].stop => \E w \in Workflows : InCharge(wf[w], n)
PassedOn == \A w \in Workflows : wf[w].pc \in Waiting /\ wf[w].linked => ~Running(wf[w].n) \/ exp[wf[w].n].stop
Obedient == \A w \in Workflows :
    Live(w) /\ wf[w].pc \notin {"load", "mark", "final"} => status = "running" \/ control \in {"stop", "cancel"}
Reached == Unbroken => LookedAfter /\ PassedOn /\ Obedient

LEMMA UnbrokenTurn ==
  ASSUME Shape, Solo, NEW w \in Workflows, NEW r \in WorkflowType, Turn(w, r), Unbroken'
  PROVE  /\ Unbroken
         /\ \A v \in Workflows : v # w => ~Live(v) /\ wf'[v] = wf[v] /\ ~Live(v)'
         /\ wf[w].pc \in {"launch", "launchBase", "baseClear", "poll", "parent"} => ~Fails(w, r)
<1>1. "twin" \notin happened' /\ happened \subseteq happened'
  BY TurnGrows DEF Unbroken
<1>2. \A v \in Workflows : v # w => ~Live(v) /\ wf'[v] = wf[v]
  BY <1>1, SoloTurn
<1>3. ASSUME wf[w].pc \in {"launch", "launchBase", "baseClear", "poll", "parent"}, Fails(w, r) PROVE FALSE
  BY <1>3 DEF Fails, Unbroken
<1> QED BY <1>1, <1>2, <1>3 DEF Unbroken, Live

\* Who leaves a child leaves it with a stop, or when it does not run.
LEMMA LeavesInOrder ==
  ASSUME Shape, Solo, Reached, Unbroken, NEW w \in Workflows, NEW r \in WorkflowType, Turn(w, r), Unbroken',
         NEW n \in Experiments, InCharge(wf[w], n), exp'[n].status = "running", ~exp'[n].stop
  PROVE  InCharge(r, n)
<1>1. /\ TypeOK /\ Made /\ Fit(wf[w]) /\ 0 \in Experiments /\ Live(w)
      /\ wf[w].n = n /\ wf[w].pc \in {"launch", "launchBase", "baseClear", "poll", "parent"}
  BY TurnWrites, Constants DEF Shape, Fits, InCharge
<1>2. CASE LaunchesBase(w, r)
  BY <1>1, <1>2 DEF LaunchesBase, InCharge, Fit, Opening
<1>3. CASE Clears(w, r)
  BY <1>1, <1>3 DEF Clears, InCharge, Keeps
<1>4. CASE LaunchesChild(w, r)
  BY <1>1, <1>4 DEF LaunchesChild, InCharge
<1>5. CASE Polls(w, r)
  <2>1. exp' = exp
    BY <1>5 DEF Polls
  <2>2. Running(n)
    BY <2>1 DEF Running
  <2>3. happened' # happened \cup {"timeout"}
    BY DEF Unbroken
  <2> QED BY <1>1, <1>5, <2>2, <2>3 DEF Polls, InCharge, Keeps
<1>6. CASE PollsParent(w, r)
  <2>1. CASE status = "running"
    BY <1>1, <1>6, <2>1 DEF PollsParent, InCharge
  <2>2. CASE status # "running"
    <3>1. control \in {"stop", "cancel"} /\ wf[w].pc = "parent"
      BY <1>1, <1>6, <2>2 DEF Reached, Obedient, PollsParent
    <3>2. CASE wf[w].linked
      <4>1. exp' = exp
        BY <1>6, <3>2 DEF PollsParent, PassesOn
      <4>2. ~Running(n) \/ exp[n].stop
        BY <1>1, <3>1, <3>2 DEF Reached, PassedOn, Waiting
      <4> QED BY <4>1, <4>2 DEF Running
    <3>3. CASE ~wf[w].linked
      <4>1. exp' = Stopped(exp, {n})
        BY <1>1, <1>6, <3>1, <3>3 DEF PollsParent, PassesOn
      <4>2. /\ exp'[n].status = exp[n].status
            /\ exp'[n].stop = (exp[n].stop \/ (n \in {n} /\ Running(n)))
        BY <1>1, <4>1, StoppedChild
      <4>3. Running(n)
        BY <4>2 DEF Running
      <4>4. exp'[n].stop
        BY <4>2, <4>3
      <4> QED BY <4>4
    <3> QED BY <3>2, <3>3
  <2> QED BY <2>1, <2>2
<1>7. ~Fails(w, r)
  BY <1>1, UnbrokenTurn
<1> QED BY <1>1, <1>2, <1>3, <1>4, <1>5, <1>6, <1>7 DEF Turn, Loads, Marks, MakesFirst, FindsBase, ReadsControl,
        ResumesBase, Reloads, Checks, Tops, Prepares, Calls, Versions, MakesChild, FindsBest, EndsRound,
        ReadsHistory, Finishes

\* Who starts or resumes a child looks after it.
LEMMA StartsInOrder ==
  ASSUME Shape, NEW w \in Workflows, NEW r \in WorkflowType, Turn(w, r),
         NEW n \in Experiments, exp'[n].status = "running", ~exp'[n].stop, ~(Running(n) /\ ~exp[n].stop)
  PROVE  InCharge(r, n)
<1>1. TypeOK /\ Made /\ Fit(wf[w]) /\ Fit(r) /\ 0 \in Experiments
  BY TurnWrites, Constants DEF Shape, Fits
<1>2. CASE exp' = exp
  BY <1>2 DEF Running
<1>3. CASE FindsBase(w, r)
  <2>1. CASE n = 0
    BY <1>1, <1>2, <1>3, <2>1 DEF FindsBase, InCharge
  <2>2. CASE n # 0
    BY <1>1, <1>2, <1>3, <2>2 DEF FindsBase, TypeOK, Running
  <2> QED BY <2>1, <2>2
<1>4. CASE LaunchesBase(w, r)
  <2>1. StartChild(0) /\ exp[0].status # "none" /\ wf[w].n = 0
    BY <1>1, <1>4 DEF LaunchesBase, Made, Fit, Opening
  <2> QED BY <1>1, <2>1, StartedChild DEF Running
<1>5. CASE ResumesBase(w, r)
  <2>1. exp' = Resumed(exp, {0}) /\ r.pc = "baseClear" /\ r.n = 0
    BY <1>1, <1>5 DEF ResumesBase, Fit, Opening
  <2> QED BY <1>1, <2>1, ResumedChild DEF Running, InCharge
<1>6. CASE MakesChild(w, r)
  <2>1. r.n \in Experiments /\ r.pc = "launch"
    BY <1>1, <1>6, Constants DEF MakesChild, Fit, InRound
  <2>2. exp' = [exp EXCEPT ![r.n].status = IF @ = "none" THEN "running" ELSE @]
    BY <1>6 DEF MakesChild
  <2>3. n # r.n => exp'[n] = exp[n]
    BY <1>1, <2>1, <2>2, MadeChild
  <2> QED BY <2>1, <2>3 DEF Running, InCharge
<1>7. CASE LaunchesChild(w, r)
  <2>1. r.n \in Experiments /\ exp[r.n].status # "none" /\ r.pc = "poll"
    BY <1>1, <1>7, Constants DEF LaunchesChild, Fit, InRound, Made
  <2>2. CASE StartChild(r.n)
    BY <1>1, <2>1, <2>2, StartedChild DEF Running
  <2>3. CASE exp' = Resumed(exp, {r.n})
    BY <1>1, <2>1, <2>3, ResumedChild DEF Running, InCharge
  <2> QED BY <1>7, <2>2, <2>3 DEF LaunchesChild
<1>8. CASE PollsParent(w, r)
  BY <1>1, <1>2, <1>8, StoppedChild DEF PollsParent, Running
<1> QED BY <1>1, <1>2, <1>3, <1>4, <1>5, <1>6, <1>7, <1>8, TurnWrites

LEMMA TurnKeepsReached ==
  ASSUME Shape, Solo, Reached, NEW w \in Workflows, NEW r \in WorkflowType, Turn(w, r)
  PROVE  Reached'
<1> SUFFICES ASSUME Unbroken' PROVE (LookedAfter /\ PassedOn /\ Obedient)'
  BY DEF Reached
<1>1. /\ TypeOK /\ Fits /\ Made /\ Unbroken /\ LookedAfter /\ PassedOn /\ Obedient /\ wf'[w] = r /\ Fit(wf[w]) /\ Fit(r)
      /\ Live(w) /\ 0 \in Experiments
      /\ \A v \in Workflows : v # w => ~Live(v) /\ wf'[v] = wf[v] /\ ~Live(v)'
  BY UnbrokenTurn, TurnWrites, Constants DEF Shape, Fits, Reached
<1>2. LookedAfter'
  <2>1. ASSUME NEW n \in Experiments, exp'[n].status = "running", ~exp'[n].stop PROVE InCharge(r, n)
    <3>1. CASE Running(n) /\ ~exp[n].stop
      <4>1. PICK v \in Workflows : InCharge(wf[v], n)
        BY <1>1, <3>1 DEF LookedAfter
      <4>2. v = w
        BY <1>1, <4>1 DEF InCharge, Live
      <4> QED BY <1>1, <2>1, <4>1, <4>2, LeavesInOrder
    <3>2. CASE ~(Running(n) /\ ~exp[n].stop)
      BY <2>1, <3>2, StartsInOrder
    <3> QED BY <3>1, <3>2
  <2> QED BY <1>1, <2>1 DEF LookedAfter, Running
<1>3. PassedOn'
  <2>1. ASSUME r.pc \in Waiting, r.linked PROVE exp'[r.n].status # "running" \/ exp'[r.n].stop
    <3>1. CASE Polls(w, r)
      <4>1. r.n = wf[w].n /\ wf[w].linked /\ exp' = exp /\ wf[w].pc \in Waiting
        BY <1>1, <2>1, <3>1 DEF Polls, Leaves, Keeps, Waiting, Fit
      <4> QED BY <1>1, <4>1 DEF PassedOn, Running
    <3>2. CASE PollsParent(w, r)
      <4>1. /\ r.n = wf[w].n /\ r.n \in Experiments /\ (wf[w].linked \/ PassesOn(w)) /\ wf[w].pc \in Waiting
            /\ exp' = IF PassesOn(w) THEN Stopped(exp, {r.n}) ELSE exp
        BY <1>1, <2>1, <3>2 DEF PollsParent, Leaves, Waiting, Fit
      <4>2. CASE PassesOn(w)
        <5>1. Running(r.n) => Stopped(exp, {r.n})[r.n].stop
          BY <1>1, <4>1, StoppedChild
        <5>2. Stopped(exp, {r.n})[r.n].status = exp[r.n].status
          BY <1>1, <4>1, StoppedChild
        <5> QED BY <4>1, <4>2, <5>1, <5>2 DEF Running
      <4>3. CASE ~PassesOn(w)
        BY <1>1, <4>1, <4>3 DEF PassedOn, Running
      <4> QED BY <4>2, <4>3
    <3>3. CASE ~Polls(w, r) /\ ~PollsParent(w, r)
      <4>1. Clears(w, r)
        BY <1>1, <2>1, <3>3, TurnWrites DEF Turn, Waiting, Fails, Loads, Marks, MakesFirst, FindsBase, LaunchesBase,
           ReadsControl, ResumesBase, Reloads, Checks, Tops, Prepares, Calls, Versions, MakesChild, LaunchesChild,
           Keeps, FindsBest, EndsRound, ReadsHistory, Finishes
      <4> QED BY <1>1, <2>1, <4>1 DEF Clears, Keeps, Fit, Waiting
    <3> QED BY <3>1, <3>2, <3>3
  <2> QED BY <1>1, <2>1 DEF PassedOn, Running, Live, Waiting
<1>4. Obedient'
  <2>1. ASSUME r.pc \notin {"none", "done", "load", "mark", "final"}
        PROVE  status' = "running" \/ control' \in {"stop", "cancel"}
    <3>1. CASE Marks(w, r)
      BY <3>1 DEF Marks
    <3>2. CASE Clears(w, r)
      BY <1>1, <3>2 DEF Clears, Obedient
    <3>3. CASE status' = status /\ control' = control
      <4>1. CASE wf[w].pc \notin {"load", "mark", "final"}
        BY <1>1, <3>3, <4>1 DEF Obedient
      <4>2. CASE wf[w].pc \in {"load", "mark", "final"}
        BY <2>1, <3>1, <4>2 DEF Turn, Fails, Loads, MakesFirst, FindsBase, LaunchesBase,
           ReadsControl, ResumesBase, Clears, Reloads, Checks, Tops, Prepares, Calls, Versions, MakesChild,
           LaunchesChild, Polls, PollsParent, FindsBest, EndsRound, ReadsHistory, Finishes
      <4> QED BY <4>1, <4>2
    <3>4. ~Finishes(w, r)
      BY <2>1 DEF Finishes
    <3> QED BY <1>1, <3>1, <3>2, <3>3, <3>4, TurnWrites
  <2> QED BY <1>1, <2>1 DEF Obedient, Live
<1> QED BY <1>2, <1>3, <1>4

LEMMA NextKeepsReached ==
  ASSUME Shape, Solo, Reached, [Next]_vars
  PROVE  Reached'
<1>1. CASE \E w \in Workflows : \E r \in WorkflowType : Turn(w, r)
  BY <1>1, TurnKeepsReached
<1>3. ASSUME happened \subseteq happened', Unbroken' PROVE Unbroken /\ LookedAfter /\ PassedOn /\ Obedient
  BY <1>3 DEF Unbroken, Reached
<1>4. CASE Create
  <2>1. happened \subseteq happened' /\ wf' = wf /\ mode = "none"
    BY <1>4 DEF Create
  <2>2. \A v \in Workflows : wf[v].pc = "none"
    BY <2>1 DEF Shape, Opened
  <2>3. \A n \in Experiments : exp'[n].status # "running"
    <3>1. TypeOK /\ \A n \in Experiments : exp[n].status = "none"
      BY <2>1 DEF Shape, Opened
    <3> QED BY <1>4, <3>1, Constants DEF Create, TypeOK, ExperimentType
  <2> QED BY <2>1, <2>2, <2>3 DEF Reached, LookedAfter, PassedOn, Obedient, Running, Live, Waiting
<1>5. CASE Request \/ Recover \/ \E c \in Requests : SetWorkflowId(c)
  <2>1. happened \subseteq happened' /\ wf' = wf /\ exp' = exp /\ status' = status /\ control' = control
    BY <1>5 DEF Request, Recover, SetWorkflowId, Fault, row, progress
  <2> QED BY <1>3, <2>1 DEF Reached, LookedAfter, PassedOn, Obedient, Running, Live
<1>6. CASE Patch
  <2>1. /\ happened \subseteq happened' /\ wf' = wf /\ exp' = exp
        /\ status' = "running" \/ control' \in {"stop", "cancel"}
    BY <1>6 DEF Patch, PatchedStatus, Shape, Asked
  <2> QED BY <1>3, <2>1 DEF Reached, LookedAfter, PassedOn, Obedient, Running, Live
<1>7. CASE LinkChild \/ \E n \in Experiments : ExperimentEnds(n) \/ ExperimentStopped(n)
  <2>1. /\ happened \subseteq happened' /\ wf' = wf /\ status' = status /\ control' = control
        /\ TypeOK /\ Fits
    BY <1>7 DEF LinkChild, ExperimentEnds, ExperimentStopped, Fault, row, Shape
  <2>2. ASSUME NEW n \in Experiments
        PROVE  exp'[n].status = "running" => Running(n) /\ (exp[n].stop => exp'[n].stop)
    <3>1. CASE \E S : exp' = Stopped(exp, S)
      BY <2>1, <3>1, StoppedChild DEF Running
    <3>2. CASE \E k \in Experiments : ExperimentEnds(k)
      <4>1. PICK k \in Experiments : ExperimentEnds(k)
        BY <3>2
      <4> QED BY <2>1, <4>1, EndedChild DEF Running
    <3>3. CASE exp' = exp
      BY <3>3 DEF Running
    <3> QED BY <1>7, <3>1, <3>2, <3>3 DEF LinkChild, ExperimentStopped
  <2>3. \A w \in Workflows : wf[w].pc \in Waiting => wf[w].n \in Experiments
    BY <2>1 DEF Fits, Fit
  <2> QED BY <1>3, <2>1, <2>2, <2>3 DEF Reached, LookedAfter, PassedOn, Obedient, Running, Live
<1>8. CASE \E c \in Requests : LaunchFails(c)
  <2>1. PICK c \in Requests : LaunchFails(c)
    BY <1>8
  <2>2. /\ happened' = happened \cup {req[c].pc} /\ wf' = wf /\ exp' = exp /\ req[c].pc \in {"launch", "setid"}
        /\ (status' = status /\ control' = control) \/ req[c].action = "start"
    BY <2>1 DEF LaunchFails, Fault, progress
  <2>3. ASSUME Unbroken', req[c].action = "start" PROVE \A v \in Workflows : ~Live(v)
    <3>1. c = "user" /\ req[c].pc = "launch"
      BY <2>2, <2>3 DEF Shape, Asked, Requests, Unbroken
    <3> QED BY <2>3, <3>1 DEF Shape, Opened, Live
  <2> QED BY <1>3, <2>2, <2>3 DEF Reached, LookedAfter, PassedOn, Obedient, Running, Live
<1>9. CASE \E c \in Requests : Launch(c)
  <2>1. PICK c \in Requests : Launch(c)
    BY <1>9
  <2>2. happened \subseteq happened' /\ exp' = exp /\ status' = status /\ control' = control
    BY <2>1 DEF Launch, row, progress
  <2>3. PICK w \in Workflows : /\ wf[w].pc = "none" /\ wf'[w].pc = "load"
                               /\ \A x \in Workflows : x # w => wf'[x] = wf[x]
    BY <2>1, Launched
  <2> QED BY <1>3, <2>2, <2>3 DEF Reached, LookedAfter, PassedOn, Obedient, Running, Live, InCharge, Waiting
<1>10. CASE Restart
  <2>1. /\ \A w \in Workflows : Restarts(wf[w], wf'[w])
        /\ exp' = exp /\ status' = status /\ control' = control /\ happened \subseteq happened'
    BY <1>10, Restarted DEF row, progress
  <2>2. \A w \in Workflows : \A n \in Experiments : InCharge(wf[w], n) => InCharge(wf'[w], n)
    BY <2>1 DEF Restarts, InCharge
  <2>3. \A w \in Workflows : wf'[w].pc \in Waiting /\ wf'[w].linked => wf'[w] = wf[w]
    BY <2>1 DEF Restarts, Waiting
  <2>4. \A w \in Workflows : wf'[w].pc \notin {"none", "done", "load", "mark", "final"} =>
                               wf[w].pc \notin {"none", "done", "load", "mark", "final"}
    BY <2>1 DEF Restarts
  <2>5. ASSUME Unbroken' PROVE (LookedAfter /\ PassedOn /\ Obedient)'
    <3>1. LookedAfter /\ PassedOn /\ Obedient
      BY <1>3, <2>1, <2>5
    <3>2. LookedAfter'
      BY <2>1, <2>2, <3>1 DEF LookedAfter, Running
    <3>3. PassedOn'
      BY <2>1, <2>3, <3>1 DEF PassedOn, Running
    <3>4. Obedient'
      BY <2>1, <2>4, <3>1 DEF Obedient, Live
    <3> QED BY <3>2, <3>3, <3>4
  <2> QED BY <2>5 DEF Reached
<1>11. CASE UNCHANGED vars
  BY <1>11 DEF vars, row, progress, Reached, Unbroken, LookedAfter, PassedOn, Obedient, Running, Live, InCharge
<1> QED BY <1>1, <1>4, <1>5, <1>6, <1>7, <1>8, <1>9, <1>10, <1>11, Cases

(***************************************************************************)
(* After a stop or a cancel that nobody works on any more, no child runs   *)
(* that was not stopped: the request passes the stop on to the child, and  *)
(* if it finds none, or fails, the workflow that looks after the child     *)
(* does, also across restarts and failed launches.                         *)
(***************************************************************************)
THEOREM StopsReachChildren == Spec => []StopReachesChildren
<1>1. Init => Reached
  <2> SUFFICES ASSUME Init PROVE Reached
    OBVIOUS
  <2>1. /\ \A w \in Workflows : wf[w].pc = "none"
        /\ \A n \in Experiments : exp[n].status = "none"
    BY DEF Init, NewWorkflow, NoExperiment
  <2> QED BY <2>1 DEF Reached, LookedAfter, PassedOn, Obedient, Running, Live, Waiting
<1>2. Reached => StopReachesChildren
  <2> SUFFICES ASSUME Reached, Unbroken, \A w \in Workflows : ~Live(w), NEW n \in Experiments, Running(n)
               PROVE  exp[n].stop
    BY DEF StopReachesChildren, Unbroken
  <2> QED BY DEF Reached, LookedAfter, InCharge, Live
<1> QED BY <1>1, <1>2, SoloInvariant, NextKeepsReached, PTL DEF Spec

-----------------------------------------------------------------------------
(* A stop stands until the next resume.                                     *)

\* Nobody stops an optimization whose creation is still being served, and what
\* nobody has overruled is stopped or cancelled in the row.
Creating == req["user"].pc \in {"launch", "setid"} /\ req["user"].action = "start"
Stands ==
    /\ mode = "none" \/ Creating => control = "none"
    /\ control \in {"stop", "cancel"} /\ "overruled" \notin happened => status \in {"stopped", "cancelled"}

LEMMA TurnKeepsStop ==
  ASSUME Shape, Stands, NEW w \in Workflows, NEW r \in WorkflowType, Turn(w, r)
  PROVE  /\ Stands'
         /\ control \in {"stop", "cancel"} /\ "overruled" \notin happened'
               => status' \in {"stopped", "cancelled"}
<1>1. /\ TypeOK /\ mode' = mode /\ req' = req /\ happened \subseteq happened'
      /\ (status' = status /\ control' = control) \/ Marks(w, r) \/ Clears(w, r) \/ Finishes(w, r)
  BY TurnWrites, TurnGrows DEF Shape
<1>2. CASE status' = status /\ control' = control
  BY <1>1, <1>2 DEF Stands, Creating
<1>3. CASE Marks(w, r)
  <2>1. control' = control /\ (status \in {"stopped", "cancelled"} => "overruled" \in happened')
    BY <1>3 DEF Marks, Overruled
  <2> QED BY <1>1, <2>1 DEF Stands, Creating
<1>4. CASE Clears(w, r)
  <2>1. \/ control = "resume" /\ control' = "none"
        \/ control' = control /\ status' = status
    BY <1>4 DEF Clears
  <2> QED BY <1>1, <2>1 DEF Stands, Creating
<1>5. CASE Finishes(w, r)
  <2>1. \/ status = "running" /\ control' = "none"
        \/ control' = control /\ status' = status
    BY <1>5 DEF Finishes
  <2> QED BY <1>1, <2>1 DEF Stands, Creating
<1> QED BY <1>1, <1>2, <1>3, <1>4, <1>5

LEMMA RequestKeepsStop ==
  ASSUME Shape, Stands, Patch
  PROVE  /\ Stands'
         /\ control' = "resume" \/ status' \in {"stopped", "cancelled"}
<1>1. /\ TypeOK /\ mode' = mode /\ mode # "none" /\ req["user"].action \in {"stop", "resume", "cancel"}
      /\ req'["user"].action = req["user"].action
  BY DEF Patch, Shape, Asked, Opened, TypeOK, RequestType, Requests
<1>2. /\ control' = req["user"].action
      /\ control' \in {"stop", "cancel"} => status' \in {"stopped", "cancelled"}
  BY <1>1 DEF Patch, PatchedStatus
<1> QED BY <1>1, <1>2 DEF Stands, Creating

\* The failure of a launch is written where nobody can have stopped anything.
LEMMA ServedKeepsStop ==
  ASSUME Shape, Stands, NEW c \in Requests, SetWorkflowId(c) \/ LaunchFails(c) \/ Launch(c)
  PROVE  /\ Stands'
         /\ control \in {"stop", "cancel"} => status' = status
<1>1. /\ TypeOK /\ Asked /\ Opened /\ mode' = mode /\ happened \subseteq happened'
  BY DEF SetWorkflowId, LaunchFails, Launch, Fault, Shape, row
<1>2. /\ status' = status /\ control' = control
      \/ /\ c = "user" /\ Creating /\ control' = "none"
  BY <1>1 DEF SetWorkflowId, LaunchFails, Launch, Creating, Asked, Requests, row
<1>3. Creating' => Creating \/ mode = "none"
  <2>1. CASE Launch(c)
    <3>1. req[c].pc = "launch" /\ req'[c].action = req[c].action /\ \A d \in Requests : d # c => req'[d] = req[d]
      BY <1>1, <2>1, Launched DEF Launch
    <3> QED BY <3>1 DEF Creating, Requests
  <2>2. CASE SetWorkflowId(c) \/ LaunchFails(c)
    <3>1. req'[c].pc = "idle" /\ \A d \in Requests : d # c => req'[d] = req[d]
      BY <1>1, <2>2, Freed DEF SetWorkflowId, LaunchFails
    <3> QED BY <3>1 DEF Creating, Requests
  <2> QED BY <2>1, <2>2
<1> QED BY <1>1, <1>2, <1>3 DEF Stands

LEMMA NextKeepsStop ==
  ASSUME Shape, Stands, [Next]_vars
  PROVE  /\ Stands'
         /\ control \in {"stop", "cancel"} /\ "overruled" \notin happened'
               => status' \in {"stopped", "cancelled"} \/ control' = "resume"
<1>0. TypeOK /\ Asked /\ Opened
  BY DEF Shape
<1>1. CASE \E w \in Workflows : \E r \in WorkflowType : Turn(w, r)
  BY <1>1, TurnKeepsStop
<1>2. CASE Patch
  BY <1>2, RequestKeepsStop
<1>3. ASSUME NEW c \in Requests, SetWorkflowId(c) \/ LaunchFails(c) \/ Launch(c)
      PROVE  /\ Stands'
             /\ control \in {"stop", "cancel"} /\ "overruled" \notin happened'
                   => status' \in {"stopped", "cancelled"}
  <2>1. happened \subseteq happened'
    BY <1>3 DEF SetWorkflowId, LaunchFails, Launch, Fault
  <2> QED BY <1>3, <2>1, ServedKeepsStop DEF Stands
<1>4. CASE Create
  <2>1. mode = "none" /\ control' = control /\ happened' = happened
    BY <1>4 DEF Create
  <2> QED BY <2>1 DEF Stands
<1>5. ASSUME \/ Request \/ LinkChild \/ Restart \/ Recover
             \/ \E n \in Experiments : ExperimentEnds(n) \/ ExperimentStopped(n)
      PROVE  UNCHANGED <<mode, status, control>> /\ happened \subseteq happened' /\ (Creating' => Creating)
  <2>1. UNCHANGED <<mode, status, control>> /\ happened \subseteq happened'
    BY <1>5 DEF Request, LinkChild, Restart, Recover, ExperimentEnds, ExperimentStopped, Fault, row
  <2>2. CASE Request
    <3>1. req'["user"].pc = "patch"
      BY <1>0, <2>2 DEF Request, TypeOK, RequestType, Requests
    <3> QED BY <2>1, <3>1 DEF Creating
  <2>3. CASE LinkChild
    <3>1. req'["user"].pc = "idle"
      BY <1>0, <2>3, Freed DEF LinkChild, Requests
    <3> QED BY <2>1, <3>1 DEF Creating
  <2>4. CASE Restart
    <3>1. req'["user"].pc = "idle"
      BY <2>4, Restarted
    <3> QED BY <2>1, <3>1 DEF Creating
  <2>5. CASE Recover
    <3>1. req'["user"] = req["user"]
      BY <1>0, <2>5 DEF Recover, TypeOK, Requests
    <3> QED BY <2>1, <3>1 DEF Creating
  <2>6. ASSUME NEW n \in Experiments, ExperimentEnds(n) \/ ExperimentStopped(n) PROVE req' = req
    BY <2>6 DEF ExperimentEnds, ExperimentStopped
  <2> QED BY <1>5, <2>1, <2>2, <2>3, <2>4, <2>5, <2>6 DEF Creating
<1>6. CASE UNCHANGED vars
  BY <1>6 DEF vars, row, Stands, Creating
<1>7. ASSUME UNCHANGED <<mode, status, control>>, happened \subseteq happened', Creating' => Creating
      PROVE  /\ Stands'
             /\ control \in {"stop", "cancel"} /\ "overruled" \notin happened'
                   => status' \in {"stopped", "cancelled"}
  BY <1>7 DEF Stands
<1> QED BY <1>1, <1>2, <1>3, <1>4, <1>5, <1>6, <1>7, Cases

(***************************************************************************)
(* Whatever else is at work, restarts and fails: from the moment a stop or *)
(* a cancel is written until the user resumes, the row says stopped or     *)
(* cancelled, unless a workflow that starts takes the stop back.           *)
(***************************************************************************)
THEOREM StopsStand == Spec => StopStands
<1>1. Init => Stands
  BY DEF Init, Stands, Creating, IdleRequest, Requests
<1>2. Shape /\ Stands /\ [Next]_vars => Stands'
  BY NextKeepsStop
<1>3. Shape /\ Stands /\ [Next]_vars =>
        [(control \in {"stop", "cancel"} /\ "overruled" \notin happened') =>
            (status' \in {"stopped", "cancelled"} \/ control' = "resume")]_vars
  BY NextKeepsStop
<1> QED BY <1>1, <1>2, <1>3, ShapeInvariant, PTL DEF Spec, StopStands

\* One fault, or none, is not two.
FewFaults == Cardinality(happened \cap FaultKinds) <= MaxFaults

LEMMA FaultsFinite ==
  ASSUME NEW S, NEW T \in SUBSET FaultKinds
  PROVE  IsFiniteSet(S \cap T) /\ IsFiniteSet(S \cap FaultKinds)
<1>1. IsFiniteSet(FaultKinds)
  <2>1. FaultKinds = {"launch"} \cup {"setid"} \cup {"child"} \cup {"step"} \cup {"llm"} \cup {"link"}
             \cup {"timeout"} \cup {"childstop"} \cup {"hasty"} \cup {"restart"} \cup {"crash"} \cup {"lookup"}
    BY DEF FaultKinds
  <2> QED BY <2>1, FS_Singleton, FS_Union
<1>2. S \cap T \subseteq FaultKinds /\ S \cap FaultKinds \subseteq FaultKinds
  OBVIOUS
<1> QED BY <1>1, <1>2, FS_Subset

LEMMA FewFaultsInvariant == Spec => []FewFaults
<1>1. Init => FewFaults
  <2> SUFFICES ASSUME Init PROVE FewFaults
    OBVIOUS
  <2>1. happened \cap FaultKinds = {}
    BY DEF Init
  <2>2. Cardinality(happened \cap FaultKinds) = 0
    BY <2>1, FS_EmptySet
  <2> QED BY <2>2, OptimizationAssumption DEF FewFaults
<1>2. ASSUME Shape, FewFaults, [Next]_vars PROVE FewFaults'
  <2>1. CASE happened' \cap FaultKinds = happened \cap FaultKinds
    BY <1>2, <2>1 DEF FewFaults
  <2>2. CASE \E k : Fault(k)
    <3>1. PICK k : Fault(k)
      BY <2>2
    <3> DEFINE S == happened \cap FaultKinds
    <3>2. IsFiniteSet(S) /\ Cardinality(S) \in Nat /\ Cardinality(S) < MaxFaults
      BY <3>1, FaultsFinite, FS_CardinalityType DEF Fault
    <3>3. happened' \cap FaultKinds = S \/ happened' \cap FaultKinds = S \cup {k}
      BY <3>1 DEF Fault
    <3> HIDE DEF S
    <3>4. Cardinality(S \cup {k}) \in Nat /\ Cardinality(S \cup {k}) <= MaxFaults
      <4>1. CASE k \in S
        <5>1. S \cup {k} = S
          BY <4>1
        <5> QED BY <3>2, <5>1, OptimizationAssumption
      <4>2. CASE k \notin S
        <5>1. Cardinality(S \cup {k}) = Cardinality(S) + 1
          BY <3>2, <4>2, FS_AddElement
        <5> QED BY <3>2, <5>1, OptimizationAssumption
      <4> QED BY <4>1, <4>2
    <3>5. Cardinality(happened' \cap FaultKinds) <= MaxFaults
      BY <3>2, <3>3, <3>4, OptimizationAssumption
    <3> QED BY <3>5 DEF FewFaults
  <2>3. happened' \cap FaultKinds = happened \cap FaultKinds \/ \E k : Fault(k)
    <3>1. Missed \cap FaultKinds = {} /\ Overruled \cap FaultKinds = {} /\ "twin" \notin FaultKinds
      BY DEF Missed, Overruled, FaultKinds
    <3>2. (happened \cup Missed) \cap FaultKinds = happened \cap FaultKinds
          /\ (happened \cup Overruled) \cap FaultKinds = happened \cap FaultKinds
          /\ (happened \cup {"twin"}) \cap FaultKinds = happened \cap FaultKinds
      BY <3>1
    <3>3. ASSUME NEW w \in Workflows, Start(w) \/ Round(w) \/ WorkflowError(w),
                 ~ \E k : Fault(k)
          PROVE  \/ happened' = happened \/ happened' = happened \cup Missed
                 \/ happened' = happened \cup Overruled
      BY <3>3 DEF Start, Round, LoadConfig, MarkStarted, FirstVersion, PrepareBaseline, LaunchBaseline, StartChild,
         ReadBaselineControl, ResumeBaseline, BaselineStopped, ReloadConfig, CheckGoals, NextRound, ClearResume,
         PrepareRound, CallAnalysisModel, CreateVersion, CreateExperiment, LaunchChild, PollChild, PollParent,
         UpdateBest, UpdateCurrentRound, CheckHistory, Finalize, WorkflowError
    <3>4. ASSUME NEW c \in Requests, Serve(c) \/ LaunchFails(c), ~ \E k : Fault(k)
          PROVE  happened' = happened \/ happened' = happened \cup {"twin"}
      BY <3>4 DEF Serve, Patch, LinkChild, Launch, SetWorkflowId, LaunchFails
    <3>5. ASSUME Create \/ Request \/ Restart \/ Recover
                 \/ \E n \in Experiments : ExperimentEnds(n) \/ ExperimentStopped(n),
                 ~ \E k : Fault(k)
          PROVE  happened' = happened
      BY <3>5 DEF Create, Request, Restart, Recover, ExperimentEnds, ExperimentStopped
    <3>6. CASE UNCHANGED vars
      BY <3>6 DEF vars
    <3> QED BY <1>2, <3>2, <3>3, <3>4, <3>5, <3>6 DEF Next
  <2> QED BY <2>1, <2>2, <2>3
<1> QED BY <1>1, <1>2, ShapeInvariant, PTL DEF Spec

LEMMA OneFault ==
  ASSUME MaxFaults <= 1, FewFaults, NEW j \in FaultKinds, NEW k \in FaultKinds, j # k
  PROVE  j \notin happened \/ k \notin happened
<1> SUFFICES ASSUME j \in happened, k \in happened PROVE FALSE
  OBVIOUS
<1> DEFINE S == happened \cap FaultKinds  T == {j} \cup {k}
<1>1. T \subseteq S /\ IsFiniteSet(S)
  BY FaultsFinite
<1>2. Cardinality({j}) = 1 /\ IsFiniteSet({j}) /\ k \notin {j}
  BY FS_Singleton
<1>3. Cardinality(T) = 2
  BY <1>2, FS_AddElement
<1>4. Cardinality(T) <= Cardinality(S) /\ Cardinality(S) \in Nat
  BY <1>1, FS_Subset, FS_CardinalityType
<1>5. Cardinality(S) <= MaxFaults
  BY DEF FewFaults
<1> HIDE DEF S, T
<1> QED BY <1>3, <1>4, <1>5, OptimizationAssumption

-----------------------------------------------------------------------------
(* The best version.                                                        *)

\* One workflow at a time, each round with its result before the next; and a
\* step that throws leaves its workflow known to the row.
InTouch == happened \cap {"setid", "crash", "lookup"} = {}
Tended == "step" \notin happened \/ InTouch
Ok == Watched /\ Tended

Measures(n) == exp[n].status \in {"success", "failed"}
HasStop == status # "running" \/ control \in {"stop", "cancel"}
BestUpTo(p, n) == \A m \in 0..n : exp[m].status = "success" => exp[m].score <= exp[p].score

\* The requests: a resume starts a workflow when nothing is at work.
Launching == req["user"].pc = "launch" \/ (req["user"].pc = "patch" /\ req["user"].action = "resume")
Requested ==
    /\ Launching => (\A w \in Workflows : ~Live(w)) /\ \A n \in Experiments : ~Running(n)
    /\ req["recovery"].pc = "launch" => status = "running" \/ \A w \in Workflows : ~Live(w)
    /\ req["user"].pc = "link" =>
          control \in {"stop", "cancel"} \/ (status # "running" /\ \A w \in Workflows : ~Live(w))
    /\ control = "resume" => status = "running"

\* The row knows the workflow that is at work.
Known == InTouch =>
    /\ \A w \in Workflows : Live(w) =>
          \/ wfId = w /\ \A c \in Requests : req[c].pc # "setid"
          \/ \E c \in Requests : req[c].pc = "setid" /\ req[c].new = w
    /\ req["recovery"].pc = "launch" => \A w \in Workflows : ~Live(w)

\* A child that runs without a workflow that waits for it is one that nobody
\* waits for until it has ended.
Attended(n) == \E w \in Workflows : wf[w].pc \in {"launch", "poll", "parent"} /\ wf[w].n = n
Left == \A n \in Rounds : Running(n) /\ ~Attended(n) =>
    /\ ~Launching /\ req["recovery"].pc # "launch"
    /\ \A w \in Workflows : Live(w) => wf[w].pc \in {"top", "final"}
    /\ status = "running" => "step" \in happened /\ \E w \in Workflows : wf[w].pc = "final"

\* A child is stopped, and a round left without a result, for a reason that
\* is still there.
StopsFor(l) ==
    /\ l.pc \in {"launch", "poll", "parent"} /\ l.n # 0 /\ exp[l.n].stop => HasStop
    /\ l.pc \in {"poll", "parent"} /\ l.n # 0 /\ exp[l.n].status = "stopped" => HasStop
    /\ l.pc = "top" /\ l.n > 1 /\ ~Measures(l.n - 1) => HasStop

\* The rounds: what exists of them, and what is derived from what.
Sequential == \A n \in Rounds : exp[n].status # "none" => \A m \in 0..(n - 1) : Measures(m)
Parents == \A n \in Rounds : parent[n] # None =>
    parent[n] < n /\ (\A m \in 0..(n - 1) : Measures(m)) /\ BestUpTo(parent[n], n - 1)
UpToCurrent == (\A n \in 1..current : Measures(n)) /\ BestUpTo(best, current)
Baseline == mode = "from_experiment" => exp[0].status = "success"

\* The place of a workflow that works on round n.
AtBase == {"mark", "first", "base"}
BeforeChild == AtBase \cup {"check", "top", "clear", "prepare", "call", "version", "experiment"}
Before(l) == \A m \in Rounds :
    /\ m > l.n => exp[m].status = "none"
    /\ m < l.n => Measures(m) \/ (l.pc = "top" /\ m = l.n - 1 /\ HasStop)
    /\ exp[m].status = "success" /\ m > current =>
          \/ m = l.n /\ l.pc \in {"launch", "poll", "parent", "best", "current"}
          \/ l.pc = "top" /\ m = l.n - 1 /\ HasStop
OwnChild(l) ==
    /\ l.pc \in BeforeChild /\ l.n <= MaxRounds =>
          exp[l.n].status = (IF l.resume THEN "stopped" ELSE "none")
    /\ l.pc = "launch" => IF l.resume THEN exp[l.n].status = "stopped" ELSE Running(l.n) /\ ~exp[l.n].launched
    /\ l.pc = "history" => l.n = current /\ exp[l.n].status = "success"
    /\ l.pc \in {"poll", "parent", "best", "current", "history"} => ~l.resume
Compares(l) ==
    /\ l.pc \notin AtBase => exp[0].status = "success"
    /\ l.pc \in AtBase \cup {"check", "poll", "parent", "best"} => l.snap = best
    /\ l.pc = "current" => /\ exp[l.snap].status = "success" /\ exp[best].score >= exp[l.snap].score
                           /\ exp[best].score >= l.score /\ best \in {l.snap, l.n}
    /\ l.pc \in {"poll", "best", "current"} => (MeetsGoal(best) => best = l.n)
    /\ l.pc \in {"top", "clear", "prepare", "call", "version", "experiment", "launch", "parent", "history"} =>
          ~MeetsGoal(best)
    /\ l.pc \in {"call", "version"} => l.base < l.n /\ BestUpTo(l.base, l.n - 1)
OnRound(l) == l.n # 0 /\ l.pc \notin {"none", "load", "final", "done"}
Place(l) == OnRound(l) => Before(l) /\ OwnChild(l) /\ Compares(l)

\* The verdict that a workflow brings, and the one that was given.
Judged(l) ==
    /\ l.pc = "final" /\ l.end = "goals_met" => MeetsGoal(best)
    /\ l.pc = "final" /\ l.end \in {"max_rounds", "no_improvement"} => ~MeetsGoal(best)
    /\ l.pc = "final" /\ l.end \in {"goals_met", "max_rounds", "no_improvement"} => exp[best].status = "success"
    /\ l.pc = "reload" => exp[0].status = "success"
    /\ status = "success" /\ l.pc \notin {"none", "done"} => l.pc \in {"load", "mark", "final"}
Told ==
    /\ objective = "met" => exp[best].status = "success" /\ MeetsGoal(best)
    /\ status = "success" /\ objective = "not_met" => ~MeetsGoal(best) /\ exp[best].status = "success"

Rows == Requested /\ Known /\ Left
History == Sequential /\ Parents /\ UpToCurrent /\ Baseline /\ Told
AtWork(l) == StopsFor(l) /\ Place(l) /\ Judged(l)
Good == Ok => Rows /\ History /\ \A w \in Workflows : AtWork(wf[w])


-----------------------------------------------------------------------------
(* A step of a workflow, and nobody else at work.                           *)

\* No such step gives a result or takes one back.
LEMMA TurnResults ==
  ASSUME Shape, NEW w \in Workflows, NEW r \in WorkflowType, Turn(w, r), NEW n \in Experiments
  PROVE  /\ exp'[n].score = exp[n].score
         /\ exp'[n].status = "success" <=> exp[n].status = "success"
         /\ Measures(n) => Measures(n)'
         /\ n # 0 /\ exp'[n].status # exp[n].status => (MakesChild(w, r) \/ LaunchesChild(w, r)) /\ n = r.n
<1>1. /\ TypeOK /\ Made /\ Measured /\ Fit(wf[w]) /\ Fit(r) /\ 0 \in Experiments
  BY TurnWrites, Constants DEF Shape, Fits
<1>2. Measures(n) => Measures(n)'
  BY TurnGrows DEF Measures
<1>3. CASE exp' = exp
  BY <1>2, <1>3
<1>4. CASE FindsBase(w, r) /\ exp' # exp
  <2>1. exp' = [exp EXCEPT ![0].status = "running"] /\ exp[0].status = "none"
    BY <1>4 DEF FindsBase
  <2> QED BY <1>1, <1>2, <2>1 DEF TypeOK, ExperimentType
<1>5. CASE LaunchesBase(w, r)
  <2>1. StartChild(0) /\ exp[0].status # "none"
    BY <1>1, <1>5 DEF LaunchesBase, Made, Fit, Opening
  <2>2. ~exp[0].launched => exp[0].status # "success"
    BY <1>1 DEF Measured, Sound
  <2> QED BY <1>1, <1>2, <2>1, <2>2, StartedChild
<1>6. CASE ResumesBase(w, r)
  <2>1. exp' = Resumed(exp, {0})
    BY <1>6 DEF ResumesBase
  <2> QED BY <1>1, <1>2, <2>1, ResumedChild
<1>7. CASE MakesChild(w, r)
  <2>1. r.n \in Experiments /\ exp' = [exp EXCEPT ![r.n].status = IF @ = "none" THEN "running" ELSE @]
    BY <1>1, <1>7, Constants DEF MakesChild, Fit, InRound
  <2> QED BY <1>1, <1>2, <1>7, <2>1, MadeChild
<1>8. CASE LaunchesChild(w, r)
  <2>1. r.n \in Experiments /\ exp[r.n].status # "none"
    BY <1>1, <1>8, Constants DEF LaunchesChild, Fit, InRound, Made
  <2>2. CASE StartChild(r.n)
    <3>1. ~exp[r.n].launched => exp[r.n].status # "success"
      BY <1>1, <2>1 DEF Measured, Sound
    <3> QED BY <1>1, <1>2, <1>8, <2>1, <2>2, <3>1, StartedChild
  <2>3. CASE exp' = Resumed(exp, {r.n})
    BY <1>1, <1>2, <1>8, <2>1, <2>3, ResumedChild
  <2> QED BY <1>8, <2>2, <2>3 DEF LaunchesChild
<1>9. CASE PollsParent(w, r) /\ exp' # exp
  <2>1. exp' = Stopped(exp, {wf[w].n})
    BY <1>9 DEF PollsParent
  <2> QED BY <1>1, <1>2, <2>1, StoppedChild
<1> QED BY <1>1, <1>3, <1>4, <1>5, <1>6, <1>7, <1>8, <1>9, TurnWrites

LEMMA TurnBest ==
  ASSUME Shape, NEW w \in Workflows, NEW r \in WorkflowType, Turn(w, r),
         NEW p \in Experiments, NEW n \in Int, n <= MaxRounds
  PROVE  /\ BestUpTo(p, n) => BestUpTo(p, n)'
         /\ MeetsGoal(p)' <=> MeetsGoal(p)
<1>1. \A m \in 0..n : m \in Experiments
  BY OptimizationAssumption DEF Experiments
<1> QED BY <1>1, TurnResults DEF BestUpTo, MeetsGoal

\* A workflow that is not at work satisfies what is said about one that is.
LEMMA Idle ==
  ASSUME NEW l, l.pc \in {"none", "done"}
  PROVE  AtWork(l) /\ AtWork(l)'
BY DEF AtWork, StopsFor, Place, OnRound, Judged

LEMMA GoodTurn ==
  ASSUME Shape, Solo, Good, Ok', NEW w \in Workflows, NEW r \in WorkflowType, Turn(w, r)
  PROVE  /\ TypeOK /\ Made /\ Measured /\ 0 \in Experiments
         /\ wf[w] \in WorkflowType /\ Fit(wf[w]) /\ Fit(r) /\ wf'[w] = r /\ Live(w)
         /\ mode' = mode /\ req' = req /\ wfId' = wfId
         /\ Requested /\ Known /\ Left /\ Sequential /\ Parents /\ UpToCurrent /\ Baseline /\ Told
         /\ StopsFor(wf[w]) /\ Place(wf[w]) /\ Judged(wf[w])
         /\ \A v \in Workflows : v # w => ~Live(v) /\ wf'[v] = wf[v] /\ ~Live(v)'
         /\ ~Launching
         /\ "timeout" \notin happened' /\ "missed" \notin happened'
         /\ "step" \in happened' => InTouch /\ InTouch'
         /\ InTouch' => InTouch
         /\ "step" \in happened => "step" \in happened'
         /\ FinalStatus(wf[w].end) # "running"
<1>1. /\ TypeOK /\ Made /\ Measured /\ 0 \in Experiments
      /\ wf[w] \in WorkflowType /\ Fit(wf[w])
  BY Constants DEF Shape, Fits, TypeOK
<1>2. Fit(r) /\ wf'[w] = r /\ Live(w) /\ mode' = mode /\ req' = req /\ wfId' = wfId
  BY <1>1, TurnWrites
<1>3. happened \subseteq happened'
  BY TurnGrows
<1>4. Ok /\ (InTouch' => InTouch)
  BY <1>3 DEF Ok, Watched, Orderly, Tended, InTouch
<1>5. "twin" \notin happened' /\ "timeout" \notin happened' /\ "missed" \notin happened'
  BY DEF Ok, Watched, Orderly
<1>6. \A v \in Workflows : v # w => ~Live(v) /\ wf'[v] = wf[v] /\ ~Live(v)'
  BY <1>5, SoloTurn DEF Live
<1>7. Rows /\ History /\ AtWork(wf[w])
  BY <1>4 DEF Good
<1>8. ~Launching
  BY <1>2, <1>7 DEF Rows, Requested
<1>9. "step" \in happened' => InTouch'
  BY DEF Ok, Tended
<1>10. FinalStatus(wf[w].end) # "running"
  BY <1>1 DEF FinalStatus, WorkflowType
<1> QED BY <1>1, <1>2, <1>3, <1>4, <1>5, <1>6, <1>7, <1>8, <1>9, <1>10 DEF Rows, History, AtWork

LEMMA TurnKeepsRequested ==
  ASSUME Shape, Solo, Good, Ok', NEW w \in Workflows, NEW r \in WorkflowType, Turn(w, r)
  PROVE  Requested'
<1>1. /\ TypeOK /\ req' = req /\ Live(w) /\ Requested /\ ~Launching /\ wf'[w] = r /\ FinalStatus(wf[w].end) # "running"
      /\ \A v \in Workflows : v # w => ~Live(v)'
  BY GoodTurn
<1>2. ~Launching'
  BY <1>1 DEF Launching
<1>3. /\ req["recovery"].pc = "launch" => status = "running"
      /\ req["user"].pc = "link" => control \in {"stop", "cancel"}
      /\ control = "resume" => status = "running"
  BY <1>1 DEF Requested
<1>4. CASE Finishes(w, r)
  <2>1. \A v \in Workflows : ~Live(v)'
    BY <1>1, <1>4 DEF Finishes, Live
  <2>2. status' # "running" /\ control' # "resume"
    BY <1>1, <1>3, <1>4 DEF Finishes
  <2> QED BY <1>2, <2>1, <2>2 DEF Requested
<1>5. CASE Marks(w, r)
  BY <1>1, <1>2, <1>3, <1>5 DEF Marks, Requested
<1>6. CASE Clears(w, r)
  BY <1>1, <1>2, <1>3, <1>6 DEF Clears, Requested
<1>7. CASE status' = status /\ control' = control
  BY <1>1, <1>2, <1>3, <1>7 DEF Requested
<1> QED BY <1>1, <1>4, <1>5, <1>6, <1>7, TurnWrites

LEMMA TurnKeepsKnown ==
  ASSUME Shape, Solo, Good, Ok', NEW w \in Workflows, NEW r \in WorkflowType, Turn(w, r)
  PROVE  Known'
<1>1. /\ TypeOK /\ req' = req /\ wfId' = wfId /\ Known /\ Live(w) /\ (InTouch' => InTouch)
      /\ \A v \in Workflows : v # w => ~Live(v)'
  BY GoodTurn
<1> QED BY <1>1 DEF Known

\* A workflow leaves a running child only for good.
LEMMA TurnKeepsLeft ==
  ASSUME Shape, Solo, Good, Ok', NEW w \in Workflows, NEW r \in WorkflowType, Turn(w, r)
  PROVE  Left'
<1>1. /\ TypeOK /\ req' = req /\ Live(w) /\ Left /\ ~Launching /\ wf'[w] = r /\ wf[w] \in WorkflowType
      /\ Requested /\ Known /\ FinalStatus(wf[w].end) # "running"
      /\ \A v \in Workflows : v # w => ~Live(v) /\ wf'[v] = wf[v] /\ ~Live(v)'
      /\ "timeout" \notin happened' /\ ("step" \in happened' => InTouch /\ InTouch')
      /\ ("step" \in happened => "step" \in happened')
  BY GoodTurn
<1>2. ~Launching'
  BY <1>1 DEF Launching
<1>3. \A n \in Rounds : Attended(n) <=> wf[w].pc \in {"launch", "poll", "parent"} /\ wf[w].n = n
  BY <1>1 DEF Attended, Live
<1>4. \A n \in Rounds : Attended(n)' <=> r.pc \in {"launch", "poll", "parent"} /\ r.n = n
  BY <1>1 DEF Attended, Live
<1> SUFFICES ASSUME NEW n \in Rounds, exp'[n].status = "running",
                    ~(r.pc \in {"launch", "poll", "parent"} /\ r.n = n)
             PROVE  /\ req["recovery"].pc # "launch"
                    /\ r.pc \in {"none", "done", "top", "final"}
                    /\ status' = "running" => "step" \in happened' /\ r.pc = "final"
  BY <1>1, <1>2, <1>4 DEF Left, Running, Live
<1>5. n \in Experiments /\ n # 0
  BY Constants
<1>6. exp[n].status = "running"
  BY <1>5, TurnResults DEF MakesChild, LaunchesChild
<1>7. CASE wf[w].pc \in {"launch", "poll", "parent"} /\ wf[w].n = n
  <2>1. CASE Fails(w, r)
    <3>1. "step" \in happened' /\ r.pc = "final"
      BY <1>7, <2>1 DEF Fails
    <3>2. req["recovery"].pc # "launch"
      BY <1>1, <3>1 DEF Known
    <3> QED BY <3>1, <3>2
  <2>2. CASE PollsParent(w, r)
    <3>1. status # "running" /\ r.pc = "top" /\ status' = status
      BY <1>5, <1>7, <2>2 DEF PollsParent, Leaves, row
    <3>2. req["recovery"].pc # "launch"
      BY <1>1, <3>1 DEF Requested
    <3> QED BY <3>1, <3>2
  <2>3. CASE Polls(w, r)
    BY <1>1, <1>6, <1>7, <2>3 DEF Polls, Running, Keeps
  <2>4. CASE LaunchesChild(w, r)
    BY <1>7, <2>4 DEF LaunchesChild
  <2> QED BY <1>7, <2>1, <2>2, <2>3, <2>4 DEF Turn, Loads, Marks, MakesFirst, FindsBase, LaunchesBase,
          ReadsControl, ResumesBase, Clears, Reloads, Checks, Tops, Prepares, Calls, Versions, MakesChild,
          FindsBest, EndsRound, ReadsHistory, Finishes
<1>8. CASE ~(wf[w].pc \in {"launch", "poll", "parent"} /\ wf[w].n = n)
  <2>1. /\ req["recovery"].pc # "launch" /\ wf[w].pc \in {"top", "final"}
        /\ status = "running" => "step" \in happened /\ wf[w].pc = "final"
    BY <1>1, <1>3, <1>6, <1>8 DEF Left, Running, Live
  <2>2. CASE Fails(w, r)
    <3>1. r.pc = "final" /\ "step" \in happened' /\ status' = status
      BY <2>1, <2>2 DEF Fails, row
    <3> QED BY <2>1, <3>1
  <2>3. CASE Tops(w, r)
    <3>1. r.pc \in {"done", "final"} /\ status' = status /\ wf[w].pc = "top"
      BY <2>1, <2>3 DEF Tops, row
    <3> QED BY <2>1, <3>1
  <2>4. CASE Finishes(w, r)
    <3>1. r.pc = "done" /\ status' # "running"
      BY <1>1, <2>4 DEF Finishes
    <3> QED BY <2>1, <3>1
  <2> QED BY <2>1, <2>2, <2>3, <2>4 DEF Turn, Loads, Marks, MakesFirst, FindsBase, LaunchesBase,
          ReadsControl, ResumesBase, Clears, Reloads, Checks, Prepares, Calls, Versions, MakesChild,
          LaunchesChild, Polls, PollsParent, FindsBest, EndsRound, ReadsHistory
<1> QED BY <1>7, <1>8

LEMMA TurnKeepsSequential ==
  ASSUME Shape, Solo, Good, Ok', NEW w \in Workflows, NEW r \in WorkflowType, Turn(w, r)
  PROVE  Sequential'
<1> SUFFICES ASSUME NEW n \in Rounds, exp'[n].status # "none", NEW m \in 0..(n - 1)
             PROVE  Measures(m)'
  BY DEF Sequential
<1>1. n \in Experiments /\ n # 0 /\ m \in Experiments /\ m < n
  BY Constants DEF Experiments, Rounds
<1>2. CASE exp[n].status # "none"
  BY <1>1, <1>2, GoodTurn, TurnResults DEF Sequential
<1>3. CASE exp[n].status = "none"
  <2>1. CASE MakesChild(w, r) /\ n = r.n
    <3>1. wf[w].n = n /\ wf[w].pc = "experiment"
      BY <2>1 DEF MakesChild, Keeps
    <3>2. Before(wf[w]) /\ Compares(wf[w])
      BY <1>1, <3>1, GoodTurn DEF Place, OnRound
    <3>3. m # 0 => m \in Rounds
      BY <1>1, Constants
    <3>4. Measures(m)
      BY <1>1, <3>1, <3>2, <3>3 DEF Before, Compares, AtBase, Measures
    <3> QED BY <1>1, <3>4, TurnResults
  <2>2. CASE LaunchesChild(w, r) /\ n = r.n
    BY <1>3, <2>2, GoodTurn DEF LaunchesChild, Made
  <2> QED BY <1>1, <1>3, <2>1, <2>2, TurnResults
<1> QED BY <1>2, <1>3

LEMMA TurnKeepsParents ==
  ASSUME Shape, Solo, Good, Ok', NEW w \in Workflows, NEW r \in WorkflowType, Turn(w, r)
  PROVE  Parents'
<1>1. TypeOK /\ Parents /\ Place(wf[w]) /\ wf[w] \in WorkflowType
  BY GoodTurn
<1> SUFFICES ASSUME NEW n \in Rounds, parent'[n] # None
             PROVE  /\ parent'[n] < n /\ \A m \in 0..(n - 1) : Measures(m)'
                    /\ \A m \in 0..(n - 1) : exp'[m].status = "success" => exp'[m].score <= exp'[parent'[n]].score
  BY DEF Parents, BestUpTo
<1>2. n \in Experiments /\ n # 0 /\ n - 1 \in Int /\ n - 1 <= MaxRounds /\ \A m \in 0..(n - 1) : m \in Experiments
  BY Constants DEF Experiments, Rounds
<1>3. ASSUME NEW p \in Experiments, parent'[n] = p, p < n, \A m \in 0..(n - 1) : Measures(m), BestUpTo(p, n - 1)
      PROVE  /\ parent'[n] < n /\ \A m \in 0..(n - 1) : Measures(m)'
             /\ \A m \in 0..(n - 1) : exp'[m].status = "success" => exp'[m].score <= exp'[parent'[n]].score
  <2>1. BestUpTo(p, n - 1)'
    BY <1>2, <1>3, TurnBest
  <2>2. \A m \in 0..(n - 1) : exp'[m].status = "success" => exp'[m].score <= exp'[p].score
    BY <2>1 DEF BestUpTo
  <2> QED BY <1>2, <1>3, <2>2, TurnResults
<1>4. CASE parent'[n] = parent[n]
  <2>1. parent[n] \in Experiments /\ parent[n] # None
    BY <1>1, <1>2, <1>4 DEF TypeOK
  <2> QED BY <1>1, <1>3, <1>4, <2>1 DEF Parents
<1>5. CASE Versions(w, r) /\ n = r.n /\ parent[n] = None
  <2>1. wf[w].n = n /\ wf[w].pc = "version" /\ wf[w].base \in Experiments
    BY <1>1, <1>5 DEF Versions, Keeps, WorkflowType
  <2>2. Before(wf[w]) /\ Compares(wf[w])
    BY <1>1, <1>2, <2>1 DEF Place, OnRound
  <2>3. wf[w].base < n /\ BestUpTo(wf[w].base, n - 1)
    BY <2>1, <2>2 DEF Compares
  <2>4. ASSUME NEW m \in 0..(n - 1) PROVE Measures(m)
    <3>1. m < n /\ (m # 0 => m \in Rounds)
      BY <1>2, Constants
    <3> QED BY <2>1, <2>2, <3>1 DEF Before, Compares, AtBase, Measures
  <2>5. parent'[n] = wf[w].base
    BY <1>1, <1>2, <1>5 DEF Versions, TypeOK
  <2> QED BY <1>3, <2>1, <2>3, <2>4, <2>5
<1>6. CASE MakesFirst(w, r)
  BY <1>1, <1>2, <1>4, <1>6 DEF MakesFirst, TypeOK
<1>7. CASE Versions(w, r)
  <2>1. parent'[n] = parent[n] \/ (n = r.n /\ parent[n] = None)
    BY <1>1, <1>2, <1>7 DEF Versions, TypeOK
  <2> QED BY <1>4, <1>5, <1>7, <2>1
<1> QED BY <1>1, <1>4, <1>6, <1>7, TurnWrites

\* The best so far: a round is compared with it before it counts as finished.
LEMMA TurnKeepsUpToCurrent ==
  ASSUME Shape, Solo, Good, Ok', NEW w \in Workflows, NEW r \in WorkflowType, Turn(w, r)
  PROVE  UpToCurrent'
<1>1. /\ TypeOK /\ Measured /\ UpToCurrent /\ Place(wf[w]) /\ wf[w] \in WorkflowType /\ Fit(wf[w])
      /\ best \in Experiments /\ current \in Experiments /\ current \in Nat /\ current <= MaxRounds
      /\ 0 \in Experiments /\ \A n \in Experiments : n \in Nat /\ exp[n].score \in Nat
  <2>1. best \in Experiments /\ current \in Experiments /\ \A n \in Experiments : exp[n].score \in Scores
    BY GoodTurn DEF TypeOK, ExperimentType
  <2>2. ASSUME NEW n \in Experiments PROVE n \in Nat /\ n <= MaxRounds /\ exp[n].score \in Nat
    <3>1. n \in Nat /\ n <= MaxRounds
      BY OptimizationAssumption DEF Experiments
    <3>2. exp[n].score \in Scores
      BY <2>1
    <3> QED BY <3>1, <3>2, Constants
  <2> QED BY <2>1, <2>2, GoodTurn
<1>2. \A m \in 0..current : m \in Experiments
  BY <1>1, OptimizationAssumption DEF Experiments
<1>3. CASE FindsBest(w, r)
  <2>1. /\ wf[w].pc = "best" /\ wf[w].n \in Rounds /\ wf[w].n # 0 /\ wf[w].n \in Experiments
        /\ current' = current /\ exp' = exp
    BY <1>1, <1>3, Constants DEF FindsBest, Fit, InRound
  <2>2. wf[w].snap = best /\ wf[w].score = exp[wf[w].n].score
    BY <1>1, <2>1 DEF Place, OnRound, Compares, Measured
  <2>3. best' \in Experiments /\ exp[best'].score >= exp[best].score
    <3>1. best' = best \/ (best' = wf[w].n /\ exp[wf[w].n].score > exp[best].score)
      BY <1>3, <2>2 DEF FindsBest
    <3>2. CASE best' = best
      <4>1. best \in Experiments /\ exp[best].score \in Nat
        BY <1>1
      <4>2. exp[best].score >= exp[best].score
        BY <4>1
      <4> QED BY <3>2, <4>1, <4>2
    <3>3. CASE best' = wf[w].n /\ exp[wf[w].n].score > exp[best].score
      <4>1. exp[wf[w].n].score \in Nat /\ exp[best].score \in Nat
        BY <1>1, <2>1
      <4> QED BY <2>1, <3>3, <4>1
    <3> QED BY <3>1, <3>2, <3>3
  <2>4. BestUpTo(best', current)
    BY <1>1, <1>2, <2>3 DEF UpToCurrent, BestUpTo
  <2> QED BY <1>1, <2>1, <2>4 DEF UpToCurrent, BestUpTo, Measures
<1>4. CASE EndsRound(w, r)
  <2>1. /\ wf[w].pc = "current" /\ wf[w].n \in Rounds /\ wf[w].n # 0 /\ wf[w].n \in Experiments
        /\ current' = wf[w].n /\ exp' = exp /\ best' = best
    BY <1>1, <1>4, Constants DEF EndsRound, Fit, InRound
  <2>2. Before(wf[w]) /\ Compares(wf[w]) /\ exp[wf[w].n].status = "success" /\ wf[w].score = exp[wf[w].n].score
    BY <1>1, <2>1 DEF Place, OnRound, Measured
  <2>3. ASSUME NEW m \in 1..wf[w].n PROVE Measures(m)
    <3>1. m \in Rounds /\ (m < wf[w].n \/ m = wf[w].n)
      BY <2>1, Constants DEF Rounds
    <3> QED BY <2>1, <2>2, <3>1 DEF Before, Measures
  <2>4. ASSUME NEW m \in 0..wf[w].n, exp[m].status = "success" PROVE exp[m].score <= exp[best].score
    <3>1. CASE m <= current
      BY <1>1, <2>4, <3>1 DEF UpToCurrent, BestUpTo
    <3>2. CASE m > current
      <4>1. m \in Rounds
        BY <1>1, <2>1, <3>2, Constants DEF Rounds
      <4>2. m = wf[w].n
        BY <2>1, <2>2, <2>4, <3>2, <4>1 DEF Before
      <4> QED BY <1>1, <2>1, <2>2, <4>2 DEF Compares
    <3> QED BY <1>1, <3>1, <3>2
  <2> QED BY <2>1, <2>3, <2>4 DEF UpToCurrent, BestUpTo, Measures
<1>5. CASE best' = best /\ current' = current
  <2>1. BestUpTo(best, current)'
    <3>1. BestUpTo(best, current)
      BY <1>1 DEF UpToCurrent
    <3>2. \A m \in 0..current : (exp'[m].status = "success" <=> exp[m].status = "success") /\ exp'[m].score = exp[m].score
      BY <1>2, TurnResults
    <3>3. exp'[best].score = exp[best].score
      BY <1>1, TurnResults
    <3> QED BY <1>5, <3>1, <3>2, <3>3 DEF BestUpTo
  <2>2. ASSUME NEW m \in 1..current PROVE Measures(m)'
    BY <1>1, <1>2, TurnResults DEF UpToCurrent
  <2> QED BY <1>5, <2>1, <2>2 DEF UpToCurrent
<1>6. FindsBest(w, r) => current' = current
  BY DEF FindsBest
<1>7. EndsRound(w, r) => best' = best
  BY DEF EndsRound
<1> QED BY <1>1, <1>3, <1>4, <1>5, TurnWrites

\* The verdict that was given stays true.
LEMMA TurnKeepsTold ==
  ASSUME Shape, Solo, Good, Ok', NEW w \in Workflows, NEW r \in WorkflowType, Turn(w, r)
  PROVE  Told' /\ Baseline'
<1>1. /\ TypeOK /\ Measured /\ Told /\ Baseline /\ Place(wf[w]) /\ Judged(wf[w]) /\ wf[w] \in WorkflowType
      /\ Fit(wf[w]) /\ Live(w) /\ best \in Experiments /\ 0 \in Experiments /\ mode' = mode
      /\ \A n \in Experiments : n \in Nat /\ exp[n].score \in Nat
  <2>1. best \in Experiments /\ \A n \in Experiments : exp[n].score \in Scores
    BY GoodTurn DEF TypeOK, ExperimentType
  <2> QED BY <2>1, GoodTurn, Constants
<1>2. Baseline'
  BY <1>1, TurnResults DEF Baseline
<1>3. \A n \in Experiments : (exp'[n].status = "success" <=> exp[n].status = "success") /\ (MeetsGoal(n)' <=> MeetsGoal(n))
  BY TurnResults DEF MeetsGoal
<1>4. CASE FindsBest(w, r)
  <2>1. /\ wf[w].pc = "best" /\ wf[w].n \in Rounds /\ wf[w].n # 0 /\ wf[w].n \in Experiments
        /\ status' = status /\ objective' = objective /\ exp' = exp
    BY <1>1, <1>4, Constants DEF FindsBest, Fit, InRound, row
  <2>2. /\ wf[w].snap = best /\ wf[w].score = exp[wf[w].n].score /\ exp[wf[w].n].status = "success"
        /\ status # "success"
    BY <1>1, <2>1 DEF Place, OnRound, Compares, Measured, Judged
  <2>3. best' = best \/ (best' = wf[w].n /\ exp[wf[w].n].score > exp[best].score)
    BY <1>4, <2>2 DEF FindsBest
  <2>4. objective = "met" => exp[best'].status = "success" /\ exp[best'].score >= Goal
    BY <1>1, <2>1, <2>2, <2>3, OptimizationAssumption DEF Told, MeetsGoal
  <2> QED BY <1>2, <2>1, <2>2, <2>4 DEF Told, MeetsGoal
<1>5. CASE best' = best /\ Finishes(w, r) /\ status = "running"
  <2>1. status' = FinalStatus(wf[w].end) /\ objective' = FinalObjective(wf[w].end) /\ wf[w].pc = "final"
    BY <1>5 DEF Finishes
  <2>2. objective' = "met" => exp[best].status = "success" /\ MeetsGoal(best)
    BY <1>1, <2>1 DEF FinalObjective, Judged
  <2>3. status' = "success" /\ objective' = "not_met" => exp[best].status = "success" /\ ~MeetsGoal(best)
    BY <1>1, <2>1 DEF FinalStatus, FinalObjective, Judged, WorkflowType
  <2> QED BY <1>1, <1>2, <1>3, <1>5, <2>2, <2>3 DEF Told, MeetsGoal
<1>6. CASE /\ best' = best /\ objective' = objective
           /\ status' = status \/ status' = "running"
  BY <1>1, <1>2, <1>3, <1>6 DEF Told, MeetsGoal
<1>7. Finishes(w, r) => best' = best
  BY DEF Finishes, progress
<1>8. Marks(w, r) \/ Clears(w, r) => best' = best /\ objective' = objective /\ (status' = status \/ status' = "running")
  BY DEF Marks, Clears, progress
<1>9. Finishes(w, r) /\ status # "running" => status' = status /\ objective' = objective
  BY DEF Finishes
<1> QED BY <1>1, <1>4, <1>5, <1>6, <1>7, <1>8, <1>9, TurnWrites

\* A plan goes on with the interrupted round or with the one after the last,
\* and finds no later round and no gap.
LEMMA PlanFinds ==
  ASSUME Shape, Sequential, \A n \in Rounds : ~Running(n), NEW r \in WorkflowType, PlanFits(r)
  PROVE  /\ \A m \in Rounds : (m > r.n => exp[m].status = "none") /\ (m < r.n => Measures(m))
         /\ r.n \in Rounds => exp[r.n].status = (IF r.resume THEN "stopped" ELSE "none")
<1>1. /\ r.n \in 0..(MaxRounds + 1) /\ MaxRounds \in Nat
      /\ \A m \in Rounds : /\ m \in Nat /\ m > 0 /\ m <= MaxRounds
                           /\ exp[m].status \in {"none", "running", "stopped", "failed", "success"}
  BY Constants DEF Shape, TypeOK, ExperimentType, WorkflowType, Rounds
<1>2. CASE r.resume
  <2>1. r.n \in Rounds /\ exp[r.n].status = "stopped"
    BY <1>2 DEF PlanFits, Interrupted, Running
  <2>2. ASSUME NEW m \in Rounds, m > r.n PROVE exp[m].status = "none"
    <3>1. r.n \in 0..(m - 1) /\ ~Measures(r.n)
      BY <1>1, <2>1, <2>2 DEF Measures
    <3> QED BY <3>1 DEF Sequential
  <2>3. ASSUME NEW m \in Rounds, m < r.n PROVE Measures(m)
    <3>1. m \in 0..(r.n - 1)
      BY <1>1, <2>1, <2>3
    <3> QED BY <2>1, <3>1 DEF Sequential
  <2> QED BY <1>2, <2>1, <2>2, <2>3
<1>3. CASE ~r.resume
  <2>1. Interrupted = {} /\ (r.n = 1 \/ r.n - 1 \in Finished) /\ \A m \in Finished : m < r.n
    BY <1>3 DEF PlanFits
  <2>2. ASSUME NEW m \in Rounds, m >= r.n PROVE exp[m].status = "none"
    <3>1. m \notin Finished /\ m \notin Interrupted
      BY <1>1, <2>1, <2>2
    <3> QED BY <1>1, <3>1 DEF Finished, Interrupted
  <2>3. ASSUME NEW m \in Rounds, m < r.n PROVE Measures(m)
    <3>1. r.n - 1 \in Finished
      BY <1>1, <2>1, <2>3
    <3>2. r.n - 1 \in Rounds /\ Measures(r.n - 1)
      BY <3>1 DEF Finished, Measures
    <3>3. m = r.n - 1 \/ m \in 0..((r.n - 1) - 1)
      BY <1>1, <2>3
    <3> QED BY <3>2, <3>3 DEF Sequential, Measures
  <2> QED BY <1>1, <1>3, <2>2, <2>3
<1> QED BY <1>2, <1>3

LEMMA TurnStopsFor ==
  ASSUME Shape, Solo, Good, Ok', NEW w \in Workflows, NEW r \in WorkflowType, Turn(w, r)
  PROVE  StopsFor(r)'
<1>1. /\ TypeOK /\ Made /\ Measured /\ 0 \in Experiments /\ StopsFor(wf[w]) /\ Place(wf[w])
      /\ wf[w] \in WorkflowType /\ Fit(wf[w]) /\ Fit(r) /\ "timeout" \notin happened'
  BY GoodTurn
<1>2. UNCHANGED row => (HasStop' <=> HasStop)
  BY DEF HasStop, row
<1>3. ASSUME r.pc \in {"launch", "poll", "parent"}, r.n # 0
      PROVE  (exp'[r.n].stop => HasStop') /\ (r.pc # "launch" /\ exp'[r.n].status = "stopped" => HasStop')
  <2>1. r.n \in Experiments /\ r.n \in Rounds
    BY <1>1, <1>3, Constants DEF Fit, InRound, Waiting
  <2>2. CASE MakesChild(w, r)
    <3>1. /\ wf[w].n = r.n /\ wf[w].pc = "experiment" /\ r.pc = "launch"
          /\ exp' = [exp EXCEPT ![r.n].status = IF @ = "none" THEN "running" ELSE @]
      BY <2>2 DEF MakesChild, Keeps
    <3>2. exp[r.n].status \in {"none", "stopped"}
      BY <1>1, <1>3, <2>1, <3>1 DEF Place, OnRound, OwnChild, BeforeChild, Rounds
    <3>3. ~exp[r.n].stop
      BY <1>1, <2>1, <3>2 DEF Measured, Sound
    <3> QED BY <1>1, <2>1, <3>1, <3>3, MadeChild
  <2>3. CASE LaunchesChild(w, r)
    <3>1. wf[w].pc = "launch" /\ wf[w].n = r.n /\ exp[r.n].status # "none" /\ UNCHANGED row
      BY <1>1, <2>3 DEF LaunchesChild, Made
    <3>2. exp[r.n].stop => HasStop
      BY <1>1, <1>3, <3>1 DEF StopsFor
    <3>3. CASE wf[w].resume /\ exp' = Resumed(exp, {r.n})
      <4>1. exp'[r.n].stop = exp[r.n].stop /\ exp'[r.n].status # "stopped"
        <5>1. /\ Resumed(exp, {r.n})[r.n].stop = exp[r.n].stop
              /\ Resumed(exp, {r.n})[r.n].status =
                   IF r.n \in {r.n} /\ exp[r.n].status = "stopped" THEN "running" ELSE exp[r.n].status
          BY <1>1, <2>1, ResumedChild
        <5> QED BY <3>3, <5>1
      <4> QED BY <1>2, <3>1, <3>2, <4>1
    <3>4. CASE ~wf[w].resume /\ StartChild(r.n)
      <4>1. exp[r.n].status = "running"
        BY <1>1, <1>3, <3>1, <3>4 DEF Place, OnRound, OwnChild, Running
      <4> QED BY <1>1, <1>2, <2>1, <3>1, <3>2, <3>4, <4>1, StartedChild
    <3> QED BY <2>3, <3>3, <3>4 DEF LaunchesChild
  <2>4. CASE Polls(w, r)
    <3>1. wf[w].pc = "poll" /\ wf[w].n = r.n /\ exp' = exp /\ UNCHANGED row
      BY <1>1, <1>3, <2>4 DEF Polls, Leaves, Keeps
    <3> QED BY <1>1, <1>2, <1>3, <3>1 DEF StopsFor
  <2>5. CASE PollsParent(w, r)
    <3>1. /\ wf[w].pc = "parent" /\ wf[w].n = r.n /\ UNCHANGED row
          /\ exp' = IF PassesOn(w) THEN Stopped(exp, {r.n}) ELSE exp
      BY <1>3, <2>5 DEF PollsParent, Leaves
    <3>2. PassesOn(w) => HasStop
      BY DEF PassesOn, HasStop
    <3>3. exp'[r.n].status = exp[r.n].status /\ (exp'[r.n].stop => exp[r.n].stop \/ PassesOn(w))
      BY <1>1, <2>1, <3>1, StoppedChild
    <3> QED BY <1>1, <1>2, <1>3, <3>1, <3>2, <3>3 DEF StopsFor
  <2>6. ~FindsBase(w, r) /\ ~LaunchesBase(w, r) /\ ~Clears(w, r)
    BY <1>1, <1>3 DEF FindsBase, LaunchesBase, Clears, Keeps, Fit, Opening
  <2> QED BY <1>3, <2>2, <2>3, <2>4, <2>5, <2>6 DEF Turn, Fails, Loads, Marks, MakesFirst,
          ReadsControl, ResumesBase, Reloads, Checks, Tops, Prepares, Calls, Versions, FindsBest, EndsRound,
          ReadsHistory, Finishes
<1>4. ASSUME r.pc = "top", r.n > 1, ~Measures(r.n - 1)' PROVE HasStop'
  <2>1. r.n - 1 \in Rounds /\ r.n - 1 \in Experiments /\ r.n - 1 < r.n
    BY <1>4, Constants DEF WorkflowType, Rounds
  <2>2. ~Measures(r.n - 1)
    BY <1>4, <2>1, TurnResults
  <2>3. CASE Checks(w, r)
    <3>1. wf[w].pc = "check" /\ wf[w].n = r.n
      BY <1>4, <2>3 DEF Checks
    <3> QED BY <1>1, <1>4, <2>1, <2>2, <3>1 DEF Place, OnRound, Before
  <2>4. CASE Polls(w, r)
    <3>1. /\ wf[w].pc = "poll" /\ r.n = wf[w].n + 1 /\ wf[w].n # 0 /\ UNCHANGED row
          /\ exp[wf[w].n].status \in {"stopped", "failed"}
      BY <1>1, <1>4, <2>4 DEF Polls, Leaves
    <3>2. wf[w].n = r.n - 1
      BY <1>1, <3>1, Constants DEF WorkflowType
    <3> QED BY <1>1, <1>2, <2>2, <3>1, <3>2 DEF StopsFor, Measures
  <2>5. CASE PollsParent(w, r)
    <3>1. status # "running" /\ UNCHANGED row
      BY <1>4, <2>5 DEF PollsParent
    <3> QED BY <1>2, <3>1 DEF HasStop
  <2>6. CASE ReadsHistory(w, r)
    <3>1. wf[w].pc = "history" /\ r.n = wf[w].n + 1 /\ wf[w].n # 0
      BY <1>1, <1>4, <2>6, Constants DEF ReadsHistory, Fit, InRound
    <3>2. wf[w].n = r.n - 1
      BY <1>1, <3>1, Constants DEF WorkflowType
    <3> QED BY <1>1, <2>2, <3>1, <3>2 DEF Place, OnRound, OwnChild, Measures
  <2> QED BY <1>4, <2>3, <2>4, <2>5, <2>6 DEF Turn, Fails, Loads, Marks, MakesFirst, FindsBase, LaunchesBase,
          ReadsControl, ResumesBase, Clears, Reloads, Tops, Prepares, Calls, Versions, MakesChild,
          LaunchesChild, FindsBest, EndsRound, Finishes
<1> QED BY <1>3, <1>4 DEF StopsFor

\* How a workflow comes to work on a round: it plans it, goes on to the next
\* one, or was at it before.
Plans(w, r) == Loads(w, r) \/ Reloads(w, r) \/ MakesFirst(w, r)
GoesOn(w, r) ==
    /\ Polls(w, r) \/ PollsParent(w, r) \/ ReadsHistory(w, r)
    /\ r.pc = "top" /\ wf[w].pc \in {"poll", "parent", "history"} /\ OnRound(wf[w]) /\ r.n = wf[w].n + 1
Remains(w, r) ==
    /\ \/ Marks(w, r) \/ FindsBase(w, r) \/ Checks(w, r) \/ Tops(w, r) \/ Clears(w, r) \/ Prepares(w, r)
       \/ Calls(w, r) \/ Versions(w, r) \/ MakesChild(w, r) \/ LaunchesChild(w, r) \/ Polls(w, r)
       \/ PollsParent(w, r) \/ FindsBest(w, r) \/ EndsRound(w, r)
    /\ OnRound(wf[w]) /\ r.n = wf[w].n

LEMMA Ways ==
  ASSUME TypeOK, NEW w \in Workflows, NEW r \in WorkflowType, Turn(w, r), OnRound(r), Fit(wf[w]), Fit(r)
  PROVE  Plans(w, r) \/ GoesOn(w, r) \/ Remains(w, r)
<1>1. r.pc \notin {"none", "load", "final", "done"} \cup Opening /\ r.n # 0
  BY DEF OnRound, Fit, Opening
<1>2. CASE Polls(w, r) \/ PollsParent(w, r)
  <2>1. \A found : Leaves(w, r, found) =>
           wf[w].n # 0 /\ (r.n = wf[w].n \/ (r.pc = "top" /\ r.n = wf[w].n + 1))
    BY <1>1 DEF Leaves, Opening
  <2>2. CASE Polls(w, r)
    <3>1. wf[w].pc = "poll" /\ wf[w].n # 0 /\ (r.n = wf[w].n \/ (r.pc = "top" /\ r.n = wf[w].n + 1))
      BY <1>1, <2>1, <2>2 DEF Polls, Keeps
    <3> QED BY <2>2, <3>1 DEF GoesOn, Remains, OnRound
  <2>3. CASE PollsParent(w, r)
    <3>1. wf[w].pc = "parent" /\ wf[w].n # 0 /\ (r.n = wf[w].n \/ (r.pc = "top" /\ r.n = wf[w].n + 1))
      BY <1>1, <2>1, <2>3 DEF PollsParent
    <3> QED BY <2>3, <3>1 DEF GoesOn, Remains, OnRound
  <2> QED BY <1>2, <2>2, <2>3
<1>3. CASE ReadsHistory(w, r)
  BY <1>1, <1>3, Constants DEF ReadsHistory, GoesOn, OnRound, Fit, InRound
<1>4. CASE \/ Marks(w, r) \/ Checks(w, r) \/ Tops(w, r) \/ Clears(w, r) \/ Prepares(w, r)
           \/ Calls(w, r) \/ Versions(w, r) \/ MakesChild(w, r)
  BY <1>1, <1>4 DEF Marks, Checks, Tops, Clears, Prepares, Calls, Versions, MakesChild,
     Keeps, Remains, OnRound
<1>5. CASE LaunchesChild(w, r) \/ FindsBest(w, r) \/ EndsRound(w, r) \/ FindsBase(w, r)
  BY <1>1, <1>5 DEF LaunchesChild, FindsBest, EndsRound, FindsBase, Keeps, Remains, OnRound
<1> QED BY <1>1, <1>2, <1>3, <1>4, <1>5 DEF Turn, Plans, Fails, LaunchesBase, ReadsControl, ResumesBase,
        Finishes, Opening

LEMMA TurnPlans ==
  ASSUME Shape, Solo, Good, Ok', NEW w \in Workflows, NEW r \in WorkflowType, Turn(w, r), Plans(w, r)
  PROVE  /\ PlanFits(r) /\ exp' = exp /\ current' = current /\ best' = best
         /\ \A m \in Rounds : ~Running(m) /\ (exp[m].status = "success" => m <= current)
         /\ r.pc \in {"mark", "base", "check"}
<1>1. /\ TypeOK /\ Left /\ Live(w) /\ Place(wf[w]) /\ "missed" \notin happened' /\ current \in Nat
      /\ Fit(wf[w]) /\ \A v \in Workflows : v # w => ~Live(v)
  BY GoodTurn, Constants DEF TypeOK
<1>2. /\ wf[w].pc \in {"load", "reload", "first"} /\ PlanFits(r) /\ exp' = exp /\ current' = current
      /\ best' = best /\ r.pc \in {"mark", "base", "check"}
  BY DEF Plans, Loads, Reloads, MakesFirst, progress
<1>3. ASSUME NEW m \in Rounds PROVE ~Running(m)
  <2>1. ~Attended(m)
    BY <1>1, <1>2 DEF Attended, Live
  <2> QED BY <1>1, <1>2, <2>1 DEF Left
<1>4. ASSUME NEW m \in Rounds, exp[m].status = "success" PROVE m <= current
  <2>1. m \in Nat
    BY Constants
  <2>2. CASE MakesFirst(w, r)
    <3>1. wf[w].pc = "first" /\ wf[w].n # 0
      BY <1>1, <2>2 DEF MakesFirst, Fit, Planned
    <3>2. Before(wf[w])
      BY <1>1, <3>1 DEF Place, OnRound
    <3> QED BY <1>1, <1>4, <2>1, <3>1, <3>2 DEF Before
  <2>3. CASE Loads(w, r) \/ Reloads(w, r)
    <3>1. "missed" \notin Missed
      BY <1>1, <2>3 DEF Loads, Reloads
    <3> QED BY <1>1, <1>4, <2>1, <3>1 DEF Missed
  <2> QED BY <2>2, <2>3 DEF Plans
<1> QED BY <1>2, <1>3, <1>4

\* Only the child that a workflow starts or resumes changes under it.
LEMMA TurnRounds ==
  ASSUME Shape, Solo, Good, Ok', NEW w \in Workflows, NEW r \in WorkflowType, Turn(w, r)
  PROVE  \A m \in Rounds :
           /\ m \in Experiments /\ m # 0 /\ m \in Nat
           /\ exp'[m].score = exp[m].score
           /\ exp'[m].status = "success" <=> exp[m].status = "success"
           /\ Measures(m) => Measures(m)'
           /\ ~((MakesChild(w, r) \/ LaunchesChild(w, r)) /\ m = r.n) => exp'[m].status = exp[m].status
BY TurnResults, Constants

LEMMA TurnBefore ==
  ASSUME Shape, Solo, Good, Ok', NEW w \in Workflows, NEW r \in WorkflowType, Turn(w, r), OnRound(r)
  PROVE  Before(r)'
<1>1. /\ TypeOK /\ Sequential /\ Measured /\ StopsFor(wf[w]) /\ Place(wf[w]) /\ wf[w] \in WorkflowType
      /\ Fit(wf[w]) /\ Fit(r)
  BY GoodTurn
<1>2. /\ wf[w].n \in Nat /\ r.n \in Nat /\ current \in Nat
      /\ \A m \in Rounds : m \in Nat
  BY <1>1, Constants DEF TypeOK, WorkflowType
<1>3. CASE Plans(w, r)
  <2>1. /\ \A m \in Rounds : (m > r.n => exp[m].status = "none") /\ (m < r.n => Measures(m))
        /\ \A m \in Rounds : exp[m].status = "success" => m <= current
        /\ exp' = exp /\ current' = current
    BY <1>1, <1>3, PlanFinds, TurnPlans
  <2> QED BY <1>2, <2>1 DEF Before, Measures
<1>4. CASE GoesOn(w, r)
  <2>1. /\ r.pc = "top" /\ wf[w].pc \in {"poll", "parent", "history"} /\ OnRound(wf[w]) /\ r.n = wf[w].n + 1
        /\ exp'[wf[w].n].status = exp[wf[w].n].status /\ current' = current /\ HasStop' = HasStop
        /\ wf[w].n \in Experiments
    <3>1. wf[w].n \in Experiments
      BY <1>1, <1>4, Constants DEF GoesOn, Fit, Waiting, InRound
    <3>2. exp' = exp \/ PollsParent(w, r)
      BY <1>4 DEF GoesOn, Polls, ReadsHistory
    <3>3. PollsParent(w, r) => exp'[wf[w].n].status = exp[wf[w].n].status
      <4>1. Stopped(exp, {wf[w].n})[wf[w].n].status = exp[wf[w].n].status
        BY <1>1, <3>1, StoppedChild
      <4> QED BY <4>1 DEF PollsParent
    <3> QED BY <1>4, <3>1, <3>2, <3>3 DEF GoesOn, Polls, PollsParent, ReadsHistory, row, progress, HasStop
  <2>2. Before(wf[w]) /\ OwnChild(wf[w])
    BY <1>1, <2>1 DEF Place
  <2>3. Measures(wf[w].n) \/ HasStop
    <3>1. CASE Polls(w, r)
      <4>1. wf[w].pc = "poll" /\ wf[w].n # 0 /\ exp[wf[w].n].status \in {"stopped", "failed"}
        <5>1. "timeout" \notin happened'
          BY GoodTurn
        <5> QED BY <2>1, <3>1, <5>1 DEF Polls, Leaves, OnRound
      <4>2. exp[wf[w].n].status = "stopped" => HasStop
        BY <1>1, <4>1 DEF StopsFor
      <4> QED BY <4>1, <4>2 DEF Measures
    <3>2. CASE PollsParent(w, r)
      BY <2>1, <3>2 DEF PollsParent, HasStop
    <3>3. CASE ReadsHistory(w, r)
      BY <2>2, <3>3 DEF ReadsHistory, OwnChild, Measures
    <3> QED BY <1>4, <3>1, <3>2, <3>3 DEF GoesOn
  <2>4. exp[wf[w].n].status = "success" /\ wf[w].n > current => HasStop
    <3>1. CASE Polls(w, r)
      <4>1. exp[wf[w].n].status \in {"stopped", "failed"}
        <5>1. "timeout" \notin happened'
          BY GoodTurn
        <5> QED BY <2>1, <3>1, <5>1 DEF Polls, Leaves, OnRound
      <4> QED BY <4>1
    <3>2. CASE PollsParent(w, r)
      BY <2>1, <3>2 DEF PollsParent, HasStop
    <3>3. CASE ReadsHistory(w, r)
      BY <1>2, <2>2, <3>3 DEF ReadsHistory, OwnChild
    <3> QED BY <1>4, <3>1, <3>2, <3>3 DEF GoesOn
  <2>5. ~MakesChild(w, r) /\ ~LaunchesChild(w, r)
    BY <2>1 DEF MakesChild, LaunchesChild
  <2> SUFFICES ASSUME NEW m \in Rounds
               PROVE  /\ m > r.n => exp'[m].status = "none"
                      /\ m < r.n => Measures(m)' \/ (m = r.n - 1 /\ HasStop')
                      /\ exp'[m].status = "success" /\ m > current' => m = r.n - 1 /\ HasStop'
    BY <2>1 DEF Before
  <2>6. /\ exp'[m].status = exp[m].status /\ (Measures(m) => Measures(m)') /\ m \in Nat
    BY <2>5, TurnRounds
  <2>7. m > r.n => exp'[m].status = "none"
    BY <1>2, <2>1, <2>2, <2>6 DEF Before
  <2>8. m < r.n => Measures(m)' \/ (m = r.n - 1 /\ HasStop')
    <3>1. m < r.n => m = wf[w].n \/ m < wf[w].n
      BY <1>2, <2>1, <2>6
    <3> QED BY <1>2, <2>1, <2>2, <2>3, <2>6, <3>1 DEF Before
  <2>9. exp'[m].status = "success" /\ m > current' => m = r.n - 1 /\ HasStop'
    <3>1. exp[m].status = "success" /\ m > current => m = wf[w].n
      BY <2>1, <2>2 DEF Before
    <3> QED BY <1>2, <2>1, <2>4, <2>6, <3>1
  <2> QED BY <2>7, <2>8, <2>9
<1>5. CASE Remains(w, r)
  <2>1. OnRound(wf[w]) /\ r.n = wf[w].n /\ Before(wf[w])
    BY <1>1, <1>5 DEF Remains, Place
  <2>2. wf[w].pc = "top" => ~HasStop
    BY <1>5 DEF Remains, Marks, FindsBase, Checks, Tops, Clears, Prepares, Calls, Versions, MakesChild,
       LaunchesChild, Polls, PollsParent, FindsBest, EndsRound, HasStop, OnRound
  <2> SUFFICES ASSUME NEW m \in Rounds
               PROVE  /\ m > r.n => exp'[m].status = "none"
                      /\ m < r.n => Measures(m)'
                      /\ exp'[m].status = "success" /\ m > current' =>
                            m = r.n /\ r.pc \in {"launch", "poll", "parent", "best", "current"}
    BY DEF Before
  <2>3. /\ m \in Nat /\ (exp'[m].status = "success" <=> exp[m].status = "success")
        /\ (Measures(m) => Measures(m)') /\ (m # r.n => exp'[m].status = exp[m].status)
    BY TurnRounds
  <2>4. m > r.n => exp'[m].status = "none"
    BY <1>2, <2>1, <2>3 DEF Before
  <2>5. m < r.n => Measures(m)'
    BY <1>2, <2>1, <2>2, <2>3 DEF Before
  <2>6. exp'[m].status = "success" /\ m > current' =>
                            m = r.n /\ r.pc \in {"launch", "poll", "parent", "best", "current"}
    <3>1. CASE EndsRound(w, r)
      <4>1. current' = r.n /\ wf[w].pc = "current"
        BY <2>1, <3>1 DEF EndsRound
      <4>2. m > r.n => exp'[m].status # "success"
        BY <2>4
      <4> QED BY <1>2, <4>1, <4>2
    <3>2. CASE ~EndsRound(w, r)
      <4>1. current' = current
        BY <1>1, <3>2, TurnWrites
      <4>2. exp[m].status = "success" /\ m > current =>
                m = wf[w].n /\ wf[w].pc \in {"launch", "poll", "parent", "best", "current"}
        BY <2>1, <2>2 DEF Before
      <4>3. wf[w].pc \in {"launch", "poll", "parent", "best", "current"} =>
                r.pc \in {"launch", "poll", "parent", "best", "current"}
        BY <1>5, <2>1, <3>2 DEF Remains, Marks, FindsBase, Checks, Tops, Clears, Prepares, Calls, Versions,
           MakesChild, LaunchesChild, Polls, PollsParent, FindsBest, Leaves, OnRound, WorkflowType
      <4> QED BY <2>1, <2>3, <4>1, <4>2, <4>3
    <3> QED BY <3>1, <3>2
  <2> QED BY <2>4, <2>5, <2>6
<1> QED BY <1>1, <1>3, <1>4, <1>5, Ways

LEMMA TurnOwnChild ==
  ASSUME Shape, Solo, Good, Ok', NEW w \in Workflows, NEW r \in WorkflowType, Turn(w, r), OnRound(r)
  PROVE  OwnChild(r)'
<1>1. /\ TypeOK /\ Sequential /\ Measured /\ Place(wf[w]) /\ wf[w] \in WorkflowType
      /\ Fit(wf[w]) /\ Fit(r)
  BY GoodTurn
<1>2. /\ wf[w].n \in Nat /\ r.n \in Nat /\ MaxRounds \in Nat /\ Rounds = 1..MaxRounds
      /\ r.resume \in BOOLEAN /\ wf[w].resume \in BOOLEAN
  BY <1>1, Constants DEF WorkflowType, Rounds
<1>3. CASE Plans(w, r)
  <2>1. PlanFits(r) /\ exp' = exp /\ r.pc \in {"mark", "base", "check"} /\ \A m \in Rounds : ~Running(m)
    BY <1>3, TurnPlans
  <2>2. r.n # 0
    BY DEF OnRound
  <2>3. r.n <= MaxRounds => exp[r.n].status = (IF r.resume THEN "stopped" ELSE "none")
    BY <1>1, <1>2, <2>1, <2>2, PlanFinds
  <2> QED BY <2>1, <2>3 DEF OwnChild
<1>4. CASE GoesOn(w, r)
  <2>1. /\ r.pc = "top" /\ wf[w].pc \in {"poll", "parent", "history"} /\ OnRound(wf[w]) /\ r.n = wf[w].n + 1
    BY <1>4 DEF GoesOn
  <2>2. Before(wf[w]) /\ ~wf[w].resume
    BY <1>1, <2>1 DEF Place, OwnChild
  <2>3. ~r.resume
    BY <1>4, <2>1, <2>2 DEF GoesOn, Polls, PollsParent, ReadsHistory, Leaves, OnRound
  <2>4. r.n <= MaxRounds => exp'[r.n].status = "none"
    <3>1. ~MakesChild(w, r) /\ ~LaunchesChild(w, r)
      BY <2>1 DEF MakesChild, LaunchesChild
    <3>2. r.n <= MaxRounds => r.n \in Rounds /\ r.n > wf[w].n
      BY <1>2, <2>1
    <3> QED BY <2>2, <3>1, <3>2, TurnRounds DEF Before
  <2> QED BY <2>1, <2>3, <2>4 DEF OwnChild
<1>5. CASE Remains(w, r)
  <2>1. OnRound(wf[w]) /\ r.n = wf[w].n /\ OwnChild(wf[w])
    BY <1>1, <1>5 DEF Remains, Place
  <2>2. CASE \/ Marks(w, r) \/ FindsBase(w, r) \/ Checks(w, r) \/ Tops(w, r) \/ Clears(w, r) \/ Prepares(w, r)
             \/ Calls(w, r) \/ Versions(w, r)
    <3>1. r.resume = wf[w].resume /\ exp' = exp /\ wf[w].pc \in BeforeChild /\ r.pc \in BeforeChild
      <4>1. wf[w].pc # "baseClear"
        BY <1>1, <2>1 DEF Fit, Opening, OnRound
      <4> QED BY <2>1, <2>2, <4>1 DEF Marks, FindsBase, Checks, Tops, Clears, Prepares, Calls, Versions,
            Keeps, OnRound, BeforeChild, AtBase
    <3>2. wf[w].n <= MaxRounds => exp[wf[w].n].status = (IF wf[w].resume THEN "stopped" ELSE "none")
      BY <2>1, <3>1 DEF OwnChild
    <3> QED BY <2>1, <3>1, <3>2 DEF OwnChild, BeforeChild, AtBase
  <2>3. CASE MakesChild(w, r)
    <3>1. r.pc = "launch" /\ wf[w].pc = "experiment" /\ r.resume = wf[w].resume /\ r.n \in Experiments
          /\ exp' = [exp EXCEPT ![r.n].status = IF @ = "none" THEN "running" ELSE @]
      BY <1>1, <2>3, Constants DEF MakesChild, Keeps, Fit, InRound
    <3>2. exp[r.n].status = (IF r.resume THEN "stopped" ELSE "none")
      BY <1>2, <2>1, <3>1 DEF OwnChild, BeforeChild, Experiments
    <3>3. exp'[r.n].status = (IF exp[r.n].status = "none" THEN "running" ELSE exp[r.n].status)
          /\ exp'[r.n].launched = exp[r.n].launched
      BY <1>1, <3>1, MadeChild
    <3>4. exp[r.n].status = "none" => ~exp[r.n].launched
      BY <1>1, <3>1 DEF Measured, Sound
    <3>5. IF r.resume THEN exp'[r.n].status = "stopped" ELSE exp'[r.n].status = "running" /\ ~exp'[r.n].launched
      BY <3>2, <3>3, <3>4
    <3> QED BY <3>1, <3>5 DEF OwnChild, BeforeChild, AtBase, Running
  <2>4. CASE LaunchesChild(w, r)
    BY <2>4 DEF LaunchesChild, OwnChild, BeforeChild, AtBase
  <2>5. CASE Polls(w, r) \/ PollsParent(w, r) \/ FindsBest(w, r)
    <3>1. wf[w].pc \in {"poll", "parent", "best"} /\ r.pc \in {"poll", "parent", "best", "current"}
          /\ r.resume = wf[w].resume
      BY <1>2, <2>1, <2>5 DEF Polls, PollsParent, FindsBest, Leaves, Keeps, OnRound
    <3>2. ~wf[w].resume
      BY <2>1, <3>1 DEF OwnChild
    <3> QED BY <3>1, <3>2 DEF OwnChild, BeforeChild, AtBase
  <2>6. CASE EndsRound(w, r)
    <3>1. wf[w].pc = "current" /\ r.pc = "history" /\ current' = r.n /\ r.resume = wf[w].resume
      BY <2>1, <2>6 DEF EndsRound, OnRound
    <3>2. exp[r.n].status = "success" /\ r.n \in Rounds /\ ~r.resume
      BY <1>1, <2>1, <3>1 DEF Measured, Fit, InRound, OwnChild
    <3>3. exp'[r.n].status = "success"
      BY <3>2, TurnRounds
    <3> QED BY <3>1, <3>2, <3>3 DEF OwnChild, BeforeChild, AtBase
  <2> QED BY <1>5, <2>2, <2>3, <2>4, <2>5, <2>6 DEF Remains
<1> QED BY <1>1, <1>3, <1>4, <1>5, Ways

\* The base of a round is the best of the versions before it.
LEMMA BaseIsBest ==
  ASSUME Shape, Parents, UpToCurrent, NEW l \in WorkflowType, l.pc = "prepare", l.n \in Rounds, Place(l)
  PROVE  BaseVersion(l.n) < l.n /\ BestUpTo(BaseVersion(l.n), l.n - 1)
<1> DEFINE n == l.n
<1>1. /\ TypeOK /\ Measured /\ Before(l) /\ OwnChild(l) /\ n \in Nat /\ n # 0 /\ n <= MaxRounds
  BY Constants DEF Shape, Place, OnRound, Rounds
<1>2. /\ best \in Experiments /\ current \in Nat /\ best \in Nat /\ MaxRounds \in Nat
      /\ \A m \in 0..MaxRounds : m \in Experiments /\ exp[m].score \in Nat
      /\ \A m \in Experiments : m \in Nat /\ (m # 0 => m \in Rounds)
  BY <1>1, Constants DEF TypeOK, Experiments, ExperimentType
<1>3. CASE Regressed(n)
  <2>1. /\ n > 1 /\ parent[n - 1] # None /\ exp[parent[n - 1]].score > exp[n - 1].score
        /\ BaseVersion(n) = parent[n - 1]
    BY <1>3 DEF Regressed, BaseVersion
  <2>2. n - 1 \in Rounds /\ n - 1 \in Experiments
    BY <1>1, <1>2, <2>1 DEF Rounds
  <2>3. parent[n - 1] \in Experiments
    BY <1>1, <2>1, <2>2 DEF TypeOK
  <2>4. parent[n - 1] < n - 1 /\ BestUpTo(parent[n - 1], (n - 1) - 1)
    BY <2>1, <2>2 DEF Parents
  <2>5. ASSUME NEW m \in 0..(n - 1), exp[m].status = "success" PROVE exp[m].score <= exp[parent[n - 1]].score
    <3>1. CASE m = n - 1
      BY <1>1, <1>2, <2>1, <2>3, <3>1 DEF Experiments
    <3>2. CASE m # n - 1
      <4>1. m \in 0..((n - 1) - 1)
        BY <1>1, <3>2
      <4> QED BY <2>4, <2>5, <4>1 DEF BestUpTo
    <3> QED BY <3>1, <3>2
  <2>6. parent[n - 1] < n
    <3>1. parent[n - 1] \in Nat
      BY <1>2, <2>3
    <3> QED BY <1>1, <2>4, <3>1
  <2> QED BY <2>1, <2>5, <2>6 DEF BestUpTo
<1>4. CASE ~Regressed(n)
  <2>1. BaseVersion(n) = best
    BY <1>4 DEF BaseVersion
  <2>2. best < n
    <3>1. exp[n].status # "success"
      BY <1>1 DEF OwnChild, BeforeChild, Rounds
    <3>2. best # 0 => best \in Rounds /\ exp[best].status = "success"
      BY <1>1, <1>2 DEF Measured
    <3>3. best \in Rounds /\ best > n => exp[best].status = "none"
      BY <1>1 DEF Before
    <3> QED BY <1>1, <1>2, <3>1, <3>2, <3>3
  <2>3. ASSUME NEW m \in 0..(n - 1), exp[m].status = "success" PROVE exp[m].score <= exp[best].score
    <3>1. m \in Nat /\ m <= MaxRounds
      BY <1>1, <1>2
    <3>2. m > current => FALSE
      <4>1. m > current => m \in Rounds
        BY <1>2, <3>1 DEF Rounds
      <4> QED BY <1>1, <1>2, <2>3, <3>1, <4>1 DEF Before
    <3>3. m \in 0..current
      BY <1>2, <3>1, <3>2
    <3> QED BY <2>3, <3>3 DEF UpToCurrent, BestUpTo
  <2> QED BY <2>1, <2>2, <2>3 DEF BestUpTo
<1> QED BY <1>3, <1>4

LEMMA TurnCompares ==
  ASSUME Shape, Solo, Good, Ok', NEW w \in Workflows, NEW r \in WorkflowType, Turn(w, r), OnRound(r)
  PROVE  Compares(r)'
<1>1. /\ TypeOK /\ Measured /\ Place(wf[w]) /\ Judged(wf[w]) /\ wf[w] \in WorkflowType
      /\ Parents /\ UpToCurrent /\ Baseline /\ Fit(wf[w]) /\ Fit(r) /\ 0 \in Experiments
      /\ best \in Experiments /\ r.n # 0 /\ wf[w].snap \in Experiments /\ wf[w].score \in Nat
  BY GoodTurn, Constants DEF TypeOK, OnRound, WorkflowType
<1>2. /\ \A n \in Experiments : /\ exp'[n].score = exp[n].score /\ exp[n].score \in Nat
                                /\ exp'[n].status = "success" <=> exp[n].status = "success"
                                /\ MeetsGoal(n)' <=> MeetsGoal(n)
      /\ Goal \in Nat
  BY <1>1, TurnResults, Constants DEF MeetsGoal, TypeOK, ExperimentType
<1>3. best # 0 => exp[best].status = "success"
  BY <1>1 DEF Measured
<1>4. best' = best \/ FindsBest(w, r)
  BY <1>1, TurnWrites
<1>5. CASE Plans(w, r)
  <2>1. r.snap = best /\ best' = best /\ r.pc \in {"mark", "base", "check"}
    BY <1>5, TurnPlans DEF PlanFits
  <2>2. r.pc = "check" => exp[0].status = "success"
    BY <1>1, <1>5 DEF Plans, Loads, Reloads, MakesFirst, Judged
  <2> QED BY <1>1, <1>2, <2>1, <2>2 DEF Compares, AtBase
<1>6. CASE GoesOn(w, r)
  <2>1. r.pc = "top" /\ wf[w].pc \in {"poll", "parent", "history"} /\ OnRound(wf[w]) /\ best' = best
    BY <1>4, <1>6 DEF GoesOn, FindsBest
  <2>2. Compares(wf[w])
    BY <1>1, <2>1 DEF Place
  <2>3. ~MeetsGoal(best)
    <3>1. CASE wf[w].pc = "poll"
      <4>1. exp[wf[w].n].status \in {"stopped", "failed"} /\ wf[w].n # 0
        <5>1. "timeout" \notin happened'
          BY GoodTurn
        <5> QED BY <1>6, <2>1, <3>1, <5>1 DEF GoesOn, Polls, PollsParent, ReadsHistory, Leaves, OnRound
      <4> QED BY <1>3, <2>2, <3>1, <4>1 DEF Compares
    <3> QED BY <2>1, <2>2, <3>1 DEF Compares
  <2>4. exp[0].status = "success"
    BY <2>1, <2>2 DEF Compares, AtBase
  <2> QED BY <1>1, <1>2, <2>1, <2>3, <2>4 DEF Compares, AtBase
<1>7. CASE Remains(w, r)
  <2>1. OnRound(wf[w]) /\ r.n = wf[w].n /\ Compares(wf[w])
    BY <1>1, <1>7 DEF Remains, Place
  <2>2. CASE Marks(w, r) \/ FindsBase(w, r)
    <3>1. /\ wf[w].pc \in {"mark", "base"} /\ r.pc \in {"first", "base", "check"} /\ r.snap = wf[w].snap
          /\ best' = best /\ (r.pc = "check" => mode = "from_experiment")
      BY <1>1, <2>1, <2>2 DEF Marks, FindsBase, Keeps, progress
    <3>2. r.snap = best /\ (r.pc = "check" => exp[0].status = "success")
      BY <1>1, <2>1, <3>1 DEF Compares, AtBase, Baseline
    <3> QED BY <1>1, <1>2, <3>1, <3>2 DEF Compares, AtBase
  <2>3. CASE Checks(w, r)
    <3>1. wf[w].pc = "check" /\ r.pc = "top" /\ ~MeetsGoal(wf[w].snap) /\ best' = best
      BY <2>3 DEF Checks, OnRound, progress
    <3>2. exp[0].status = "success" /\ ~MeetsGoal(best)
      BY <2>1, <3>1 DEF Compares, AtBase
    <3> QED BY <1>1, <1>2, <3>1, <3>2 DEF Compares, AtBase
  <2>4. CASE Tops(w, r) \/ Clears(w, r) \/ Prepares(w, r) \/ Calls(w, r) \/ Versions(w, r) \/ MakesChild(w, r)
    <3>1. /\ wf[w].pc \in {"top", "clear", "prepare", "call", "version", "experiment"}
          /\ r.pc \in {"clear", "prepare", "call", "version", "experiment", "launch"}
          /\ best' = best
      <4>1. wf[w].pc # "baseClear"
        BY <1>1, <2>1 DEF Fit, Opening, OnRound
      <4> QED BY <2>4, <4>1 DEF Tops, Clears, Prepares, Calls, Versions, MakesChild, OnRound, progress
    <3>2. exp[0].status = "success" /\ ~MeetsGoal(best)
      BY <2>1, <3>1 DEF Compares, AtBase
    <3>3. r.pc \in {"call", "version"} =>
             r.base < r.n /\ BestUpTo(r.base, r.n - 1) /\ r.base \in Experiments /\ r.n \in Rounds
      <4>1. r.pc \in {"call", "version"} => r.n \in Rounds /\ r.base \in Experiments
        BY <1>1 DEF Fit, InRound, WorkflowType
      <4>2. CASE Prepares(w, r) /\ r.pc \in {"call", "version"}
        <5>1. wf[w].pc = "prepare" /\ r.base = BaseVersion(wf[w].n) /\ wf[w].n \in Rounds
          BY <2>1, <4>1, <4>2 DEF Prepares
        <5> QED BY <1>1, <2>1, <4>1, <5>1, BaseIsBest
      <4>3. CASE Calls(w, r) /\ r.pc \in {"call", "version"}
        <5>1. wf[w].pc = "call" /\ r.base = wf[w].base
          BY <4>3 DEF Calls
        <5> QED BY <2>1, <4>1, <4>3, <5>1 DEF Compares
      <4> QED BY <2>4, <4>2, <4>3 DEF Tops, Clears, Prepares, Calls, Versions, MakesChild
    <3>4. r.pc \in {"call", "version"} => (r.base < r.n /\ BestUpTo(r.base, r.n - 1))'
      <4>1. ASSUME r.pc \in {"call", "version"} PROVE BestUpTo(r.base, r.n - 1)'
        <5>1. r.n - 1 \in Int /\ r.n - 1 <= MaxRounds
          BY <3>3, <4>1, Constants DEF Rounds
        <5> QED BY <3>3, <4>1, <5>1, TurnBest
      <4> QED BY <3>3, <4>1
    <3> QED BY <1>1, <1>2, <3>1, <3>2, <3>4 DEF Compares, AtBase
  <2>5. CASE LaunchesChild(w, r)
    <3>1. wf[w].pc = "launch" /\ r.pc = "poll" /\ r.snap = best /\ best' = best
      BY <2>5 DEF LaunchesChild, progress
    <3>2. exp[0].status = "success" /\ ~MeetsGoal(best)
      BY <2>1, <3>1 DEF Compares, AtBase
    <3> QED BY <1>1, <1>2, <3>1, <3>2 DEF Compares, AtBase
  <2>6. CASE Polls(w, r)
    <3>1. /\ wf[w].pc = "poll" /\ r.snap = wf[w].snap /\ best' = best /\ wf[w].n # 0
          /\ r.pc = "best" \/ (r.pc = "parent" /\ Running(wf[w].n))
      <4>1. wf[w].n # 0 /\ r.n # wf[w].n + 1
        BY <1>1, <2>1 DEF OnRound, WorkflowType
      <4>2. \A found : Leaves(w, r, found) => r.pc = "best" /\ r.snap = wf[w].snap
        BY <4>1 DEF Leaves
      <4> QED BY <2>6, <4>1, <4>2 DEF Polls, Keeps, progress
    <3>2. exp[0].status = "success" /\ r.snap = best /\ (MeetsGoal(best) => best = r.n)
      BY <2>1, <3>1 DEF Compares, AtBase
    <3>3. r.pc = "parent" => ~MeetsGoal(best)
      BY <1>3, <2>1, <3>1, <3>2 DEF Running
    <3> QED BY <1>1, <1>2, <3>1, <3>2, <3>3 DEF Compares, AtBase
  <2>7. CASE PollsParent(w, r)
    <3>1. wf[w].pc = "parent" /\ r.pc = "poll" /\ r.snap = wf[w].snap /\ best' = best
      <4>1. wf[w].n # 0 /\ r.n # wf[w].n + 1
        BY <1>1, <2>1 DEF OnRound, WorkflowType
      <4> QED BY <2>1, <2>7, <4>1 DEF PollsParent, Leaves, progress
    <3>2. exp[0].status = "success" /\ ~MeetsGoal(best) /\ r.snap = best
      BY <2>1, <3>1 DEF Compares, AtBase
    <3> QED BY <1>1, <1>2, <3>1, <3>2 DEF Compares, AtBase
  <2>8. CASE FindsBest(w, r)
    <3>1. /\ wf[w].pc = "best" /\ r.pc = "current" /\ r.snap = wf[w].snap /\ r.score = wf[w].score
          /\ best' = IF wf[w].score > exp[wf[w].snap].score THEN r.n ELSE best
      BY <2>1, <2>8 DEF FindsBest, Keeps
    <3>2. /\ exp[0].status = "success" /\ r.snap = best /\ (MeetsGoal(best) => best = r.n)
          /\ exp[best].status = "success" /\ exp[r.n].score = r.score /\ r.n \in Experiments
      BY <1>1, <1>3, <2>1, <3>1, Constants DEF Compares, AtBase, Measured, Fit, InRound
    <3>3. /\ best' \in {best, r.n} /\ exp[best'].score >= exp[best].score /\ exp[best'].score >= r.score
          /\ MeetsGoal(best') => best' = r.n
      BY <1>1, <1>2, <3>1, <3>2
    <3>4. best' \in Experiments
      BY <1>1, <3>2, <3>3
    <3>5. (MeetsGoal(best'))  <=> exp'[best'].score >= Goal
      BY <1>2, <3>4 DEF MeetsGoal
    <3> QED BY <1>1, <1>2, <3>1, <3>2, <3>3, <3>4, <3>5 DEF Compares, AtBase, MeetsGoal
  <2>9. CASE EndsRound(w, r)
    <3>1. /\ wf[w].pc = "current" /\ r.pc = "history" /\ best' = best
          /\ ~(wf[w].score >= Goal) /\ ~MeetsGoal(wf[w].snap)
      BY <2>9 DEF EndsRound, OnRound
    <3>2. exp[0].status = "success" /\ best \in {wf[w].snap, wf[w].n} /\ exp[wf[w].n].score = wf[w].score
      BY <1>1, <2>1, <3>1 DEF Compares, AtBase, Measured
    <3>3. ~MeetsGoal(best)
      BY <3>1, <3>2 DEF MeetsGoal
    <3> QED BY <1>1, <1>2, <3>1, <3>2, <3>3 DEF Compares, AtBase
  <2> QED BY <1>7, <2>2, <2>3, <2>4, <2>5, <2>6, <2>7, <2>8, <2>9 DEF Remains
<1> QED BY <1>1, <1>5, <1>6, <1>7, Ways

LEMMA TurnJudged ==
  ASSUME Shape, Solo, Good, Ok', NEW w \in Workflows, NEW r \in WorkflowType, Turn(w, r)
  PROVE  Judged(r)'
<1>1. /\ TypeOK /\ Measured /\ Place(wf[w]) /\ Judged(wf[w]) /\ wf[w] \in WorkflowType
      /\ Fit(wf[w]) /\ 0 \in Experiments /\ best \in Experiments /\ Live(w)
      /\ \A n \in Experiments : exp[n].score \in Nat
      /\ wf[w].snap \in Experiments /\ wf[w].score \in Nat /\ Goal \in Nat
  <2>1. /\ TypeOK /\ Measured /\ Place(wf[w]) /\ Judged(wf[w]) /\ wf[w] \in WorkflowType
        /\ Fit(wf[w]) /\ 0 \in Experiments /\ Live(w)
    BY GoodTurn
  <2>2. best \in Experiments /\ \A n \in Experiments : exp[n].score \in Nat
    BY <2>1, Constants DEF TypeOK, ExperimentType
  <2>3. wf[w].snap \in Experiments /\ wf[w].score \in Nat /\ Goal \in Nat
    BY <2>1, Constants DEF WorkflowType
  <2> QED BY <2>1, <2>2, <2>3
<1>2. \A n \in Experiments : /\ exp'[n].status = "success" <=> exp[n].status = "success"
                             /\ MeetsGoal(n)' <=> MeetsGoal(n)
  BY TurnResults DEF MeetsGoal
<1>3. best # 0 => exp[best].status = "success"
  BY <1>1 DEF Measured
<1> DEFINE Verdicts == {"goals_met", "max_rounds", "no_improvement"}
<1>4. r.pc = "final" /\ r.end \in Verdicts =>
        /\ OnRound(wf[w])
        /\ \/ Checks(w, r) /\ r.end = "goals_met"
           \/ EndsRound(w, r) /\ r.end = "goals_met"
           \/ Tops(w, r) /\ r.end = "max_rounds"
           \/ ReadsHistory(w, r) /\ r.end = "no_improvement"
  <2> SUFFICES ASSUME r.pc = "final", r.end \in Verdicts
               PROVE  /\ OnRound(wf[w])
                      /\ \/ Checks(w, r) /\ r.end = "goals_met"
                         \/ EndsRound(w, r) /\ r.end = "goals_met"
                         \/ Tops(w, r) /\ r.end = "max_rounds"
                         \/ ReadsHistory(w, r) /\ r.end = "no_improvement"
    OBVIOUS
  <2>1. Checks(w, r) \/ EndsRound(w, r) \/ Tops(w, r) \/ ReadsHistory(w, r)
    BY DEF Turn, Fails, Loads, Marks, MakesFirst, FindsBase, LaunchesBase, ReadsControl, ResumesBase, Clears,
       Reloads, Prepares, Calls, Versions, MakesChild, LaunchesChild, Polls, PollsParent, Leaves, FindsBest,
       Finishes
  <2>2. /\ Checks(w, r) => wf[w].pc = "check" /\ r.end = "goals_met"
        /\ EndsRound(w, r) => wf[w].pc = "current" /\ r.end = "goals_met"
        /\ Tops(w, r) => wf[w].pc = "top" /\ r.end = "max_rounds"
        /\ ReadsHistory(w, r) => wf[w].pc = "history" /\ r.end = "no_improvement"
    BY DEF Checks, EndsRound, Tops, ReadsHistory
  <2>3. wf[w].n # 0
    BY <1>1, <2>1, <2>2, Constants DEF Fit, Planned, InRound
  <2> QED BY <2>1, <2>2, <2>3 DEF OnRound
<1>5. r.pc = "final" /\ r.end \in Verdicts =>
        /\ best' = best /\ exp[best].status = "success"
        /\ r.end = "goals_met" => MeetsGoal(best)
        /\ r.end # "goals_met" => ~MeetsGoal(best)
  <2> SUFFICES ASSUME r.pc = "final", r.end \in Verdicts
               PROVE  /\ best' = best /\ exp[best].status = "success"
                      /\ r.end = "goals_met" => MeetsGoal(best)
                      /\ r.end # "goals_met" => ~MeetsGoal(best)
    OBVIOUS
  <2>1. Compares(wf[w])
    BY <1>1, <1>4 DEF Place
  <2>2. CASE Checks(w, r) /\ r.end = "goals_met"
    <3>1. wf[w].pc = "check" /\ MeetsGoal(wf[w].snap) /\ best' = best
      BY <2>2 DEF Checks, progress
    <3> QED BY <1>3, <2>1, <2>2, <3>1 DEF Compares, AtBase
  <2>3. CASE EndsRound(w, r) /\ r.end = "goals_met"
    <3>1. wf[w].pc = "current" /\ (wf[w].score >= Goal \/ MeetsGoal(wf[w].snap)) /\ best' = best
      BY <2>3 DEF EndsRound
    <3>2. /\ exp[best].score >= exp[wf[w].snap].score /\ exp[best].score >= wf[w].score
          /\ exp[0].status = "success"
      BY <2>1, <3>1 DEF Compares, AtBase
    <3>3. MeetsGoal(best)
      BY <1>1, <3>1, <3>2 DEF MeetsGoal
    <3> QED BY <1>3, <2>3, <3>1, <3>2, <3>3
  <2>4. CASE Tops(w, r) /\ r.end = "max_rounds"
    BY <1>3, <2>1, <2>4 DEF Tops, Compares, AtBase, progress
  <2>5. CASE ReadsHistory(w, r) /\ r.end = "no_improvement"
    BY <1>3, <2>1, <2>5 DEF ReadsHistory, Compares, AtBase, progress
  <2> QED BY <1>4, <2>2, <2>3, <2>4, <2>5
<1>6. r.pc = "reload" => exp[0].status = "success"
  <2>1. "timeout" \notin happened' /\ (r.pc = "reload" => r.n = 0)
    BY GoodTurn DEF Fit, Opening
  <2>2. r.pc = "reload" => Polls(w, r)
    <3>1. wf[w].pc = "parent" => \A found : Leaves(w, r, found) /\ found = "stopped" => r.pc # "reload"
      BY DEF Leaves
    <3> QED BY <3>1 DEF Turn, Fails, Loads, Marks, MakesFirst, FindsBase, LaunchesBase, ReadsControl, ResumesBase,
       Clears, Reloads, Checks, Tops, Prepares, Calls, Versions, MakesChild, LaunchesChild, PollsParent, FindsBest,
       EndsRound, ReadsHistory, Finishes
  <2>3. \A found : Leaves(w, r, found) /\ r.pc = "reload" => wf[w].n = 0 /\ found = "success"
    BY DEF Leaves
  <2> QED BY <2>1, <2>2, <2>3 DEF Polls
<1>7. status' = "success" /\ r.pc \notin {"none", "done"} => r.pc \in {"load", "mark", "final"}
  <2> SUFFICES ASSUME status' = "success", r.pc # "done" PROVE r.pc \in {"load", "mark", "final"}
    OBVIOUS
  <2>1. status = "success" /\ ~Marks(w, r)
    BY <1>1, TurnWrites DEF Marks, Clears, Finishes
  <2>2. wf[w].pc \in {"load", "mark", "final"}
    BY <1>1, <2>1 DEF Judged, Live
  <2> QED BY <2>1, <2>2 DEF Turn, Fails, Loads, MakesFirst, FindsBase, LaunchesBase, ReadsControl, ResumesBase,
       Clears, Reloads, Checks, Tops, Prepares, Calls, Versions, MakesChild, LaunchesChild, Polls, PollsParent,
       FindsBest, EndsRound, ReadsHistory, Finishes
<1>8. r.pc = "final" /\ r.end \in Verdicts =>
        /\ exp'[best'].status = "success"
        /\ r.end = "goals_met" => MeetsGoal(best)'
        /\ r.end # "goals_met" => ~MeetsGoal(best)'
  BY <1>1, <1>2, <1>5 DEF MeetsGoal
<1> QED BY <1>1, <1>2, <1>6, <1>7, <1>8 DEF Judged

LEMMA TurnKeepsGood ==
  ASSUME Shape, Solo, Good, NEW w \in Workflows, NEW r \in WorkflowType, Turn(w, r)
  PROVE  Good'
<1> SUFFICES ASSUME Ok' PROVE Rows' /\ History' /\ \A v \in Workflows : AtWork(wf[v])'
  BY DEF Good
<1>1. /\ Requested' /\ Known' /\ Left' /\ Sequential' /\ Parents' /\ UpToCurrent' /\ Told' /\ Baseline'
  BY TurnKeepsRequested, TurnKeepsKnown, TurnKeepsLeft, TurnKeepsSequential, TurnKeepsParents,
     TurnKeepsUpToCurrent, TurnKeepsTold
<1>2. Rows' /\ History'
  BY <1>1 DEF Rows, History
<1>3. /\ wf'[w] = r /\ \A v \in Workflows : v # w => ~Live(v) /\ wf'[v] = wf[v]
  BY GoodTurn
<1>4. StopsFor(r)' /\ Judged(r)'
  BY TurnStopsFor, TurnJudged
<1>5. Place(r)'
  BY TurnBefore, TurnOwnChild, TurnCompares DEF Place, OnRound
<1>6. AtWork(r)'
  BY <1>4, <1>5 DEF AtWork
<1>7. ASSUME NEW v \in Workflows PROVE AtWork(wf[v])'
  <2>1. CASE v = w
    BY <1>3, <1>6, <2>1 DEF AtWork, StopsFor, Place, OnRound, Before, OwnChild, Compares, Judged
  <2>2. CASE v # w
    <3>1. wf'[v] = wf[v] /\ wf[v].pc \in {"none", "done"}
      BY <1>3, <2>2 DEF Live
    <3> QED BY <3>1 DEF AtWork, StopsFor, Place, OnRound, Judged
  <2> QED BY <2>1, <2>2
<1> QED BY <1>2, <1>7

-----------------------------------------------------------------------------
(* The other steps.                                                         *)

LEMMA GoodParts ==
  ASSUME Good, Ok', happened \subseteq happened'
  PROVE  /\ Ok /\ (InTouch' => InTouch)
         /\ happened' \cap {"hasty", "twin", "timeout", "childstop", "missed"} = {}
         /\ Requested /\ Known /\ Left /\ Sequential /\ Parents /\ UpToCurrent /\ Baseline /\ Told
         /\ \A w \in Workflows : AtWork(wf[w])
<1>1. Ok /\ (InTouch' => InTouch)
  BY DEF Ok, Watched, Orderly, Tended, InTouch
<1>2. happened' \cap {"hasty", "twin", "timeout", "childstop", "missed"} = {}
  BY DEF Ok, Watched, Orderly
<1> QED BY <1>1, <1>2 DEF Good, Rows, History

LEMMA GoodAgain ==
  ASSUME Ok' => /\ Requested' /\ Known' /\ Left'
                /\ Sequential' /\ Parents' /\ UpToCurrent' /\ Baseline' /\ Told'
                /\ \A w \in Workflows : AtWork(wf[w])'
  PROVE  Good'
BY DEF Good, Rows, History

\* What is said of the rounds, when nothing happens to them.
LEMMA SameRounds ==
  ASSUME Sequential, Parents, UpToCurrent, Baseline, UNCHANGED <<mode, best, current, parent, exp>>,
         HasStop => HasStop', status' = "success" => status = "success"
  PROVE  /\ Sequential' /\ Parents' /\ UpToCurrent' /\ Baseline'
         /\ \A l : AtWork(l) => AtWork(l)'
<1>1. Sequential' /\ Parents' /\ UpToCurrent' /\ Baseline'
  BY DEF Sequential, Parents, UpToCurrent, Baseline, Measures, BestUpTo
<1>2. ASSUME NEW l, AtWork(l) PROVE AtWork(l)'
  <2>1. StopsFor(l)'
    BY <1>2 DEF AtWork, StopsFor, Measures
  <2>2. Judged(l)'
    BY <1>2 DEF AtWork, Judged, MeetsGoal
  <2>3. ASSUME OnRound(l) PROVE Before(l)'
    BY <1>2, <2>3 DEF AtWork, Place, Before, Measures
  <2>4. ASSUME OnRound(l) PROVE OwnChild(l)'
    BY <1>2, <2>4 DEF AtWork, Place, OwnChild, Running
  <2>5. ASSUME OnRound(l) PROVE Compares(l)'
    BY <1>2, <2>5 DEF AtWork, Place, Compares, MeetsGoal, BestUpTo
  <2> QED BY <2>1, <2>2, <2>3, <2>4, <2>5 DEF AtWork, Place, OnRound
<1> QED BY <1>1, <1>2

LEMMA SameAtWork ==
  ASSUME \A l : AtWork(l) => AtWork(l)', NEW w \in Workflows, AtWork(wf[w]), wf'[w] = wf[w]
  PROVE  AtWork(wf[w])'
<1>1. PICK l : l = wf[w]
  OBVIOUS
<1>2. AtWork(l)'
  BY <1>1
<1> QED BY <1>1, <1>2 DEF AtWork, StopsFor, Place, OnRound, Before, OwnChild, Compares, Judged

LEMMA CreateKeepsGood ==
  ASSUME Shape, Good, Create
  PROVE  Good'
<1> SUFFICES ASSUME Ok' PROVE /\ Requested' /\ Known' /\ Left'
                              /\ Sequential' /\ Parents' /\ UpToCurrent' /\ Baseline' /\ Told'
                              /\ \A w \in Workflows : AtWork(wf[w])'
  BY GoodAgain
<1>1. /\ TypeOK /\ Opened /\ Measured /\ TypeOK' /\ 0 \in Experiments
      /\ \A n \in Rounds : n \in Experiments /\ n \in Nat /\ n # 0
      /\ \A n \in Experiments : n \in Nat /\ (n # 0 => n \in Rounds)
  BY CreateKeepsShape, Constants DEF Shape
<1>2. /\ Requested /\ Parents /\ UpToCurrent /\ Told
  BY GoodParts DEF Create
<1>3. /\ \A n \in Experiments : exp[n].status = "none"
      /\ \A w \in Workflows : wf[w].pc = "none" /\ wf'[w].pc = "none" /\ ~Live(w)'
      /\ req["recovery"].pc = "idle" /\ req'["user"].pc = "launch" /\ req'["recovery"].pc = "idle"
      /\ status' = "running" /\ control' = control /\ objective' = objective /\ current' = current
      /\ best' = best
  BY <1>1 DEF Opened, Create, TypeOK, Requests, Live
<1>4. /\ \A n \in Rounds : exp'[n] = exp[n] /\ parent'[n] = parent[n]
      /\ exp'[0].status \in {"none", "success"}
      /\ mode' = "from_experiment" => exp'[0].status = "success"
  <2>1. PICK s \in SourceScores :
          exp' = IF mode' = "from_experiment"
                THEN [exp EXCEPT ![0] = [@ EXCEPT !.status = "success", !.launched = TRUE,
                                                  !.score = s]]
                ELSE exp
    BY DEF Create
  <2>2. /\ mode' = "from_experiment" => exp'[0].status = "success"
        /\ mode' # "from_experiment" => exp'[0].status = "none"
        /\ \A n \in Rounds : exp'[n] = exp[n]
    BY <1>1, <1>3, <2>1 DEF TypeOK, ExperimentType
  <2>3. \A n \in Rounds : parent'[n] = parent[n]
    BY <1>1 DEF Create, TypeOK
  <2> QED BY <2>2, <2>3
<1>5. best = 0 /\ current = 0
  <2>1. best = 0
    BY <1>1, <1>3 DEF Measured, TypeOK
  <2>2. current # 0 => current \in 1..current /\ current \in Experiments
    BY <1>1 DEF TypeOK
  <2>3. current # 0 => Measures(current)
    BY <1>2, <2>2 DEF UpToCurrent
  <2> QED BY <1>3, <2>1, <2>2, <2>3 DEF Measures
<1>6. ASSUME NEW n \in Rounds PROVE parent'[n] = None
  <2>1. 0 \in 0..(n - 1) /\ ~Measures(0)
    BY <1>1, <1>3 DEF Measures
  <2> QED BY <1>2, <1>4, <2>1 DEF Parents
<1>7. \A n \in Experiments : ~Running(n)'
  BY <1>1, <1>3, <1>4 DEF Running
<1>8. Requested'
  BY <1>3, <1>7 DEF Requested, Launching
<1>9. Known' /\ Left'
  BY <1>1, <1>3, <1>7 DEF Known, Left
<1>10. Sequential' /\ Parents' /\ Baseline'
  BY <1>3, <1>4, <1>1, <1>6 DEF Sequential, Parents, Baseline
<1>11. UpToCurrent'
  <2>1. exp'[0].score \in Nat
    BY <1>1, Constants DEF TypeOK, ExperimentType
  <2> QED BY <1>3, <1>5, <2>1 DEF UpToCurrent, BestUpTo
<1>12. Told'
  BY <1>1, <1>2, <1>3, <1>5 DEF Told
<1>13. \A w \in Workflows : AtWork(wf[w])'
  BY <1>3 DEF AtWork, StopsFor, Place, OnRound, Judged
<1> QED BY <1>8, <1>9, <1>10, <1>11, <1>12, <1>13

LEMMA RequestKeepsGood ==
  ASSUME Shape, Good, Request
  PROVE  Good'
<1> SUFFICES ASSUME Ok' PROVE /\ Requested' /\ Known' /\ Left'
                              /\ Sequential' /\ Parents' /\ UpToCurrent' /\ Baseline' /\ Told'
                              /\ \A w \in Workflows : AtWork(wf[w])'
  BY GoodAgain
<1>1. /\ UNCHANGED <<row, progress, exp, wf>> /\ \A c \in Requests : req[c].pc = "idle"
      /\ TypeOK /\ happened \subseteq happened'
  BY DEF Request, Shape, Fault
<1>2. PICK a \in Actions :
        /\ IF a = "resume" /\ Busy
           THEN current >= TwinsFrom /\ Fault("hasty")
           ELSE UNCHANGED happened
        /\ req' = [req EXCEPT !["user"] = [@ EXCEPT !.pc = "patch", !.action = a, !.seen = status]]
  BY DEF Request
<1>3. /\ Ok /\ Requested /\ Known /\ Left /\ Sequential /\ Parents /\ UpToCurrent /\ Baseline /\ Told
      /\ \A w \in Workflows : AtWork(wf[w])
      /\ "hasty" \notin happened'
  BY <1>1, GoodParts
<1>4. happened' = happened /\ (a = "resume" => ~Busy)
  BY <1>2, <1>3 DEF Fault
<1>5. /\ req'["user"].pc = "patch" /\ req'["user"].action = a /\ req'["recovery"].pc = "idle"
      /\ \A c \in Requests : req'[c].pc # "setid"
  BY <1>1, <1>2 DEF TypeOK, Requests, RequestType
<1>6. /\ mode' = mode /\ status' = status /\ control' = control /\ objective' = objective /\ wfId' = wfId
      /\ best' = best /\ current' = current /\ parent' = parent
  BY <1>1 DEF row, progress
<1>7. Requested'
  <2>1. Launching' => ~Busy
    BY <1>4, <1>5 DEF Launching
  <2> QED BY <1>1, <1>3, <1>5, <1>6, <2>1 DEF Requested, Busy, Live, Running
<1>8. Known'
  <2>1. \A c \in Requests : req[c].pc # "setid"
    BY <1>1
  <2> QED BY <1>1, <1>3, <1>4, <1>5, <1>6, <2>1 DEF Known, InTouch, Live
<1>9. Left'
  <2>1. Launching' => ~Busy
    BY <1>4, <1>5 DEF Launching
  <2>2. \A n \in Rounds : Running(n) => ~Launching'
    BY <2>1, Constants DEF Busy
  <2> QED BY <1>1, <1>3, <1>4, <1>5, <1>6, <2>2 DEF Left, Attended, Running, Live
<1>10. HasStop' = HasStop
  BY <1>6 DEF HasStop
<1>11. Sequential' /\ Parents' /\ UpToCurrent' /\ Baseline' /\ \A w \in Workflows : AtWork(wf[w])'
  <2>1. \A l : AtWork(l) => AtWork(l)'
    BY <1>1, <1>3, <1>6, <1>10, SameRounds
  <2> QED BY <1>1, <1>3, <1>6, <1>10, <2>1, SameRounds, SameAtWork
<1>12. Told'
  BY <1>1, <1>3, <1>6 DEF Told, MeetsGoal
<1> QED BY <1>7, <1>8, <1>9, <1>11, <1>12

LEMMA PatchKeepsGood ==
  ASSUME Shape, Good, Patch
  PROVE  Good'
<1> SUFFICES ASSUME Ok' PROVE /\ Requested' /\ Known' /\ Left'
                              /\ Sequential' /\ Parents' /\ UpToCurrent' /\ Baseline' /\ Told'
                              /\ \A w \in Workflows : AtWork(wf[w])'
  BY GoodAgain
<1> DEFINE a == req["user"].action
<1>1. /\ TypeOK /\ req["user"].pc = "patch" /\ req["recovery"].pc = "idle" /\ a \in {"stop", "resume", "cancel"}
      /\ UNCHANGED <<mode, wfId, progress, exp, wf, happened>>
      /\ status' = PatchedStatus(a) /\ control' = a
      /\ objective' = CASE a = "resume" -> "pending"
                      [] a = "cancel" /\ req["user"].seen = "failed" -> objective
                      [] OTHER -> "not_met"
      /\ req' = [req EXCEPT !["user"].pc = IF a = "resume" THEN "launch" ELSE "link"]
  BY DEF Patch, Shape, Asked
<1>2. /\ Requested /\ Known /\ Left /\ Sequential /\ Parents /\ UpToCurrent /\ Baseline /\ Told
      /\ \A w \in Workflows : AtWork(wf[w])
  BY <1>1, GoodParts
<1>3. /\ req'["user"].pc = (IF a = "resume" THEN "launch" ELSE "link") /\ req'["user"].action = a
      /\ req'["recovery"].pc = "idle" /\ \A c \in Requests : req'[c].pc # "setid" /\ req[c].pc # "setid"
      /\ best' = best /\ current' = current /\ parent' = parent
  BY <1>1 DEF TypeOK, Requests, RequestType, progress
<1>4. status' = (CASE a = "stop" -> "stopped" [] a = "resume" -> "running" [] a = "cancel" -> "cancelled")
  BY <1>1 DEF PatchedStatus
<1>5. a = "resume" => (\A w \in Workflows : ~Live(w)) /\ \A n \in Experiments : ~Running(n)
  BY <1>1, <1>2 DEF Requested, Launching
<1>6. a # "resume" => HasStop'
  BY <1>1 DEF HasStop
<1>7. Requested'
  BY <1>1, <1>3, <1>4, <1>5 DEF Requested, Launching, Live, Running
<1>8. Known'
  BY <1>1, <1>2, <1>3 DEF Known, InTouch, Live
<1>9. Left'
  <2>1. \A n \in Rounds : Running(n) => a # "resume"
    BY <1>5, Constants
  <2>2. a # "resume" => status' # "running" /\ ~Launching'
    BY <1>1, <1>3, <1>4 DEF Launching
  <2>3. \A n \in Rounds : (Running(n)' <=> Running(n)) /\ (Attended(n)' <=> Attended(n))
    BY <1>1 DEF Running, Attended
  <2>4. \A w \in Workflows : (Live(w)' <=> Live(w)) /\ wf'[w].pc = wf[w].pc
    BY <1>1 DEF Live
  <2> QED BY <1>2, <1>3, <2>1, <2>2, <2>3, <2>4 DEF Left
<1>10. status' = "success" => status = "success"
  BY <1>1, <1>4
<1>11. Sequential' /\ Parents' /\ UpToCurrent' /\ Baseline'
  BY <1>1, <1>2, <1>3 DEF Sequential, Parents, UpToCurrent, Baseline, Measures, BestUpTo
<1>12. Told'
  BY <1>1, <1>2, <1>3, <1>4 DEF Told, MeetsGoal
<1>13. ASSUME NEW w \in Workflows PROVE AtWork(wf[w])'
  <2>1. CASE a = "resume"
    BY <1>1, <1>5, <2>1 DEF Live, AtWork, StopsFor, Place, OnRound, Judged
  <2>2. CASE a # "resume"
    BY <1>1, <1>2, <1>3, <1>6, <1>10, <2>2, SameRounds, SameAtWork
  <2> QED BY <2>1, <2>2
<1> QED BY <1>7, <1>8, <1>9, <1>11, <1>12, <1>13

LEMMA LinkChildKeepsGood ==
  ASSUME Shape, Good, LinkChild
  PROVE  Good'
<1> SUFFICES ASSUME Ok' PROVE /\ Requested' /\ Known' /\ Left'
                              /\ Sequential' /\ Parents' /\ UpToCurrent' /\ Baseline' /\ Told'
                              /\ \A w \in Workflows : AtWork(wf[w])'
  BY GoodAgain
<1>1. /\ TypeOK /\ req["user"].pc = "link" /\ req["recovery"].pc = "idle"
      /\ UNCHANGED <<row, progress, wf>> /\ req' = [req EXCEPT !["user"] = IdleRequest]
      /\ exp' = Stopped(exp, ActiveChild) \/ exp' = exp
      /\ happened' = happened \/ happened' = happened \cup {"link"}
  BY DEF LinkChild, Shape, Asked, Fault
<1>2. /\ Requested /\ Known /\ Left /\ Sequential /\ Parents /\ UpToCurrent /\ Baseline /\ Told
      /\ \A w \in Workflows : AtWork(wf[w])
      /\ InTouch' = InTouch /\ ("step" \in happened' <=> "step" \in happened)
  <2>1. happened \subseteq happened'
    BY <1>1
  <2>2. InTouch' = InTouch
    BY <1>1 DEF InTouch
  <2> QED BY <1>1, <2>1, <2>2, GoodParts
<1>3. /\ req'["user"].pc = "idle" /\ req'["recovery"].pc = "idle" /\ \A c \in Requests : req[c].pc # "setid"
      /\ \A c \in Requests : req'[c].pc = "idle"
  BY <1>1, Freed DEF Requests
<1>4. /\ mode' = mode /\ status' = status /\ control' = control /\ objective' = objective /\ wfId' = wfId
      /\ best' = best /\ current' = current /\ parent' = parent /\ wf' = wf
  BY <1>1 DEF row, progress
<1>5. HasStop /\ HasStop'
  BY <1>1, <1>2, <1>4 DEF HasStop, Requested
<1>6. ASSUME NEW n \in Experiments
      PROVE  exp'[n].status = exp[n].status /\ exp'[n].score = exp[n].score /\ exp'[n].launched = exp[n].launched
  <2>1. /\ Stopped(exp, ActiveChild)[n].status = exp[n].status
        /\ Stopped(exp, ActiveChild)[n].score = exp[n].score
        /\ Stopped(exp, ActiveChild)[n].launched = exp[n].launched
    BY <1>1, StoppedChild
  <2> QED BY <1>1, <2>1
<1>7. /\ best \in Experiments /\ 0 \in Experiments /\ Rounds \subseteq Experiments /\ current \in Experiments
      /\ \A n \in Experiments : \A m \in 0..n : m \in Experiments
      /\ \A n \in Experiments : parent[n] # None => parent[n] \in Experiments
      /\ \A n \in Experiments : n # 0 => n \in Rounds
      /\ \A n \in Rounds : \A m \in 0..(n - 1) : m \in Experiments
      /\ \A w \in Workflows : wf[w] \in WorkflowType /\ wf[w].snap \in Experiments /\ wf[w].base \in Experiments
  BY <1>1, Constants DEF TypeOK, WorkflowType, Experiments, Rounds
<1>8. /\ \A n \in Experiments : /\ Measures(n)' <=> Measures(n)
                                /\ MeetsGoal(n)' <=> MeetsGoal(n)
                                /\ Running(n)' <=> Running(n)
  BY <1>6 DEF Measures, MeetsGoal, Running
<1>9. ASSUME NEW p \in Experiments, NEW n, \A m \in 0..n : m \in Experiments, BestUpTo(p, n)
      PROVE  BestUpTo(p, n)'
  BY <1>6, <1>9 DEF BestUpTo
<1>10. Requested'
  BY <1>2, <1>3, <1>4 DEF Requested, Launching
<1>11. Known'
  BY <1>2, <1>3, <1>4 DEF Known, Live
<1>12. Left'
  <2>1. \A n \in Rounds : (Running(n)' <=> Running(n)) /\ (Attended(n)' <=> Attended(n))
    BY <1>4, <1>7, <1>8 DEF Attended
  <2>2. \A w \in Workflows : (Live(w)' <=> Live(w)) /\ wf'[w].pc = wf[w].pc
    BY <1>4 DEF Live
  <2> QED BY <1>2, <1>3, <1>4, <2>1, <2>2 DEF Left, Launching
<1>13. Sequential' /\ Baseline'
  BY <1>2, <1>4, <1>6, <1>7, <1>8 DEF Sequential, Baseline
<1>14. Parents'
  <2> SUFFICES ASSUME NEW n \in Rounds, parent[n] # None
               PROVE  /\ parent[n] < n /\ (\A m \in 0..(n - 1) : Measures(m)')
                      /\ \A m \in 0..(n - 1) : exp'[m].status = "success" => exp'[m].score <= exp'[parent[n]].score
    BY <1>4 DEF Parents, BestUpTo
  <2>1. parent[n] < n /\ (\A m \in 0..(n - 1) : Measures(m)) /\ BestUpTo(parent[n], n - 1)
    BY <1>2 DEF Parents
  <2>2. \A m \in 0..(n - 1) : m \in Experiments
    BY <1>7
  <2>3. \A m \in 0..(n - 1) : exp'[m].status = "success" => exp'[m].score <= exp'[parent[n]].score
    BY <1>6, <1>7, <2>1, <2>2 DEF BestUpTo
  <2> QED BY <1>8, <2>1, <2>2, <2>3
<1>15. UpToCurrent'
  <2>1. \A m \in 0..current : m \in Experiments
    BY <1>7
  <2>2. \A m \in 1..current : m \in 0..current
    BY <1>7, Constants
  <2> QED BY <1>2, <1>4, <1>6, <1>7, <1>8, <2>1, <2>2 DEF UpToCurrent, BestUpTo
<1>16. Told'
  BY <1>2, <1>4, <1>6, <1>7, <1>8 DEF Told, MeetsGoal
<1>17. ASSUME NEW l \in WorkflowType, Fit(l), AtWork(l) PROVE AtWork(l)'
  <2>1. StopsFor(l)'
    BY <1>5 DEF StopsFor
  <2>2. Judged(l)'
    BY <1>4, <1>6, <1>7, <1>8, <1>17 DEF AtWork, Judged, MeetsGoal
  <2>3. ASSUME OnRound(l) PROVE Before(l)'
    BY <1>4, <1>5, <1>6, <1>7, <1>8, <1>17, <2>3 DEF AtWork, Place, Before
  <2>4. ASSUME OnRound(l) PROVE OwnChild(l)'
    <3>1. (l.n <= MaxRounds => l.n \in Experiments) /\ (l.pc \in {"launch", "history"} => l.n \in Experiments)
      BY <1>7, <1>17 DEF Fit, InRound, WorkflowType, Experiments
    <3>2. OwnChild(l)
      BY <1>17, <2>4 DEF AtWork, Place
    <3>3. l.n \in Experiments => exp'[l.n].status = exp[l.n].status /\ exp'[l.n].launched = exp[l.n].launched
      BY <1>6
    <3> QED BY <1>4, <3>1, <3>2, <3>3 DEF OwnChild, Running
  <2>5. ASSUME OnRound(l) PROVE Compares(l)'
    <3>1. Compares(l) /\ l.snap \in Experiments /\ l.base \in Experiments
      BY <1>17, <2>5 DEF AtWork, Place, WorkflowType
    <3>2. l.pc \in {"call", "version"} => \A m \in 0..(l.n - 1) : m \in Experiments
      BY <1>17, Constants DEF Fit, InRound, Experiments, Rounds
    <3>3. l.pc \in {"call", "version"} => BestUpTo(l.base, l.n - 1)'
      BY <1>9, <3>1, <3>2 DEF Compares
    <3> QED BY <1>4, <1>6, <1>7, <1>8, <3>1, <3>3 DEF Compares, MeetsGoal
  <2> QED BY <2>1, <2>2, <2>3, <2>4, <2>5 DEF AtWork, Place, OnRound
<1>18. ASSUME NEW w \in Workflows PROVE AtWork(wf[w])'
  <2>1. PICK l \in WorkflowType : l = wf[w]
    BY <1>7
  <2>2. AtWork(l)'
    BY <1>2, <1>17, <2>1 DEF Shape, Fits
  <2> QED BY <1>4, <2>1, <2>2 DEF AtWork, StopsFor, Place, OnRound, Before, OwnChild, Compares, Judged
<1> QED BY <1>10, <1>11, <1>12, <1>13, <1>14, <1>15, <1>16, <1>18

LEMMA LaunchKeepsGood ==
  ASSUME Shape, Good, NEW c \in Requests, Launch(c)
  PROVE  Good'
<1> SUFFICES ASSUME Ok' PROVE /\ Requested' /\ Known' /\ Left'
                              /\ Sequential' /\ Parents' /\ UpToCurrent' /\ Baseline' /\ Told'
                              /\ \A w \in Workflows : AtWork(wf[w])'
  BY GoodAgain
<1>1. /\ TypeOK /\ Asked /\ req[c].pc = "launch" /\ UNCHANGED <<row, progress, exp>>
      /\ happened' = IF \E w \in Workflows : Live(w) THEN happened \cup {"twin"} ELSE happened
  BY DEF Launch, Shape
<1>2. /\ Requested /\ Known /\ Left /\ Sequential /\ Parents /\ UpToCurrent /\ Baseline /\ Told
      /\ \A w \in Workflows : AtWork(wf[w])
      /\ \A w \in Workflows : ~Live(w)
      /\ happened' = happened
  <2>1. happened \subseteq happened'
    BY <1>1
  <2>2. "twin" \notin happened'
    BY <2>1, GoodParts
  <2> QED BY <1>1, <2>1, <2>2, GoodParts
<1>3. PICK w \in Workflows :
           /\ wf[w].pc = "none" /\ wf'[w].pc = "load" /\ wf'[w].n = 0 /\ wf'[w].end = "none"
           /\ \A v \in Workflows : v # w => wf'[v] = wf[v]
           /\ req'[c].pc = "setid" /\ req'[c].new = w
           /\ \A d \in Requests : d # c => req'[d] = req[d]
  BY Launched
<1>4. /\ mode' = mode /\ status' = status /\ control' = control /\ objective' = objective /\ wfId' = wfId
      /\ best' = best /\ current' = current /\ parent' = parent /\ exp' = exp
  BY <1>1 DEF row, progress
<1>5. /\ ~Launching' /\ req'["recovery"].pc # "launch" /\ req'["user"].pc # "link"
      /\ c \in {"user", "recovery"} /\ Requests = {"user", "recovery"}
      /\ \A n \in Rounds : ~Running(n)
  <2>1. c \in {"user", "recovery"} /\ Requests = {"user", "recovery"}
    BY DEF Requests
  <2>2. CASE c = "user"
    <3>1. Launching /\ req["recovery"].pc = "idle"
      BY <1>1, <2>2 DEF Launching, Asked
    <3>2. req'["user"].pc = "setid" /\ req'["recovery"].pc = "idle"
      BY <1>3, <2>1, <2>2, <3>1
    <3> QED BY <1>2, <2>1, <3>1, <3>2, Constants DEF Requested, Launching
  <2>3. CASE c = "recovery"
    <3>1. req["user"].pc = "idle" /\ req["recovery"].pc = "launch"
      BY <1>1, <2>1, <2>3 DEF Asked
    <3>2. req'["recovery"].pc = "setid" /\ req'["user"].pc = "idle"
      BY <1>3, <2>1, <2>3, <3>1
    <3>3. \A n \in Rounds : ~Attended(n)
      BY <1>2 DEF Attended, Live
    <3> QED BY <1>2, <2>1, <3>1, <3>2, <3>3 DEF Left, Launching
  <2> QED BY <2>1, <2>2, <2>3
<1>6. \A v \in Workflows : Live(v)' => v = w
  BY <1>2, <1>3 DEF Live
<1>7. Requested'
  BY <1>2, <1>4, <1>5 DEF Requested
<1>8. Known'
  BY <1>3, <1>5, <1>6 DEF Known
<1>9. Left'
  BY <1>4, <1>5 DEF Left, Running
<1>10. HasStop' = HasStop
  BY <1>4 DEF HasStop
<1>11. Sequential' /\ Parents' /\ UpToCurrent' /\ Baseline' /\ \A l : AtWork(l) => AtWork(l)'
  BY <1>2, <1>4, <1>10, SameRounds
<1>12. Told'
  BY <1>2, <1>4 DEF Told, MeetsGoal
<1>13. ASSUME NEW v \in Workflows PROVE AtWork(wf[v])'
  <2>1. CASE v = w
    BY <1>3, <2>1 DEF AtWork, StopsFor, Place, OnRound, Judged
  <2>2. CASE v # w
    BY <1>2, <1>3, <1>11, <2>2, SameAtWork
  <2> QED BY <2>1, <2>2
<1> QED BY <1>7, <1>8, <1>9, <1>11, <1>12, <1>13

\* A request or the recovery has started its workflow, or failed to.
LEMMA ServedKeepsGood ==
  ASSUME Shape, Good, NEW c \in Requests, SetWorkflowId(c) \/ LaunchFails(c)
  PROVE  Good'
<1> SUFFICES ASSUME Ok' PROVE /\ Requested' /\ Known' /\ Left'
                              /\ Sequential' /\ Parents' /\ UpToCurrent' /\ Baseline' /\ Told'
                              /\ \A w \in Workflows : AtWork(wf[w])'
  BY GoodAgain
<1>1. /\ TypeOK /\ Asked /\ req[c].pc \in {"launch", "setid"} /\ UNCHANGED <<mode, progress, exp, wf>>
      /\ req' = [req EXCEPT ![c] = IdleRequest] /\ happened \subseteq happened'
      /\ SetWorkflowId(c) => /\ req[c].pc = "setid" /\ wfId' = req[c].new /\ happened' = happened
      /\ ~SetWorkflowId(c) => happened' = happened \cup {req[c].pc}
      /\ \/ UNCHANGED <<status, objective, control>>
         \/ status' = "failed" /\ objective' = "unknown" /\ control' = "none"
  BY DEF SetWorkflowId, LaunchFails, Shape, Fault
<1>2. /\ Requested /\ Known /\ Left /\ Sequential /\ Parents /\ UpToCurrent /\ Baseline /\ Told
      /\ \A w \in Workflows : AtWork(wf[w]) /\ (InTouch' => InTouch)
      /\ "step" \in happened => "step" \in happened'
  BY <1>1, GoodParts
<1>3. /\ req'[c].pc = "idle" /\ \A d \in Requests : d # c => req'[d] = req[d] /\ req[d].pc = "idle"
  <2>1. \A d \in Requests : d # c => req[d].pc = "idle"
    BY <1>1 DEF Asked, Requests
  <2> QED BY <1>1, <2>1, Freed
<1>4. /\ ~Launching' /\ \A d \in Requests : req'[d].pc = "idle"
      /\ req'["recovery"].pc = "idle" /\ req'["user"].pc = "idle"
  BY <1>3 DEF Launching, Requests
<1>5. /\ mode' = mode /\ best' = best /\ current' = current /\ parent' = parent /\ exp' = exp /\ wf' = wf
  BY <1>1 DEF progress
<1>6. Requested'
  BY <1>1, <1>2, <1>4 DEF Requested
<1>7. Known'
  <2> SUFFICES ASSUME InTouch', NEW w \in Workflows, Live(w) PROVE wfId' = w
    BY <1>4, <1>5 DEF Known, Live
  <2>1. CASE SetWorkflowId(c)
    <3>1. PICK d \in Requests : req[d].pc = "setid" /\ req[d].new = w
      BY <1>1, <1>2, <2>1 DEF Known
    <3>2. d = c
      BY <1>3, <3>1
    <3> QED BY <1>1, <2>1, <3>1, <3>2
  <2>2. CASE ~SetWorkflowId(c)
    <3>1. req[c].pc = "launch"
      BY <1>1, <2>2 DEF InTouch
    <3>2. \/ c = "user" /\ Launching
          \/ c = "recovery"
      BY <3>1 DEF Requests, Launching
    <3> QED BY <1>2, <3>1, <3>2 DEF Requested, Known
  <2> QED BY <2>1, <2>2
<1>8. Left'
  <2>1. \A n \in Rounds : (Running(n)' <=> Running(n)) /\ (Attended(n)' <=> Attended(n))
    BY <1>5 DEF Running, Attended
  <2>2. \A w \in Workflows : (Live(w)' <=> Live(w)) /\ wf'[w].pc = wf[w].pc
    BY <1>5 DEF Live
  <2> QED BY <1>1, <1>2, <1>4, <2>1, <2>2 DEF Left
<1>9. (HasStop => HasStop') /\ (status' = "success" => status = "success")
  BY <1>1 DEF HasStop
<1>10. Told'
  BY <1>1, <1>2, <1>5 DEF Told, MeetsGoal
<1> QED BY <1>2, <1>5, <1>6, <1>7, <1>8, <1>9, <1>10, SameRounds, SameAtWork

LEMMA RecoverKeepsGood ==
  ASSUME Shape, Good, Recover
  PROVE  Good'
<1> SUFFICES ASSUME Ok' PROVE /\ Requested' /\ Known' /\ Left'
                              /\ Sequential' /\ Parents' /\ UpToCurrent' /\ Baseline' /\ Told'
                              /\ \A w \in Workflows : AtWork(wf[w])'
  BY GoodAgain
<1>1. /\ TypeOK /\ Asked /\ req["recovery"].pc = "scan" /\ UNCHANGED <<row, progress, exp, wf, happened>>
      /\ \/ Orphaned /\ req' = [req EXCEPT !["recovery"].pc = "launch"]
         \/ req' = [req EXCEPT !["recovery"] = IdleRequest]
  BY DEF Recover, Shape
<1>2. /\ Requested /\ Known /\ Left /\ Sequential /\ Parents /\ UpToCurrent /\ Baseline /\ Told
      /\ \A w \in Workflows : AtWork(wf[w]) /\ Ok
  BY <1>1, GoodParts
<1>3. /\ mode' = mode /\ status' = status /\ control' = control /\ objective' = objective /\ wfId' = wfId
      /\ best' = best /\ current' = current /\ parent' = parent /\ exp' = exp /\ wf' = wf /\ happened' = happened
  BY <1>1 DEF row, progress
<1>4. /\ req["user"].pc = "idle" /\ req'["user"].pc = "idle" /\ req'["recovery"].pc \in {"launch", "idle"}
      /\ req'["recovery"].pc = "launch" => Orphaned
      /\ \A c \in Requests : req[c].pc # "setid" /\ req'[c].pc # "setid"
  BY <1>1 DEF Asked, TypeOK, Requests, RequestType, IdleRequest
<1>5. InTouch /\ Orphaned => \A w \in Workflows : ~Live(w)
  BY <1>2, <1>4 DEF Known, InTouch, Orphaned, Live
<1>6. ~Launching'
  BY <1>4 DEF Launching
<1>7. Requested'
  BY <1>2, <1>3, <1>4, <1>6 DEF Requested, Orphaned
<1>8. Known'
  BY <1>2, <1>3, <1>4, <1>5 DEF Known, InTouch, Live
<1>9. Left'
  <2>1. \A n \in Rounds : (Running(n)' <=> Running(n)) /\ (Attended(n)' <=> Attended(n))
    BY <1>3 DEF Running, Attended
  <2>2. \A w \in Workflows : (Live(w)' <=> Live(w)) /\ wf'[w].pc = wf[w].pc
    BY <1>3 DEF Live
  <2>3. ASSUME NEW n \in Rounds, Running(n), ~Attended(n) PROVE ~Orphaned
    <3> SUFFICES ASSUME Orphaned PROVE FALSE
      OBVIOUS
    <3>1. "step" \in happened /\ \E w \in Workflows : wf[w].pc = "final"
      BY <1>2, <2>3 DEF Left, Orphaned
    <3>2. \A w \in Workflows : ~Live(w)
      BY <1>2, <1>5, <3>1 DEF Ok, Tended
    <3> QED BY <3>1, <3>2 DEF Live
  <2> QED BY <1>2, <1>3, <1>4, <1>6, <2>1, <2>2, <2>3 DEF Left
<1>10. HasStop' = HasStop
  BY <1>3 DEF HasStop
<1>11. Told'
  BY <1>2, <1>3 DEF Told, MeetsGoal
<1> QED BY <1>2, <1>3, <1>7, <1>8, <1>9, <1>10, <1>11, SameRounds, SameAtWork

\* A step that starts over finds what it found, or finds a result.
LEMMA ReplayedAtWork ==
  ASSUME Shape, NEW w \in Workflows, AtWork(wf[w]), NEW r \in WorkflowType, Restarts(wf[w], r)
  PROVE  AtWork(r)
<1> DEFINE l == wf[w]
<1>1. /\ TypeOK /\ Measured /\ Fit(l) /\ l \in WorkflowType
      /\ StopsFor(l) /\ Place(l) /\ Judged(l)
  BY DEF Shape, Fits, TypeOK, AtWork
<1>2. CASE l.pc \in {"call", "version", "experiment"} /\ r.pc = "prepare" /\ Keeps(r, l)
  <2>1. OnRound(l) /\ r.n = l.n /\ r.resume = l.resume
    BY <1>1, <1>2, Constants DEF OnRound, Fit, InRound, Keeps
  <2>2. Before(l) /\ OwnChild(l) /\ Compares(l)
    BY <1>1, <2>1 DEF Place
  <2>3. Before(r)
    BY <1>2, <2>1, <2>2 DEF Before
  <2>4. OwnChild(r)
    BY <1>2, <2>1, <2>2 DEF OwnChild, BeforeChild
  <2>5. Compares(r)
    BY <1>2, <2>2 DEF Compares, AtBase
  <2>6. StopsFor(r) /\ Judged(r)
    BY <1>1, <1>2 DEF StopsFor, Judged
  <2> QED BY <2>3, <2>4, <2>5, <2>6 DEF AtWork, Place
<1>3. CASE /\ l.pc \in {"poll", "parent", "best", "current"} /\ l.n # 0
           /\ r.pc = "poll" /\ r.n = l.n /\ r.snap = best /\ ~r.resume
  <2>1. OnRound(l) /\ l.n \in Experiments
    BY <1>1, <1>3, Constants DEF OnRound, Fit, InRound, Waiting
  <2>2. Before(l) /\ Compares(l)
    BY <1>1, <2>1 DEF Place
  <2>3. Before(r)
    BY <1>3, <2>2 DEF Before
  <2>4. OwnChild(r)
    BY <1>3 DEF OwnChild, BeforeChild, AtBase
  <2>5. Compares(r)
    BY <1>3, <2>2 DEF Compares, AtBase
  <2>6. StopsFor(r)
    <3>1. l.pc \in {"best", "current"} => exp[l.n].status = "success" /\ ~exp[l.n].stop
      BY <1>1, <2>1 DEF Measured, Sound
    <3> QED BY <1>1, <1>3, <3>1 DEF StopsFor
  <2>7. Judged(r)
    BY <1>1, <1>3 DEF Judged
  <2> QED BY <2>3, <2>4, <2>5, <2>6, <2>7 DEF AtWork, Place
<1>4. CASE l.pc = "parent" /\ l.n = 0 /\ r.pc = "poll" /\ r.n = 0
  BY <1>1, <1>4 DEF AtWork, StopsFor, Place, OnRound, Judged
<1>5. CASE r = l
  BY <1>5
<1> QED BY <1>2, <1>3, <1>4, <1>5 DEF Restarts

LEMMA RestartKeepsGood ==
  ASSUME Shape, Good, Restart
  PROVE  Good'
<1> SUFFICES ASSUME Ok' PROVE /\ Requested' /\ Known' /\ Left'
                              /\ Sequential' /\ Parents' /\ UpToCurrent' /\ Baseline' /\ Told'
                              /\ \A w \in Workflows : AtWork(wf[w])'
  BY GoodAgain
<1>1. /\ TypeOK /\ req'["user"].pc = "idle" /\ req'["recovery"].pc = "scan"
      /\ UNCHANGED <<row, progress, exp>> /\ happened \subseteq happened'
      /\ wf' \in [Workflows -> WorkflowType]
      /\ \A w \in Workflows : Restarts(wf[w], wf'[w]) /\ (Live(w)' <=> Live(w))
  BY Restarted, LiveAfterRestart DEF Shape
<1>2. /\ Requested /\ Known /\ Left /\ Sequential /\ Parents /\ UpToCurrent /\ Baseline /\ Told
      /\ \A w \in Workflows : AtWork(wf[w])
      /\ InTouch' => InTouch
  BY <1>1, GoodParts
<1>3. /\ mode' = mode /\ status' = status /\ control' = control /\ objective' = objective /\ wfId' = wfId
      /\ best' = best /\ current' = current /\ parent' = parent /\ exp' = exp
  BY <1>1 DEF row, progress
<1>4. ~Launching' /\ \A c \in Requests : req'[c].pc \notin {"setid", "launch", "link", "patch"}
  BY <1>1 DEF Launching, Requests
<1>5. Requested'
  BY <1>1, <1>2, <1>3, <1>4 DEF Requested, Requests
<1>6. Known'
  <2>1. InTouch' => \A c \in Requests : req[c].pc = "idle"
    BY DEF Restart, Fault, InTouch
  <2>2. InTouch' => \A w \in Workflows : Live(w) => wfId = w
    BY <1>2, <2>1 DEF Known
  <2> QED BY <1>1, <1>3, <1>4, <2>2 DEF Known, Requests
<1>7. Left'
  <2> SUFFICES ASSUME NEW n \in Rounds, Running(n), ~Attended(n)'
               PROVE  /\ \A w \in Workflows : Live(w) => wf'[w].pc \in {"top", "final"}
                      /\ status = "running" => "step" \in happened' /\ \E w \in Workflows : wf'[w].pc = "final"
    BY <1>1, <1>3, <1>4 DEF Left, Running
  <2>1. ~Attended(n)
    <3> SUFFICES ASSUME NEW w \in Workflows, wf[w].pc \in {"launch", "poll", "parent"}, wf[w].n = n PROVE FALSE
      BY DEF Attended
    <3>1. Restarts(wf[w], wf'[w]) /\ n # 0
      BY <1>1, Constants
    <3>2. wf'[w].pc \in {"launch", "poll", "parent"} /\ wf'[w].n = n
      BY <3>1 DEF Restarts
    <3> QED BY <3>2 DEF Attended
  <2>2. /\ \A w \in Workflows : Live(w) => wf[w].pc \in {"top", "final"}
        /\ status = "running" => "step" \in happened /\ \E w \in Workflows : wf[w].pc = "final"
    BY <1>2, <2>1 DEF Left
  <2>3. \A w \in Workflows : wf[w].pc \in {"top", "final"} => wf'[w] = wf[w]
    BY <1>1 DEF Restarts
  <2> QED BY <1>1, <2>2, <2>3
<1>8. HasStop' = HasStop
  BY <1>3 DEF HasStop
<1>9. Sequential' /\ Parents' /\ UpToCurrent' /\ Baseline' /\ \A l : AtWork(l) => AtWork(l)'
  BY <1>2, <1>3, <1>8, SameRounds
<1>10. Told'
  BY <1>2, <1>3 DEF Told, MeetsGoal
<1>11. ASSUME NEW w \in Workflows PROVE AtWork(wf[w])'
  <2>1. PICK r \in WorkflowType : r = wf'[w]
    BY <1>1
  <2>2. AtWork(r)
    BY <1>1, <1>2, <2>1, ReplayedAtWork
  <2>3. AtWork(r)'
    BY <1>9, <2>2
  <2> QED BY <2>1, <2>3 DEF AtWork, StopsFor, Place, OnRound, Before, OwnChild, Compares, Judged
<1> QED BY <1>5, <1>6, <1>7, <1>9, <1>10, <1>11

LEMMA EndedKeepsGood ==
  ASSUME Shape, Good, NEW k \in Experiments, ExperimentEnds(k)
  PROVE  Good'
<1> SUFFICES ASSUME Ok' PROVE /\ Requested' /\ Known' /\ Left'
                              /\ Sequential' /\ Parents' /\ UpToCurrent' /\ Baseline' /\ Told'
                              /\ \A w \in Workflows : AtWork(wf[w])'
  BY GoodAgain
<1>1. /\ TypeOK /\ Measured /\ TypeOK' /\ UNCHANGED <<row, progress, req, wf, happened>>
  BY ChildKeepsShape DEF ExperimentEnds, Shape
<1>2. /\ Requested /\ Known /\ Left /\ Sequential /\ Parents /\ UpToCurrent /\ Baseline /\ Told
      /\ \A w \in Workflows : AtWork(wf[w])
  BY <1>1, GoodParts
<1>3. /\ mode' = mode /\ status' = status /\ control' = control /\ objective' = objective /\ wfId' = wfId
      /\ best' = best /\ current' = current /\ parent' = parent /\ req' = req /\ wf' = wf /\ happened' = happened
  BY <1>1 DEF row, progress
<1>4. /\ Running(k) /\ exp[k].launched /\ ~Measures(k)
      /\ exp'[k].status \in {"success", "failed", "stopped"} /\ ~exp'[k].stop
      /\ exp'[k].status = "stopped" => exp[k].stop
  BY <1>1, EndedChild DEF Running, Measures
<1>5. \A n \in Experiments : n # k => exp'[n] = exp[n]
  BY <1>1, EndedChild
<1>6. /\ best \in Experiments /\ 0 \in Experiments /\ Rounds \subseteq Experiments /\ current \in Experiments
      /\ MaxRounds \in Nat /\ Experiments = 0..MaxRounds /\ Rounds = 1..MaxRounds /\ current \in Nat
      /\ \A n \in Experiments : n # 0 => n \in Rounds
      /\ \A n \in Experiments : parent[n] # None => parent[n] \in Experiments
      /\ \A n \in Experiments : exp'[n].score \in Nat
      /\ \A w \in Workflows : wf[w] \in WorkflowType
  BY <1>1, Constants DEF TypeOK, ExperimentType, Experiments, Rounds
<1>7. /\ \A n \in Experiments : Running(n)' => Running(n)
      /\ \A n \in Experiments : Measures(n) => n # k /\ Measures(n)'
      /\ \A n \in Experiments : exp[n].status = "success" => n # k
      /\ \A n \in Experiments : exp'[n].status = "none" <=> exp[n].status = "none"
  BY <1>4, <1>5 DEF Running, Measures
<1>8. best # 0 => exp[best].status = "success"
  BY <1>1 DEF Measured
<1>9. ASSUME NEW p \in Experiments, p # k, NEW n, \A m \in 0..n : m \in Experiments /\ m # k, BestUpTo(p, n)
      PROVE  BestUpTo(p, n)'
  BY <1>5, <1>9 DEF BestUpTo
<1>10. HasStop' = HasStop
  BY <1>3 DEF HasStop
<1>11. Requested'
  BY <1>2, <1>3, <1>7 DEF Requested, Launching, Live
<1>12. Known'
  BY <1>2, <1>3 DEF Known, InTouch, Live
<1>13. Left'
  <2>1. \A n \in Rounds : (Running(n)' => Running(n)) /\ (Attended(n)' <=> Attended(n))
    BY <1>3, <1>6, <1>7 DEF Attended
  <2>2. \A w \in Workflows : (Live(w)' <=> Live(w)) /\ wf'[w].pc = wf[w].pc
    BY <1>3 DEF Live
  <2> QED BY <1>2, <1>3, <2>1, <2>2 DEF Left, Launching
<1>14. Sequential' /\ Baseline'
  <2>1. Sequential'
    BY <1>2, <1>6, <1>7 DEF Sequential
  <2> QED BY <1>2, <1>3, <1>5, <1>6, <1>7, <2>1 DEF Baseline
<1>15. Parents'
  <2> SUFFICES ASSUME NEW n \in Rounds, parent[n] # None
               PROVE  /\ parent[n] < n /\ (\A m \in 0..(n - 1) : Measures(m)')
                      /\ \A m \in 0..(n - 1) : exp'[m].status = "success" => exp'[m].score <= exp'[parent[n]].score
    BY <1>3 DEF Parents, BestUpTo
  <2>1. parent[n] < n /\ (\A m \in 0..(n - 1) : Measures(m)) /\ BestUpTo(parent[n], n - 1)
    BY <1>2 DEF Parents
  <2>2. \A m \in 0..(n - 1) : m \in Experiments /\ m # k
    BY <1>6, <1>7, <2>1
  <2>3. parent[n] \in Experiments /\ parent[n] # k
    <3>1. parent[n] \in Experiments
      BY <1>6
    <3>2. parent[n] \in 0..(n - 1)
      BY <1>6, <2>1, <3>1
    <3> QED BY <2>2, <3>1, <3>2
  <2> QED BY <1>5, <1>7, <2>1, <2>2, <2>3 DEF BestUpTo
<1>16. UpToCurrent'
  <2>1. \A n \in 1..current : n \in Experiments /\ Measures(n)
    BY <1>2, <1>6 DEF UpToCurrent
  <2>2. CASE k = 0
    <3>1. \A n \in Rounds : exp[n].status = "none"
      BY <1>2, <1>4, <1>6, <2>2 DEF Sequential
    <3>2. best = 0
      BY <1>6, <1>8, <3>1
    <3>3. current = 0
      <4>1. current # 0 => current \in 1..current /\ current \in Rounds
        BY <1>6
      <4> QED BY <2>1, <3>1, <4>1 DEF Measures
    <3> QED BY <1>3, <1>6, <3>2, <3>3 DEF UpToCurrent, BestUpTo
  <2>3. CASE k # 0
    <3>1. \A m \in 0..current : m \in Experiments /\ m # k
      BY <1>6, <1>7, <2>1, <2>3
    <3>2. best # k
      BY <1>6, <1>7, <1>8, <2>3
    <3> QED BY <1>2, <1>3, <1>5, <1>6, <1>7, <2>1, <3>1, <3>2 DEF UpToCurrent, BestUpTo
  <2> QED BY <2>2, <2>3
<1>17. Told'
  BY <1>2, <1>3, <1>5, <1>6, <1>7 DEF Told, MeetsGoal
<1>18. ASSUME NEW l \in WorkflowType, Fit(l), AtWork(l) PROVE AtWork(l)'
  <2>1. /\ l.pc \in {"launch", "poll", "parent", "best", "current", "history", "call", "version"} => l.n \in Experiments
        /\ l.n \in Nat /\ l.n <= MaxRounds + 1 /\ l.snap \in Experiments /\ l.base \in Experiments
    BY <1>6, <1>18 DEF WorkflowType, Fit, Waiting, InRound
  <2>2. StopsFor(l)'
    <3>1. l.pc = "top" /\ l.n > 1 => l.n - 1 \in Experiments
      BY <1>6, <2>1
    <3> QED BY <1>4, <1>5, <1>7, <1>10, <1>18, <2>1, <3>1 DEF AtWork, StopsFor
  <2>3. Judged(l)'
    BY <1>3, <1>5, <1>6, <1>7, <1>18 DEF AtWork, Judged, MeetsGoal
  <2>4. ASSUME OnRound(l) PROVE Before(l)' /\ OwnChild(l)' /\ Compares(l)'
    <3>1. Before(l) /\ OwnChild(l) /\ Compares(l) /\ l.n # 0
      BY <1>18, <2>4 DEF AtWork, Place, OnRound
    <3>2. OwnChild(l)'
      <4>1. l.n <= MaxRounds => l.n \in Experiments
        BY <1>6, <2>1
      <4>2. l.n \in Experiments /\ (exp[l.n].status \in {"stopped", "none"} \/ ~exp[l.n].launched) => exp'[l.n] = exp[l.n]
        BY <1>4, <1>5 DEF Running
      <4>3. l.n \in Experiments /\ exp[l.n].status = "success" => exp'[l.n] = exp[l.n]
        BY <1>5, <1>7
      <4> QED BY <1>3, <2>1, <3>1, <4>1, <4>2, <4>3 DEF OwnChild, Running
    <3>3. Compares(l)'
      <4>1. exp[0].status = "success" => exp'[0] = exp[0] /\ exp'[best] = exp[best] /\ best # k /\ k # 0
        BY <1>5, <1>6, <1>7, <1>8
      <4>2. exp[l.snap].status = "success" => exp'[l.snap] = exp[l.snap]
        BY <1>5, <1>7, <2>1
      <4>3. l.pc \in {"call", "version"} => l.base < l.n /\ BestUpTo(l.base, l.n - 1)'
        <5> SUFFICES ASSUME l.pc \in {"call", "version"} PROVE l.base < l.n /\ BestUpTo(l.base, l.n - 1)'
          OBVIOUS
        <5>1. l.base < l.n /\ BestUpTo(l.base, l.n - 1) /\ exp[0].status = "success" /\ l.n \in Rounds
          BY <1>18, <3>1 DEF Compares, AtBase, Fit, InRound
        <5>2. \A m \in 0..(l.n - 1) : m \in Experiments /\ m # k
          <6>1. \A m \in 0..(l.n - 1) : m \in Experiments /\ (m # 0 => m \in Rounds /\ m < l.n)
            BY <1>6, <5>1
          <6>2. \A m \in 0..(l.n - 1) : m # 0 => Measures(m)
            BY <3>1, <6>1 DEF Before
          <6> QED BY <1>7, <4>1, <5>1, <6>1, <6>2
        <5>3. l.base \in 0..(l.n - 1)
          BY <1>6, <2>1, <5>1
        <5> QED BY <1>9, <2>1, <5>1, <5>2, <5>3
      <4>4. /\ l.pc \notin AtBase => exp[0].status = "success"
            /\ l.pc = "current" => l.pc \notin AtBase
            /\ l.pc \in {"poll", "best", "current", "top", "clear", "prepare", "call", "version", "experiment", "launch",
                         "parent", "history"} => l.pc \notin AtBase
        BY <3>1 DEF Compares, AtBase
      <4> QED BY <1>3, <3>1, <4>1, <4>2, <4>3, <4>4 DEF Compares, MeetsGoal
    <3>4. Before(l)'
      <4> SUFFICES ASSUME NEW m \in Rounds
                   PROVE  /\ m > l.n => exp'[m].status = "none"
                          /\ m < l.n => Measures(m)' \/ (l.pc = "top" /\ m = l.n - 1 /\ HasStop)
                          /\ exp'[m].status = "success" /\ m > current =>
                                \/ m = l.n /\ l.pc \in {"launch", "poll", "parent", "best", "current"}
                                \/ l.pc = "top" /\ m = l.n - 1 /\ HasStop
        BY <1>3, <1>10 DEF Before
      <4>1. m > l.n => exp'[m].status = "none"
        BY <1>6, <1>7, <3>1 DEF Before
      <4>2. m < l.n => Measures(m)' \/ (l.pc = "top" /\ m = l.n - 1 /\ HasStop)
        BY <1>6, <1>7, <3>1 DEF Before
      <4>3. exp'[m].status = "success" /\ m > current =>
                                \/ m = l.n /\ l.pc \in {"launch", "poll", "parent", "best", "current"}
                                \/ l.pc = "top" /\ m = l.n - 1 /\ HasStop
        <5>1. CASE m # k
          BY <1>5, <1>6, <3>1, <5>1 DEF Before
        <5>2. CASE m = k
          <6>1. m > l.n => FALSE
            BY <1>4, <3>1, <5>2 DEF Before, Running
          <6>2. m < l.n => l.pc = "top" /\ m = l.n - 1 /\ HasStop
            BY <1>4, <3>1, <5>2 DEF Before
          <6>3. m = l.n => l.pc \in {"launch", "poll", "parent", "best", "current"}
            <7>1. m = l.n => l.pc \notin BeforeChild /\ l.pc # "history"
              BY <1>4, <1>6, <3>1, <5>2 DEF OwnChild, Running
            <7>2. l.pc \notin Opening \cup {"none", "load", "final", "done"}
              BY <1>18, <2>4 DEF Fit, OnRound
            <7> QED BY <1>18, <7>1, <7>2 DEF WorkflowType, WorkflowPcs, BeforeChild, AtBase, Opening
          <6>4. m \in Nat
            BY <1>6
          <6> QED BY <2>1, <6>1, <6>2, <6>3, <6>4
        <5> QED BY <5>1, <5>2
      <4> QED BY <4>1, <4>2, <4>3
    <3> QED BY <3>2, <3>3, <3>4
  <2> QED BY <2>2, <2>3, <2>4 DEF AtWork, Place, OnRound
<1>19. ASSUME NEW w \in Workflows PROVE AtWork(wf[w])'
  <2>1. PICK l \in WorkflowType : l = wf[w]
    BY <1>6
  <2>2. AtWork(l)'
    BY <1>2, <1>18, <2>1 DEF Shape, Fits
  <2> QED BY <1>3, <2>1, <2>2 DEF AtWork, StopsFor, Place, OnRound, Before, OwnChild, Compares, Judged
<1> QED BY <1>11, <1>12, <1>13, <1>14, <1>15, <1>16, <1>17, <1>19

LEMMA NextKeepsGood ==
  ASSUME Shape, Solo, Good, [Next]_vars
  PROVE  Good'
<1>1. CASE \E w \in Workflows : \E r \in WorkflowType : Turn(w, r)
  BY <1>1, TurnKeepsGood
<1>2. CASE Create \/ Request \/ Patch \/ LinkChild \/ Restart \/ Recover
  BY <1>2, CreateKeepsGood, RequestKeepsGood, PatchKeepsGood, LinkChildKeepsGood, RestartKeepsGood,
     RecoverKeepsGood
<1>3. CASE \E c \in Requests : Launch(c) \/ SetWorkflowId(c) \/ LaunchFails(c)
  BY <1>3, LaunchKeepsGood, ServedKeepsGood
<1>4. CASE \E n \in Experiments : ExperimentEnds(n)
  BY <1>4, EndedKeepsGood
<1>5. CASE \E n \in Experiments : ExperimentStopped(n)
  <2>1. "childstop" \in happened'
    BY <1>5 DEF ExperimentStopped, Fault
  <2> QED BY <2>1 DEF Good, Ok, Watched
<1>6. CASE UNCHANGED vars
  <2>1. /\ mode' = mode /\ status' = status /\ control' = control /\ objective' = objective /\ wfId' = wfId
        /\ best' = best /\ current' = current /\ parent' = parent /\ exp' = exp /\ req' = req /\ wf' = wf
        /\ happened' = happened
    BY <1>6 DEF vars, row, progress
  <2>2. HasStop' = HasStop
    BY <2>1 DEF HasStop
  <2>3. ASSUME Ok' PROVE /\ Requested' /\ Known' /\ Left'
                         /\ Sequential' /\ Parents' /\ UpToCurrent' /\ Baseline' /\ Told'
                         /\ \A w \in Workflows : AtWork(wf[w])'
    <3>1. /\ Requested /\ Known /\ Left /\ Sequential /\ Parents /\ UpToCurrent /\ Baseline /\ Told
          /\ \A w \in Workflows : AtWork(wf[w])
      BY <2>1, <2>3, GoodParts
    <3>2. Requested' /\ Known' /\ Left' /\ Told'
      BY <2>1, <3>1 DEF Requested, Launching, Known, InTouch, Left, Attended, Live, Running, Told, MeetsGoal
    <3> QED BY <2>1, <2>2, <3>1, <3>2, SameRounds, SameAtWork
  <2> QED BY <2>3, GoodAgain
<1> QED BY <1>1, <1>2, <1>3, <1>4, <1>5, <1>6, Cases

LEMMA GoodInitially ==
  ASSUME Init
  PROVE  Good
<1>1. /\ \A w \in Workflows : wf[w].pc = "none" /\ ~Live(w)
      /\ \A c \in Requests : req[c].pc = "idle"
      /\ \A n \in Experiments : exp[n].status = "none" /\ exp[n].score = 0 /\ ~Running(n)
      /\ \A n \in Experiments : parent[n] = None
      /\ mode = "none" /\ status = "none" /\ control = "none" /\ objective = "pending"
      /\ best = 0 /\ current = 0
  BY DEF Init, NewWorkflow, IdleRequest, NoExperiment, Live, Running
<1>2. Requested /\ Known /\ Left
  BY <1>1, Constants DEF Requested, Launching, Known, Left, Requests
<1>3. Sequential /\ Parents /\ UpToCurrent /\ Baseline /\ Told
  BY <1>1, Constants DEF Sequential, Parents, UpToCurrent, BestUpTo, Baseline, Told
<1>4. \A w \in Workflows : AtWork(wf[w])
  BY <1>1 DEF AtWork, StopsFor, Place, OnRound, Judged
<1> QED BY <1>2, <1>3, <1>4 DEF Good, Rows, History

LEMMA GoodInvariant == Spec => [](Shape /\ Solo /\ Good)
<1>1. Init => Shape /\ Solo /\ Good
  <2> SUFFICES ASSUME Init PROVE Solo
    BY Initially, GoodInitially
  <2>1. \A w \in Workflows : ~Live(w)
    BY DEF Init, NewWorkflow, Live
  <2> QED BY <2>1 DEF Solo
<1>2. Shape /\ Solo /\ Good /\ [Next]_vars => (Shape /\ Solo /\ Good)'
  BY NextKeepsShape, NextKeepsSolo, NextKeepsGood
<1> QED BY <1>1, <1>2, PTL DEF Spec

(***************************************************************************)
(* The best version was measured, whatever happens.  It is the best of the *)
(* finished rounds, and the verdict tells what it reaches, unless a step   *)
(* throws in a workflow that the row does not know or that DBOS does not   *)
(* tell: that workflow leaves its round to nobody, and the one that is     *)
(* started after it goes on behind it.                                     *)
(***************************************************************************)
THEOREM BestIsTheBest == Spec => []BestIsMeasured /\ [](Tended => BestIsBest)
<1>1. Shape => BestIsMeasured
  BY Constants DEF Shape, TypeOK, Measured, BestIsMeasured
<1>2. Shape /\ Good => (Tended => BestIsBest)
  BY <1>1 DEF Good, Ok, History, UpToCurrent, BestUpTo, Told, BestIsBest, BestOfRounds, ObjectiveIsTrue
<1> QED BY <1>1, <1>2, GoodInvariant, PTL

(***************************************************************************)
(* Each version comes from the best one before it, and a round has its     *)
(* result before the next one starts: in one workflow, and in the one that *)
(* a resume or the recovery starts after it.                               *)
(***************************************************************************)
THEOREM VersionsBuildOnTheBest == Spec => [](Tended => BuildsOnBest)
<1>1. Good => (Tended => BuildsOnBest)
  BY DEF Good, Ok, History, Sequential, Parents, BestUpTo, Measures, BuildsOnBest
<1> QED BY <1>1, GoodInvariant, PTL

(***************************************************************************)
(* No single fault harms either.                                           *)
(***************************************************************************)
COROLLARY BestWithOneFault ==
  ASSUME MaxFaults <= 1
  PROVE  Spec => [](BestIsBest /\ BuildsOnBest)
<1>1. FewFaults => Tended
  <2> SUFFICES ASSUME FewFaults, "step" \in happened PROVE InTouch
    BY DEF Tended
  <2>1. "setid" \notin happened /\ "crash" \notin happened /\ "lookup" \notin happened
    BY OneFault DEF FaultKinds
  <2> QED BY <2>1 DEF InTouch
<1> QED BY <1>1, FewFaultsInvariant, BestIsTheBest, VersionsBuildOnTheBest, PTL
=============================================================================
