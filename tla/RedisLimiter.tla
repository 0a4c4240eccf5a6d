---------------------------- MODULE RedisLimiter ----------------------------
(***************************************************************************)
(* The Redis limiter of one key (RedisLimiter): sliding windows for        *)
(* requests and tokens per minute, and a concurrency counter with a TTL.   *)
(* Every script is one step.  A call id is the requestMember of one call;  *)
(* it is used again (a new UUID in the code) once nothing mentions it.     *)
(*                                                                         *)
(* Time is kept as ages: age[c] is how many ticks ago c was granted, up to *)
(* Window, and a window entry is pruned when its age has reached Window.   *)
(***************************************************************************)
EXTENDS Naturals, Integers, FiniteSets, FiniteSetsExt

CONSTANTS
    Calls,              \* request members
    Reserving,          \* calls with reserveConcurrency (not pre-reserved)
    Tokens,             \* estimatedTokens of a call
    Window,             \* windowMs in ticks
    RpmLimit, TpmLimit, \* <= 0: no cap
    ConcurrencyLimit,   \* the ceiling; auto-concurrency is off
    SlotTTL,            \* concurrencyTtlMs in ticks
    CallTimeout,        \* the abort timer of invokeLLM in ticks
    ReleaseDelay        \* ticks from the end of a call to its release

ASSUME LimiterAssumption ==
    /\ IsFiniteSet(Calls) /\ Reserving \subseteq Calls
    /\ Tokens \in [Calls -> Nat]
    /\ Window \in Nat \ {0}
    /\ RpmLimit \in Int /\ TpmLimit \in Int /\ ConcurrencyLimit \in Int
    /\ SlotTTL \in Nat \ {0} /\ CallTimeout \in Nat /\ ReleaseDelay \in Nat

VARIABLES
    rpm,        \* the sorted set :rpm
    tpm,        \* the sorted set :tpm (a member carries its tokens)
    total,      \* the cached sum :tpm:total, -1 when the key is absent
    age,        \* ticks since a member's score
    slots,      \* :concurrency
    slotTTL,    \* ticks until :concurrency expires, 0 = it has no TTL
    call,       \* what the caller is doing
    elapsed,    \* ticks since the call was granted
    granted,    \* history: the calls granted less than Window ticks ago
    overdue     \* history: one of the running calls outlived the counter's TTL

windowVars == <<rpm, tpm, total, age, granted>>
slotVars   == <<slots, slotTTL>>
callVars   == <<call, elapsed, overdue>>
vars == <<windowVars, slotVars, callVars>>

TokensOf(S) == MapThenSumSet(LAMBDA c : Tokens[c], S)
Young(S) == {c \in S : age[c] < Window}

Init ==
    /\ rpm = {} /\ tpm = {} /\ total = -1
    /\ age = [c \in Calls |-> Window]
    /\ slots = 0 /\ slotTTL = 0
    /\ call = [c \in Calls |-> "idle"]
    /\ elapsed = [c \in Calls |-> 0]
    /\ granted = {}
    /\ overdue = FALSE

-----------------------------------------------------------------------------
(* The window helpers shared by the scripts.                                *)

\* prune_tpm: subtract the expired tokens from the cached sum, or add the
\* members up when the sum is gone; the sum is absent when it would be 0.
PrunedTotal ==
    LET kept == Young(tpm)
        sum == IF total >= 0 THEN total - TokensOf(tpm \ kept) ELSE TokensOf(kept)
    IN IF kept = {} THEN 0 ELSE IF sum > 0 THEN sum ELSE 0

StoredTotal(sum) == IF sum > 0 THEN sum ELSE -1

RpmFullOneLate == RpmLimit > 0 /\ Cardinality(Young(rpm)) > RpmLimit
RpmFull == RpmLimit > 0 /\ Cardinality(Young(rpm)) + 1 > RpmLimit
TpmFullBefore(c) == TpmLimit > 0 /\ PrunedTotal >= TpmLimit
TpmFull(c) == TpmLimit > 0 /\ PrunedTotal + Tokens[c] > TpmLimit
SlotsFull(c) == c \in Reserving /\ ConcurrencyLimit > 0 /\ slots + 1 > ConcurrencyLimit

\* ZRANGE key 0 0 is the member with the lowest score.
NewestAge(S) == Min({age[m] : m \in S})
OldestAge(S) == Max({age[m] : m \in S})

\* The members still in the window that have been there for at least a ticks.
Oldest(S, a) == {c \in Young(S) : age[c] >= a}

\* retry_after_ms of a refusal: when the oldest request leaves the window, or
\* when enough of the oldest tokens have left it, or the whole window.
RetryAfter(c) ==
    IF RpmFull
    THEN IF Young(rpm) = {} THEN Window
         ELSE Window - OldestAge(Young(rpm))
    ELSE LET enough == {a \in {age[m] : m \in Young(tpm)} :
                          PrunedTotal - TokensOf(Oldest(tpm, a)) + Tokens[c] <= TpmLimit}
         IN IF enough = {} THEN Window ELSE Window - Max(enough)

-----------------------------------------------------------------------------
(* ACQUIRE_SCRIPT.                                                          *)

Unused(c) == call[c] = "idle" /\ c \notin rpm \cup tpm \cup granted

\* PEXPIRE after every INCR.
TtlOfFirstAcquire == IF slots = 0 THEN SlotTTL ELSE slotTTL
NoTtl == 0
TtlAfterAcquire == SlotTTL

AcquireGranted(c) ==
    /\ Unused(c)
    /\ ~RpmFull /\ ~TpmFull(c) /\ ~SlotsFull(c)
    /\ rpm' = Young(rpm) \cup {c}
    /\ tpm' = Young(tpm) \cup {c}
    /\ total' = StoredTotal(PrunedTotal + Tokens[c])
    /\ age' = [age EXCEPT ![c] = 0]
    /\ granted' = granted \cup {c}
    /\ \/ /\ c \in Reserving
          /\ slots' = slots + 1
          /\ slotTTL' = TtlAfterAcquire
       \/ /\ c \notin Reserving
          /\ UNCHANGED slotVars
    /\ call' = [call EXCEPT ![c] = "inflight"]
    /\ elapsed' = [elapsed EXCEPT ![c] = 0]
    /\ UNCHANGED overdue

\* A refused script has pruned the windows; the caller polls again, or gives
\* up with RateLimitExceededError after its timeout.
AcquireRefused(c) ==
    /\ Unused(c)
    /\ RpmFull \/ TpmFull(c) \/ SlotsFull(c)
    /\ rpm' = Young(rpm)
    /\ tpm' = Young(tpm)
    /\ total' = StoredTotal(PrunedTotal)
    /\ UNCHANGED <<age, granted, slotVars, callVars>>

\* USAGE_SCRIPT: the monitoring read prunes as well.
GetUsage ==
    /\ rpm' = Young(rpm)
    /\ tpm' = Young(tpm)
    /\ total' = StoredTotal(PrunedTotal)
    /\ UNCHANGED <<age, granted, slotVars, callVars>>

\* The provider answers, fails or is aborted; a success writes its row now.
Finish(c) ==
    /\ call[c] = "inflight"
    /\ call' = [call EXCEPT ![c] = "ending"]
    /\ UNCHANGED <<windowVars, slotVars, elapsed, overdue>>

\* A call that holds a slot ends; the last one leaves no overdue call behind.
Holding == {c \in Reserving : call[c] # "idle"}
Ends(c) ==
    /\ call' = [call EXCEPT ![c] = "idle"]
    /\ overdue' = (overdue /\ Holding \ {c} # {})

\* RELEASE_SCRIPT in the call's finally: floored at zero.
Release(c) ==
    /\ call[c] = "ending"
    /\ Ends(c)
    /\ \/ c \notin Reserving /\ UNCHANGED slotVars
       \/ /\ c \in Reserving
          /\ slots' = IF slots <= 1 THEN 0 ELSE slots - 1
          /\ slotTTL' = IF slots <= 1 THEN 0 ELSE SlotTTL
    /\ UNCHANGED <<windowVars, elapsed>>

\* The process dies in the middle of a call: nobody releases its slot.
Crash(c) ==
    /\ call[c] # "idle"
    /\ Ends(c)
    /\ UNCHANGED <<windowVars, slotVars, elapsed>>

\* The abort timer ends a call in time, and the release follows.
InTime ==
    \A c \in Calls :
       /\ call[c] = "inflight" => elapsed[c] < CallTimeout
       /\ call[c] = "ending" => elapsed[c] < CallTimeout + ReleaseDelay

\* The counter's key expires as a whole; without a TTL it never does.
SlotsAfterTick == IF slotTTL = 1 THEN 0 ELSE slots

Tick ==
    /\ InTime
    /\ age' = [c \in Calls |-> IF age[c] < Window THEN age[c] + 1 ELSE Window]
    /\ granted' = {c \in granted : age[c] + 1 < Window}
    /\ elapsed' = [c \in Calls |-> IF call[c] # "idle" THEN elapsed[c] + 1 ELSE 0]
    /\ slotTTL' = IF slotTTL > 0 THEN slotTTL - 1 ELSE 0
    /\ slots' = SlotsAfterTick
    /\ overdue' = (overdue \/ \E c \in Holding : elapsed[c] + 1 >= SlotTTL)
    /\ UNCHANGED <<rpm, tpm, total, call>>

Next ==
    \/ \E c \in Calls :
          \/ AcquireGranted(c) \/ AcquireRefused(c)
          \/ Finish(c) \/ Release(c) \/ Crash(c)
    \/ GetUsage
    \/ Tick

Spec == Init /\ [][Next]_vars

\* Calls end by their timeout, and time passes.
FairSpec == Spec /\ WF_vars(Tick)
            /\ \A c \in Calls : WF_vars(Finish(c)) /\ WF_vars(Release(c))

-----------------------------------------------------------------------------
(* Properties.                                                              *)

\* The type of total is a part of TpmBound.
TypeOK ==
    /\ rpm \subseteq Calls /\ tpm \subseteq Calls /\ granted \subseteq Calls
    /\ age \in [Calls -> 0..Window]
    /\ slots \in Nat /\ slotTTL \in 0..SlotTTL
    /\ call \in [Calls -> {"idle", "inflight", "ending"}]
    /\ elapsed \in [Calls -> 0..(CallTimeout + ReleaseDelay)]
    /\ overdue \in BOOLEAN

InFlight == {c \in Reserving : call[c] = "inflight"}

\* No window of Window ticks, wherever it begins, holds more grants than the
\* RPM limit, although entries are only pruned when a script happens to run.
RpmBound == RpmLimit > 0 => Cardinality(granted) <= RpmLimit

\* The same for the tokens of the granted calls, because the cached sum never
\* drifts from the members it stands for.
TpmBound ==
    /\ TpmLimit > 0 => TokensOf(granted) <= TpmLimit
    /\ TokensOf(tpm) = IF total >= 0 THEN total ELSE 0

\* Every call in flight is counted, crashes and expiries included, unless one
\* of the calls took as long as the counter lives; the miscount then ends with
\* the calls that ran beside it.  The counter itself never passes the limit.
SlotsCoverCalls ==
    /\ ~overdue => Cardinality(InFlight) <= slots
    /\ ConcurrencyLimit > 0 => slots <= ConcurrencyLimit

\* A refusal for RPM or TPM names the first tick at which the same request
\* would pass that check, if nothing else is granted: not a tick later (idle
\* capacity), not a tick earlier (a useless poll).
StillIn(S, w) == {m \in Young(S) : age[m] + w < Window}
RpmPasses(w) == RpmLimit > 0 => Cardinality(StillIn(rpm, w)) + 1 <= RpmLimit
TpmPasses(c, w) == TpmLimit > 0 => TokensOf(StillIn(tpm, w)) + Tokens[c] <= TpmLimit
RetryAfterIsExact ==
    \A c \in Calls :
       LET w == RetryAfter(c) IN
       Unused(c) =>
          /\ RpmFull => RpmPasses(w) /\ ~RpmPasses(w - 1)
          /\ (~RpmFull /\ TpmFull(c) /\ Tokens[c] <= TpmLimit) =>
                TpmPasses(c, w) /\ ~TpmPasses(c, w - 1)

\* Slots lost to crashes cannot keep the key closed.
LeakNeverBlocks == (slots >= ConcurrencyLimit) ~> (slots < ConcurrencyLimit)
=============================================================================
