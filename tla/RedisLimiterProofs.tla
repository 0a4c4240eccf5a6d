------------------------- MODULE RedisLimiterProofs -------------------------
(***************************************************************************)
(* Theorems about RedisLimiter for any set of calls, any tokens, limits,   *)
(* window and TTL.  The sums of tokens, which are folds, are shown to be   *)
(* cardinalities of sets of units first.                                   *)
(***************************************************************************)
EXTENDS RedisLimiter, FiniteSetTheorems, TLAPS

-----------------------------------------------------------------------------
(* Type correctness.                                                        *)

LEMMA YoungSubset == ASSUME NEW S PROVE Young(S) \subseteq S
BY DEF Young

LEMMA EndsTyped ==
  ASSUME TypeOK, NEW c \in Calls, Ends(c)
  PROVE  call' \in [Calls -> {"idle", "inflight", "ending"}] /\ overdue' \in BOOLEAN
<1>1. call' \in [Calls -> {"idle", "inflight", "ending"}]
  BY DEF Ends, TypeOK
<1>2. overdue' \in BOOLEAN
  BY DEF Ends
<1> QED
  BY <1>1, <1>2

LEMMA TypeStep == TypeOK /\ [Next]_vars => TypeOK'
<1> SUFFICES ASSUME TypeOK, [Next]_vars PROVE TypeOK'
  OBVIOUS
<1> USE LimiterAssumption DEF TypeOK, windowVars, slotVars, callVars
<1>1. ASSUME NEW c \in Calls, AcquireGranted(c) PROVE TypeOK'
  <2>1. rpm' \subseteq Calls /\ tpm' \subseteq Calls /\ granted' \subseteq Calls
    BY <1>1, YoungSubset DEF AcquireGranted
  <2>2. slots' \in Nat /\ slotTTL' \in 0..SlotTTL
    BY <1>1 DEF AcquireGranted, TtlAfterAcquire
  <2> QED
    BY <1>1, <2>1, <2>2 DEF AcquireGranted
<1>2. ASSUME NEW c \in Calls, AcquireRefused(c) PROVE TypeOK'
  BY <1>2, YoungSubset DEF AcquireRefused
<1>3. ASSUME NEW c \in Calls, Finish(c) PROVE TypeOK'
  BY <1>3 DEF Finish
<1>4. ASSUME NEW c \in Calls, Release(c) PROVE TypeOK'
  <2>1. slots' \in Nat /\ slotTTL' \in 0..SlotTTL
    BY <1>4 DEF Release
  <2> QED
    BY <1>4, <2>1, EndsTyped DEF Release
<1>5. ASSUME NEW c \in Calls, Crash(c) PROVE TypeOK'
  BY <1>5, EndsTyped DEF Crash
<1>6. ASSUME GetUsage PROVE TypeOK'
  BY <1>6, YoungSubset DEF GetUsage
<1>7. ASSUME Tick PROVE TypeOK'
  <2>1. age' \in [Calls -> 0..Window]
    BY <1>7 DEF Tick
  <2>2. elapsed' \in [Calls -> 0..(CallTimeout + ReleaseDelay)]
    BY <1>7 DEF Tick, InTime
  <2>3. slots' \in Nat /\ slotTTL' \in 0..SlotTTL
    BY <1>7 DEF Tick, SlotsAfterTick
  <2>4. overdue' \in BOOLEAN
    BY <1>7 DEF Tick
  <2> QED
    BY <1>7, <2>1, <2>2, <2>3, <2>4 DEF Tick
<1>8. ASSUME UNCHANGED vars PROVE TypeOK'
  BY <1>8 DEF vars
<1> QED
  BY <1>1, <1>2, <1>3, <1>4, <1>5, <1>6, <1>7, <1>8 DEF Next

\* The windows hold calls, ages stay within the window, and the counter and
\* its TTL never go below zero, whatever is released.
THEOREM TypeCorrect == Spec => []TypeOK
<1>1. Init => TypeOK
  <2> SUFFICES ASSUME Init PROVE TypeOK
    OBVIOUS
  <2>1. overdue \in BOOLEAN
    BY DEF Init
  <2> QED
    BY <2>1, LimiterAssumption DEF Init, TypeOK
<1> QED
  BY <1>1, TypeStep, PTL DEF Spec

-----------------------------------------------------------------------------
(* Requests per minute.                                                     *)

\* A call granted less than a window ago is still in the sorted set: pruning
\* drops only what has left the window, whenever it happens to run.
GrantedInWindow == granted \subseteq Young(rpm)

LEMMA GrantedFinite == ASSUME TypeOK PROVE IsFiniteSet(granted) /\ Cardinality(granted) \in Nat
BY LimiterAssumption, FS_Subset, FS_CardinalityType DEF TypeOK

LEMMA YoungFinite == ASSUME TypeOK PROVE IsFiniteSet(Young(rpm)) /\ Cardinality(Young(rpm)) \in Nat
<1>1. Young(rpm) \in SUBSET Calls
  BY YoungSubset DEF TypeOK
<1> QED
  BY <1>1, LimiterAssumption, FS_Subset, FS_CardinalityType

LEMMA WindowStep == TypeOK /\ GrantedInWindow /\ [Next]_vars => GrantedInWindow'
<1> SUFFICES ASSUME TypeOK, GrantedInWindow, [Next]_vars PROVE GrantedInWindow'
  OBVIOUS
<1> USE LimiterAssumption DEF TypeOK, GrantedInWindow, Young, windowVars
<1>1. ASSUME NEW c \in Calls, AcquireGranted(c) PROVE GrantedInWindow'
  BY <1>1 DEF AcquireGranted
<1>2. ASSUME NEW c \in Calls, AcquireRefused(c) PROVE GrantedInWindow'
  BY <1>2 DEF AcquireRefused
<1>3. ASSUME NEW c \in Calls, Finish(c) \/ Release(c) \/ Crash(c) PROVE GrantedInWindow'
  BY <1>3 DEF Finish, Release, Crash
<1>4. ASSUME GetUsage PROVE GrantedInWindow'
  BY <1>4 DEF GetUsage
<1>5. ASSUME Tick PROVE GrantedInWindow'
  BY <1>5 DEF Tick
<1>6. ASSUME UNCHANGED vars PROVE GrantedInWindow'
  BY <1>6 DEF vars
<1> QED
  BY <1>1, <1>2, <1>3, <1>4, <1>5, <1>6 DEF Next

LEMMA RpmStep ==
  TypeOK /\ TypeOK' /\ GrantedInWindow /\ RpmBound /\ [Next]_vars => RpmBound'
<1> SUFFICES ASSUME TypeOK, TypeOK', GrantedInWindow, RpmBound, [Next]_vars,
                    RpmLimit > 0
             PROVE  Cardinality(granted') <= RpmLimit
  BY DEF RpmBound
<1>0. /\ IsFiniteSet(granted) /\ Cardinality(granted) \in Nat
      /\ Cardinality(granted') \in Nat
  <2>1. granted' \in SUBSET Calls
    BY DEF TypeOK
  <2> QED
    BY <2>1, GrantedFinite, LimiterAssumption, FS_Subset, FS_CardinalityType
<1>1. ASSUME NEW c \in Calls, AcquireGranted(c)
      PROVE  Cardinality(granted') <= RpmLimit
  <2>1. Cardinality(Young(rpm)) + 1 <= RpmLimit
    BY <1>1, YoungFinite, LimiterAssumption DEF AcquireGranted, RpmFull
  <2>2. granted' = granted \cup {c} /\ c \notin granted
    BY <1>1 DEF AcquireGranted, Unused
  <2>3. Cardinality(granted') = Cardinality(granted) + 1
    BY <1>0, <2>2, FS_AddElement
  <2>4. Cardinality(granted) <= Cardinality(Young(rpm))
    BY YoungFinite, FS_Subset DEF GrantedInWindow
  <2> QED
    BY <1>0, <2>1, <2>3, <2>4, YoungFinite, LimiterAssumption
<1>2. ASSUME granted' \subseteq granted PROVE Cardinality(granted') <= RpmLimit
  <2>1. Cardinality(granted') <= Cardinality(granted)
    BY <1>0, <1>2, FS_Subset
  <2> QED
    BY <1>0, <2>1, LimiterAssumption DEF RpmBound
<1>3. ASSUME NEW c \in Calls,
             AcquireRefused(c) \/ Finish(c) \/ Release(c) \/ Crash(c)
      PROVE  granted' \subseteq granted
  BY <1>3 DEF AcquireRefused, Finish, Release, Crash, windowVars
<1>4. ASSUME GetUsage \/ Tick \/ UNCHANGED vars PROVE granted' \subseteq granted
  BY <1>4 DEF GetUsage, Tick, vars, windowVars
<1> QED
  BY <1>1, <1>2, <1>3, <1>4 DEF Next

\* Any window of Window ticks, wherever it begins, holds at most RpmLimit
\* grants.
THEOREM RpmBounded == Spec => []RpmBound
<1>1. Init => GrantedInWindow /\ RpmBound
  BY FS_EmptySet, LimiterAssumption DEF Init, GrantedInWindow, RpmBound
<1> QED
  BY <1>1, TypeCorrect, WindowStep, RpmStep, PTL DEF Spec

-----------------------------------------------------------------------------
(* The concurrency counter.                                                 *)

SlotLimit == ConcurrencyLimit > 0 => slots <= ConcurrencyLimit

\* Unless a call took too long, the calls that hold a slot are counted, in
\* flight or ended and not yet released, ...
HoldingCovered == ~overdue => Cardinality(Holding) <= slots

\* ... and the key outlives every one of them: each grant sets the TTL anew.
TtlCovers ==
    ~overdue => \A c \in Holding :
                   elapsed[c] < SlotTTL /\ elapsed[c] + slotTTL >= SlotTTL

SlotInv == SlotLimit /\ HoldingCovered /\ TtlCovers

LEMMA HoldingFinite ==
  /\ IsFiniteSet(Holding) /\ Cardinality(Holding) \in Nat
  /\ IsFiniteSet(Holding') /\ Cardinality(Holding') \in Nat
<1>1. Holding \in SUBSET Calls /\ Holding' \in SUBSET Calls
  BY LimiterAssumption DEF Holding
<1> QED
  BY <1>1, LimiterAssumption, FS_Subset, FS_CardinalityType

\* With no call holding a slot there is nothing to cover.
LEMMA NoHolder ==
  ASSUME Holding' = {}, slots' \in Nat
  PROVE  HoldingCovered' /\ TtlCovers'
<1>1. Cardinality(Holding') = 0
  BY FS_EmptySet
<1> QED
  BY <1>1 DEF HoldingCovered, TtlCovers

LEMMA AcquireStep ==
  ASSUME TypeOK, SlotInv, NEW c \in Calls, AcquireGranted(c)
  PROVE  SlotInv'
<1> USE LimiterAssumption DEF TypeOK, SlotInv
<1>1. call[c] = "idle" /\ call' = [call EXCEPT ![c] = "inflight"]
  BY DEF AcquireGranted, Unused
<1>2. elapsed' = [elapsed EXCEPT ![c] = 0] /\ overdue' = overdue
  BY DEF AcquireGranted
<1>3. CASE c \in Reserving
  <2>1. slots' = slots + 1 /\ slotTTL' = SlotTTL
    BY <1>3 DEF AcquireGranted, TtlAfterAcquire
  <2>2. Holding' = Holding \cup {c} /\ c \notin Holding
    BY <1>1, <1>3 DEF Holding
  <2>3. Cardinality(Holding') = Cardinality(Holding) + 1
    BY <2>2, HoldingFinite, FS_AddElement
  <2>4. SlotLimit'
    BY <1>3, <2>1 DEF AcquireGranted, SlotsFull, SlotLimit
  <2>5. HoldingCovered'
    BY <1>2, <2>1, <2>3, HoldingFinite DEF HoldingCovered
  <2>6. TtlCovers'
    BY <1>2, <2>1, <2>2 DEF TtlCovers, Holding
  <2> QED
    BY <2>4, <2>5, <2>6
<1>4. CASE c \notin Reserving
  <2>1. Holding' = Holding /\ c \notin Holding /\ UNCHANGED slotVars
    BY <1>1, <1>4 DEF Holding, AcquireGranted
  <2> QED
    BY <1>2, <2>1 DEF SlotLimit, HoldingCovered, TtlCovers, slotVars, Holding
<1> QED
  BY <1>3, <1>4

LEMMA ReleaseStep ==
  ASSUME TypeOK, SlotInv, NEW c \in Calls, Release(c)
  PROVE  SlotInv'
<1> USE LimiterAssumption DEF TypeOK, SlotInv
<1>1. call[c] = "ending" /\ call' = [call EXCEPT ![c] = "idle"] /\ elapsed' = elapsed
  BY DEF Release, Ends
<1>2. Holding' = Holding \ {c} /\ overdue' = (overdue /\ Holding' # {})
  BY <1>1 DEF Holding, Release, Ends
<1>3. slots' \in Nat /\ SlotLimit'
  BY DEF Release, SlotLimit, slotVars
<1>4. CASE Holding' = {}
  BY <1>3, <1>4, NoHolder
<1>5. CASE Holding' # {} /\ overdue
  BY <1>2, <1>3, <1>5 DEF HoldingCovered, TtlCovers
<1>6. CASE Holding' # {} /\ ~overdue /\ c \in Reserving
  <2>1. c \in Holding /\ ~overdue'
    BY <1>1, <1>2, <1>6 DEF Holding
  <2>2. Cardinality(Holding') = Cardinality(Holding) - 1
    BY <1>2, <2>1, HoldingFinite, FS_RemoveElement
  <2>3. Cardinality(Holding') # 0
    BY <1>6, HoldingFinite, FS_EmptySet
  <2>4. slots > 1
    BY <1>6, <2>2, <2>3, HoldingFinite DEF HoldingCovered
  <2>5. slots' = slots - 1 /\ slotTTL' = SlotTTL
    BY <1>6, <2>4 DEF Release
  <2>6. HoldingCovered'
    BY <1>6, <2>2, <2>5, HoldingFinite DEF HoldingCovered
  <2>7. TtlCovers'
    BY <1>1, <1>2, <1>6, <2>5 DEF TtlCovers, Holding
  <2> QED
    BY <1>3, <2>6, <2>7
<1>7. CASE Holding' # {} /\ ~overdue /\ c \notin Reserving
  <2>1. Holding' = Holding /\ UNCHANGED slotVars /\ overdue' = overdue
    BY <1>2, <1>7 DEF Holding, Release
  <2> QED
    BY <1>1, <1>3, <2>1 DEF HoldingCovered, TtlCovers, slotVars
<1> QED
  BY <1>4, <1>5, <1>6, <1>7

LEMMA CrashStep ==
  ASSUME TypeOK, SlotInv, NEW c \in Calls, Crash(c)
  PROVE  SlotInv'
<1> USE DEF TypeOK, SlotInv
<1>1. Holding' = Holding \ {c} /\ UNCHANGED <<slotVars, elapsed>>
  BY DEF Crash, Ends, Holding
<1>2. overdue' = (overdue /\ Holding' # {})
  BY <1>1 DEF Crash, Ends
<1>3. slots' \in Nat /\ SlotLimit'
  BY <1>1 DEF SlotLimit, slotVars
<1>4. CASE Holding' = {}
  BY <1>3, <1>4, NoHolder
<1>5. CASE Holding' # {}
  <2>1. Cardinality(Holding') <= Cardinality(Holding)
    BY <1>1, HoldingFinite, FS_Subset
  <2>2. HoldingCovered'
    BY <1>1, <1>2, <1>5, <2>1, HoldingFinite DEF HoldingCovered, slotVars
  <2>3. TtlCovers'
    BY <1>1, <1>2, <1>5 DEF TtlCovers, slotVars
  <2> QED
    BY <1>3, <2>2, <2>3
<1> QED
  BY <1>4, <1>5

\* The clock: while no holder is overdue, the key has more than a tick to live.
LEMMA TickStep ==
  ASSUME TypeOK, SlotInv, Tick
  PROVE  SlotInv'
<1> USE LimiterAssumption DEF TypeOK, SlotInv
<1>1. Holding' = Holding
  BY DEF Tick, Holding
<1>2. slots' \in Nat /\ SlotLimit'
  BY DEF Tick, SlotsAfterTick, SlotLimit
<1>3. CASE Holding = {}
  BY <1>1, <1>2, <1>3, NoHolder
<1>4. CASE overdue'
  BY <1>2, <1>4 DEF HoldingCovered, TtlCovers
<1>5. CASE Holding # {} /\ ~overdue'
  <2>1. ~overdue
    BY <1>5 DEF Tick
  <2>2. ASSUME NEW c \in Holding
        PROVE  /\ elapsed[c] \in Nat /\ elapsed[c] + 1 < SlotTTL
               /\ elapsed'[c] = elapsed[c] + 1
    <3>1. elapsed[c] \in Nat /\ elapsed'[c] = elapsed[c] + 1
      BY DEF Holding, Tick
    <3>2. ~ (elapsed[c] + 1 >= SlotTTL)
      BY <1>5 DEF Tick
    <3> QED
      BY <3>1, <3>2
  <2>3. slotTTL > 1
    <3>1. PICK c \in Holding : TRUE
      BY <1>5
    <3> QED
      BY <2>1, <2>2, <3>1 DEF TtlCovers
  <2>4. slots' = slots /\ slotTTL' = slotTTL - 1
    BY <2>3 DEF Tick, SlotsAfterTick
  <2>5. HoldingCovered'
    BY <1>1, <2>1, <2>4 DEF HoldingCovered
  <2>6. TtlCovers'
    BY <1>1, <2>1, <2>2, <2>4 DEF TtlCovers
  <2> QED
    BY <1>2, <2>5, <2>6
<1> QED
  BY <1>3, <1>4, <1>5

LEMMA SlotStep == TypeOK /\ SlotInv /\ [Next]_vars => SlotInv'
<1> SUFFICES ASSUME TypeOK, SlotInv, [Next]_vars
             PROVE  SlotInv'
  OBVIOUS
<1>1. ASSUME NEW c \in Calls, Finish(c)
      PROVE  Holding' = Holding /\ UNCHANGED <<slotVars, elapsed, overdue>>
  BY <1>1 DEF Finish, Holding, TypeOK
<1>2. ASSUME NEW c \in Calls, AcquireRefused(c)
      PROVE  Holding' = Holding /\ UNCHANGED <<slotVars, elapsed, overdue>>
  BY <1>2 DEF AcquireRefused, Holding, callVars
<1>3. ASSUME GetUsage \/ UNCHANGED vars
      PROVE  Holding' = Holding /\ UNCHANGED <<slotVars, elapsed, overdue>>
  BY <1>3 DEF GetUsage, Holding, callVars, vars
<1>4. ASSUME Holding' = Holding, UNCHANGED <<slotVars, elapsed, overdue>>
      PROVE  SlotInv'
  BY <1>4 DEF SlotInv, SlotLimit, HoldingCovered, TtlCovers, slotVars
<1> QED
  BY <1>1, <1>2, <1>3, <1>4, AcquireStep, ReleaseStep, CrashStep, TickStep DEF Next

\* For any timeout, delay and TTL: while no running call has taken as long as
\* the counter lives, the counter covers the calls in flight, and it never
\* passes the limit.
THEOREM SlotsCover == Spec => []SlotsCoverCalls
<1>1. Init => SlotInv
  <2>1. ASSUME Init PROVE Holding = {}
    BY <2>1, LimiterAssumption DEF Init, Holding
  <2>2. ASSUME Init PROVE SlotLimit
    BY <2>2, LimiterAssumption DEF Init, SlotLimit
  <2>3. ASSUME Init PROVE HoldingCovered /\ TtlCovers
    <3>1. Holding = {} /\ slots = 0
      BY <2>1, <2>3 DEF Init
    <3> QED
      BY <3>1, FS_EmptySet DEF HoldingCovered, TtlCovers
  <2> QED
    BY <2>2, <2>3 DEF SlotInv
<1>2. TypeOK /\ SlotInv => SlotsCoverCalls
  <2> SUFFICES ASSUME TypeOK, SlotInv PROVE SlotsCoverCalls
    OBVIOUS
  <2>1. InFlight \in SUBSET Holding
    BY DEF InFlight, Holding
  <2>2. Cardinality(InFlight) <= Cardinality(Holding) /\ Cardinality(InFlight) \in Nat
    BY <2>1, HoldingFinite, FS_Subset, FS_CardinalityType
  <2> QED
    BY <2>2, HoldingFinite DEF SlotInv, SlotLimit, HoldingCovered, SlotsCoverCalls, TypeOK
<1> QED
  BY <1>1, <1>2, TypeCorrect, SlotStep, PTL DEF Spec

-----------------------------------------------------------------------------
(* Sums of tokens.  A fold of a finite set is not for the provers, the      *)
(* cardinality of a set is: the sum counts the tokens of all members.       *)

Units(S) == {p \in Calls \X Nat : p[1] \in S /\ p[2] < Tokens[p[1]]}
Weight(S) == Cardinality(Units(S))

\* Induction on the subsets of Calls.
LEMMA SubsetInduction ==
  ASSUME NEW X, \A S \in SUBSET Calls : (\A T \in SUBSET S : T # S => T \in X) => S \in X
  PROVE  SUBSET Calls \subseteq X
<1> DEFINE R == StrictSubsetOrdering(Calls)
           Out == (SUBSET Calls) \ X
<1>1. IsWellFoundedOn(R, SUBSET Calls)
  BY FS_StrictSubsetOrderingWellFounded, FS_FiniteSubsetsOfFinite, LimiterAssumption
<1>2. SUFFICES ASSUME Out # {} PROVE FALSE
  OBVIOUS
<1>3. PICK S \in Out : \A T \in Out : ~(<<T, S>> \in R)
  <2> HIDE DEF R
  <2>1. Out \subseteq SUBSET Calls
    OBVIOUS
  <2> HIDE DEF Out
  <2> QED BY <1>1, <1>2, <2>1, WFMin
<1>4. ASSUME NEW T \in SUBSET S, T # S PROVE T \in X
  <2>1. <<T, S>> \in R
    BY <1>3, <1>4 DEF StrictSubsetOrdering
  <2> QED BY <1>3, <2>1
<1> QED BY <1>3, <1>4

LEMMA UnitsOfOne ==
  ASSUME NEW c \in Calls
  PROVE  IsFiniteSet(Units({c})) /\ Weight({c}) = Tokens[c]
<1> DEFINE n == Tokens[c]
           I == 0..(n - 1)
<1>1. n \in Nat
  BY LimiterAssumption
<1>2. IsFiniteSet(I) /\ Cardinality(I) = n
  <2>1. ASSUME NEW k \in Nat PROVE IsFiniteSet(0..(k - 1)) /\ Cardinality(0..(k - 1)) = k
    <3>1. 0 \in Int /\ k - 1 \in Int
      OBVIOUS
    <3>2. Cardinality(0..(k - 1)) = IF 0 > k - 1 THEN 0 ELSE (k - 1) - 0 + 1
      BY <3>1, FS_Interval
    <3> QED
      BY <3>1, <3>2, FS_Interval
  <2> QED
    BY <1>1, <2>1
<1>3. Units({c}) = {c} \X I
  BY <1>1 DEF Units
<1>4. IsFiniteSet({c}) /\ Cardinality({c}) = 1
  BY FS_Singleton
<1> HIDE DEF I
<1>5. IsFiniteSet({c} \X I) /\ Cardinality({c} \X I) = 1 * n
  BY <1>2, <1>4, FS_Product
<1> HIDE DEF n
<1>6. 1 * n = n
  BY <1>1
<1>7. IsFiniteSet(Units({c})) /\ Weight({c}) = n
  BY <1>3, <1>5, <1>6 DEF Weight
<1> QED BY <1>7 DEF n

LEMMA UnitsFinite ==
  ASSUME NEW S, S \subseteq Calls PROVE IsFiniteSet(Units(S))
<1> DEFINE X == {T \in SUBSET Calls : IsFiniteSet(Units(T))}
<1>1. ASSUME NEW T \in SUBSET Calls, \A U \in SUBSET T : U # T => U \in X PROVE T \in X
  <2>1. CASE T = {}
    <3>1. Units(T) = {}
      BY <2>1 DEF Units
    <3> QED BY <3>1, FS_EmptySet
  <2>2. CASE T # {}
    <3>1. PICK c \in T : TRUE
      BY <2>2
    <3>2. Units(T) = Units(T \ {c}) \cup Units({c})
      BY <3>1 DEF Units
    <3>3. IsFiniteSet(Units(T \ {c}))
      BY <1>1, <3>1
    <3>4. IsFiniteSet(Units({c}))
      BY <3>1, UnitsOfOne
    <3> QED BY <3>2, <3>3, <3>4, FS_Union
  <2> QED BY <2>1, <2>2
<1> HIDE DEF X
<1>2. SUBSET Calls \subseteq X
  BY <1>1, SubsetInduction
<1> QED BY <1>2 DEF X

LEMMA WeightFacts ==
  /\ Weight({}) = 0
  /\ \A S \in SUBSET Calls : Weight(S) \in Nat
  /\ \A S \in SUBSET Calls : \A T \in SUBSET S : Weight(S \ T) = Weight(S) - Weight(T)
  /\ \A S \in SUBSET Calls : \A T \in SUBSET S : Weight(T) <= Weight(S)
<1>1. Weight({}) = 0
  <2>1. Units({}) = {}
    BY DEF Units
  <2> QED BY <2>1, FS_EmptySet DEF Weight
<1>2. \A S \in SUBSET Calls : Weight(S) \in Nat
  BY UnitsFinite, FS_CardinalityType DEF Weight
<1>3. ASSUME NEW S \in SUBSET Calls, NEW T \in SUBSET S PROVE Weight(S \ T) = Weight(S) - Weight(T)
  <2>1. Units(S \ T) = Units(S) \ Units(T) /\ Units(S) \cap Units(T) = Units(T)
    BY DEF Units
  <2>2. Cardinality(Units(S) \ Units(T)) = Cardinality(Units(S)) - Cardinality(Units(S) \cap Units(T))
    BY UnitsFinite, FS_Difference
  <2> QED BY <2>1, <2>2 DEF Weight
<1>4. ASSUME NEW S \in SUBSET Calls, NEW T \in SUBSET S PROVE Weight(T) <= Weight(S)
  <2>1. Weight(S \ T) \in Nat /\ Weight(S) \in Nat /\ Weight(T) \in Nat
    BY <1>2
  <2> QED BY <1>3, <2>1
<1> QED BY <1>1, <1>2, <1>3, <1>4

LEMMA WeightAdd ==
  ASSUME NEW S, S \subseteq Calls, NEW c \in Calls, c \notin S
  PROVE  Weight(S \cup {c}) = Weight(S) + Tokens[c]
<1>1. (S \cup {c}) \ {c} = S /\ S \cup {c} \in SUBSET Calls /\ {c} \in SUBSET (S \cup {c})
  OBVIOUS
<1>2. Weight(S) = Weight(S \cup {c}) - Weight({c})
  BY <1>1, WeightFacts
<1>3. Weight(S \cup {c}) \in Nat /\ Weight(S) \in Nat /\ Weight({c}) = Tokens[c] /\ Tokens[c] \in Nat
  BY <1>1, WeightFacts, UnitsOfOne, LimiterAssumption
<1> QED BY <1>2, <1>3

\* The recursion of MapThenSumSet: g adds the tokens of the subsets of S.
Adds(g, S) == g = [s \in SUBSET S |-> IF s = {} THEN 0
                                      ELSE LET x == CHOOSE x \in s : TRUE IN Tokens[x] + g[s \ {x}]]

\* The sum of MapThenSumSet, whichever member it takes first.
LEMMA SumIsWeight ==
  ASSUME NEW S, S \subseteq Calls PROVE TokensOf(S) = Weight(S)
<1> DEFINE w == [s \in SUBSET S |-> Weight(s)]
           h == CHOOSE g : Adds(g, S)
<1>1. TokensOf(S) = h[S]
  BY DEF TokensOf, MapThenSumSet, MapThenFoldSet, Adds
<1>2. Adds(w, S)
  <2>1. ASSUME NEW s \in SUBSET S, s # {}
        PROVE  LET x == CHOOSE x \in s : TRUE IN Weight(s) = Tokens[x] + w[s \ {x}]
    <3> DEFINE x == CHOOSE x \in s : TRUE
    <3>1. x \in s
      BY <2>1
    <3> HIDE DEF x
    <3>2. (s \ {x}) \cup {x} = s /\ x \in Calls /\ s \ {x} \in SUBSET S /\ s \ {x} \subseteq Calls
      BY <3>1
    <3>3. Weight(s) = Weight(s \ {x}) + Tokens[x]
      BY <3>2, WeightAdd
    <3>4. Weight(s \ {x}) \in Nat /\ Tokens[x] \in Nat /\ w[s \ {x}] = Weight(s \ {x})
      BY <3>2, WeightFacts, LimiterAssumption
    <3>5. Weight(s) = Tokens[x] + w[s \ {x}]
      BY <3>3, <3>4
    <3> QED BY <3>5 DEF x
  <2>2. \A s \in SUBSET S : Weight(s) = IF s = {} THEN 0
                                        ELSE LET x == CHOOSE x \in s : TRUE IN Tokens[x] + w[s \ {x}]
    BY <2>1, WeightFacts
  <2> QED BY <2>2 DEF Adds
<1>3. Adds(h, S)
  BY <1>2
<1> HIDE DEF h, w
<1> DEFINE X == {s \in SUBSET Calls : s \subseteq S => h[s] = Weight(s)}
<1>4. ASSUME NEW s \in SUBSET Calls, \A t \in SUBSET s : t # s => t \in X PROVE s \in X
  <2> SUFFICES ASSUME s \subseteq S PROVE h[s] = Weight(s)
    OBVIOUS
  <2>1. CASE s = {}
    BY <1>3, <2>1, WeightFacts DEF Adds
  <2>2. CASE s # {}
    <3> DEFINE x == CHOOSE x \in s : TRUE
    <3>1. x \in s
      BY <2>2
    <3>2. h[s] = Tokens[x] + h[s \ {x}]
      BY <1>3, <2>2 DEF Adds
    <3> HIDE DEF x
    <3>3. (s \ {x}) \cup {x} = s /\ x \in Calls /\ s \ {x} \subseteq Calls /\ s \ {x} # s
      BY <3>1
    <3>4. h[s \ {x}] = Weight(s \ {x})
      BY <1>4, <3>3
    <3>5. Weight(s) = Weight(s \ {x}) + Tokens[x]
      BY <3>3, WeightAdd
    <3>6. Weight(s \ {x}) \in Nat /\ Tokens[x] \in Nat
      BY <3>3, WeightFacts, LimiterAssumption
    <3> QED BY <3>2, <3>4, <3>5, <3>6
  <2> QED BY <2>1, <2>2
<1> HIDE DEF X
<1>5. SUBSET Calls \subseteq X
  BY <1>4, SubsetInduction
<1>6. h[S] = Weight(S)
  BY <1>5 DEF X
<1> QED BY <1>1, <1>6
-----------------------------------------------------------------------------
(* Tokens per minute.                                                       *)

\* What was granted less than a window ago is what the two sets still hold.
Exact == granted = Young(rpm) /\ granted = Young(tpm)

\* The cached sum stands for the members of its set.
SumKept == total \in Int /\ Weight(tpm) = (IF total >= 0 THEN total ELSE 0)

TokInv == Exact /\ SumKept /\ (TpmLimit > 0 => Weight(granted) <= TpmLimit)

LEMMA Subsets ==
  ASSUME TypeOK PROVE /\ tpm \in SUBSET Calls /\ Young(tpm) \in SUBSET Calls
                      /\ rpm \in SUBSET Calls /\ Young(rpm) \in SUBSET Calls
                      /\ granted \in SUBSET Calls
BY DEF TypeOK, Young

LEMMA PrunedIsWeight ==
  ASSUME TypeOK, SumKept PROVE PrunedTotal = Weight(Young(tpm))
<1> DEFINE kept == Young(tpm)
           gone == tpm \ kept
<1>1. kept \in SUBSET tpm /\ tpm \in SUBSET Calls /\ gone \in SUBSET Calls /\ kept \in SUBSET Calls
  BY YoungSubset, Subsets
<1>2. TokensOf(gone) = Weight(gone) /\ TokensOf(kept) = Weight(kept)
  BY <1>1, SumIsWeight
<1>3. Weight(gone) = Weight(tpm) - Weight(kept)
  BY <1>1, WeightFacts
<1>4. Weight(tpm) \in Nat /\ Weight(kept) \in Nat /\ Weight(gone) \in Nat
  BY <1>1, WeightFacts
<1>5. kept = {} => Weight(kept) = 0
  BY WeightFacts
<1>6. PrunedTotal = IF kept = {} THEN 0
                    ELSE LET sum == IF total >= 0 THEN total - TokensOf(gone) ELSE TokensOf(kept)
                         IN  IF sum > 0 THEN sum ELSE 0
  BY DEF PrunedTotal
<1>7. total \in Int /\ Weight(tpm) = IF total >= 0 THEN total ELSE 0
  BY DEF SumKept
<1>8. PrunedTotal = Weight(kept)
  <2> HIDE DEF kept, gone
  <2>1. CASE kept = {}
    BY <1>5, <1>6, <2>1
  <2>2. CASE kept # {} /\ total >= 0
    BY <1>2, <1>3, <1>4, <1>6, <1>7, <2>2
  <2>3. CASE kept # {} /\ ~(total >= 0)
    BY <1>2, <1>4, <1>6, <2>3
  <2> QED BY <2>1, <2>2, <2>3
<1> QED BY <1>8

\* A script leaves the sum of what it leaves in the set.
LEMMA Stored ==
  ASSUME NEW n \in Nat, total' = StoredTotal(n), Weight(tpm') = n PROVE SumKept'
BY DEF StoredTotal, SumKept

LEMMA TokenPrune ==
  ASSUME TypeOK, TokInv, rpm' = Young(rpm), tpm' = Young(tpm), total' = StoredTotal(PrunedTotal),
         UNCHANGED <<age, granted>>
  PROVE  TokInv'
<1>1. Weight(Young(tpm)) \in Nat /\ PrunedTotal = Weight(Young(tpm))
  BY Subsets, WeightFacts, PrunedIsWeight DEF TokInv
<1>2. SumKept'
  BY <1>1, Stored
<1>3. Exact'
  BY DEF TokInv, Exact, Young
<1> QED BY <1>2, <1>3 DEF TokInv

LEMMA TokenGrant ==
  ASSUME TypeOK, TokInv, NEW c \in Calls, AcquireGranted(c) PROVE TokInv'
<1>1. /\ rpm' = Young(rpm) \cup {c} /\ tpm' = Young(tpm) \cup {c} /\ granted' = granted \cup {c}
      /\ total' = StoredTotal(PrunedTotal + Tokens[c]) /\ age' = [age EXCEPT ![c] = 0]
      /\ c \notin rpm /\ c \notin tpm /\ c \notin granted /\ ~TpmFull(c)
  BY DEF AcquireGranted, Unused
<1>2. Weight(Young(tpm)) \in Nat /\ PrunedTotal = Weight(Young(tpm)) /\ Tokens[c] \in Nat
  BY Subsets, WeightFacts, PrunedIsWeight, LimiterAssumption DEF TokInv
<1>3. c \notin Young(tpm) /\ Young(tpm) \subseteq Calls
  BY <1>1, Subsets, YoungSubset
<1>4. Weight(tpm') = Weight(Young(tpm)) + Tokens[c]
  BY <1>1, <1>3, WeightAdd
<1>5. SumKept'
  <2> DEFINE n == PrunedTotal + Tokens[c]
  <2>1. n \in Nat /\ total' = StoredTotal(n) /\ Weight(tpm') = n
    BY <1>1, <1>2, <1>4
  <2> HIDE DEF n
  <2> QED BY <2>1, Stored
<1>6. Exact'
  <2>1. 0 < Window /\ age'[c] = 0 /\ \A d \in Calls \ {c} : age'[d] = age[d]
    BY <1>1, LimiterAssumption DEF TypeOK
  <2>2. \A S : c \notin S /\ S \subseteq Calls => Young(Young(S) \cup {c})' = Young(S) \cup {c}
    BY <2>1 DEF Young
  <2> QED BY <1>1, <2>1, Subsets DEF TokInv, Exact, Young
<1>7. granted' = tpm'
  BY <1>1 DEF TokInv, Exact
<1>8. TpmLimit > 0 => Weight(granted') <= TpmLimit
  <2>1. TpmLimit > 0 => ~(PrunedTotal + Tokens[c] > TpmLimit)
    BY <1>1 DEF TpmFull
  <2>2. Weight(granted') = PrunedTotal + Tokens[c]
    BY <1>2, <1>4, <1>7
  <2>3. TpmLimit \in Int
    BY LimiterAssumption
  <2> QED BY <1>2, <2>1, <2>2, <2>3
<1> QED BY <1>5, <1>6, <1>8 DEF TokInv

LEMMA TokenTick ==
  ASSUME TypeOK, TokInv, Tick PROVE TokInv'
<1>1. /\ UNCHANGED <<rpm, tpm, total>> /\ granted' = {c \in granted : age[c] + 1 < Window}
      /\ \A c \in Calls : age'[c] = IF age[c] < Window THEN age[c] + 1 ELSE Window
  BY DEF Tick
<1>2. \A c \in Calls : age'[c] < Window <=> age[c] + 1 < Window
  BY <1>1, LimiterAssumption DEF TypeOK
<1>3. \A c \in Calls : age[c] + 1 < Window => age[c] < Window
  BY LimiterAssumption DEF TypeOK
<1>4. Exact'
  BY <1>1, <1>2, <1>3 DEF TokInv, Exact, Young, TypeOK
<1>5. TpmLimit > 0 => Weight(granted') <= TpmLimit
  <2>1. granted' \in SUBSET granted /\ granted \in SUBSET Calls /\ granted' \in SUBSET Calls
    BY <1>1, Subsets
  <2>2. Weight(granted') <= Weight(granted) /\ Weight(granted) \in Nat /\ Weight(granted') \in Nat
    BY <2>1, WeightFacts
  <2> QED BY <2>2, LimiterAssumption DEF TokInv
<1>6. SumKept'
  BY <1>1 DEF TokInv, SumKept, Weight, Units
<1> QED BY <1>4, <1>5, <1>6 DEF TokInv

LEMMA TokenInitially == Init => TokInv
<1> SUFFICES ASSUME Init PROVE TokInv
  OBVIOUS
<1>1. Exact /\ SumKept
  BY WeightFacts DEF Init, Exact, Young, SumKept
<1> QED BY <1>1, WeightFacts, LimiterAssumption DEF Init, TokInv

LEMMA TokenStep == TypeOK /\ TokInv /\ [Next]_vars => TokInv'
<1> SUFFICES ASSUME TypeOK, TokInv, [Next]_vars PROVE TokInv'
  OBVIOUS
<1>1. ASSUME UNCHANGED windowVars PROVE TokInv'
  BY <1>1 DEF windowVars, TokInv, Exact, Young, SumKept, Weight, Units
<1>2. ASSUME NEW c \in Calls, Finish(c) \/ Release(c) \/ Crash(c) PROVE UNCHANGED windowVars
  BY <1>2 DEF Finish, Release, Crash
<1>3. ASSUME NEW c \in Calls, AcquireRefused(c) PROVE TokInv'
  BY <1>3, TokenPrune DEF AcquireRefused
<1>4. ASSUME GetUsage PROVE TokInv'
  BY <1>4, TokenPrune DEF GetUsage
<1> QED
  BY <1>1, <1>2, <1>3, <1>4, TokenGrant, TokenTick DEF Next, vars

\* RedisLimiter's TpmBound for any calls of any size: no window, wherever
\* it begins, holds grants of more than TpmLimit tokens, and the cached sum is
\* always that of the members of the set it stands for.
THEOREM TpmBounded == Spec => []TpmBound
<1>1. TypeOK /\ TokInv => TpmBound
  BY SumIsWeight, Subsets DEF TokInv, SumKept, TpmBound
<1> QED
  BY <1>1, TypeCorrect, TokenInitially, TokenStep, PTL DEF Spec
-----------------------------------------------------------------------------
(* The hint of a refusal.                                                   *)

LEMMA MinFound ==
  ASSUME NEW S, S \subseteq Nat, S # {}
  PROVE  Min(S) \in S /\ \A x \in S : Min(S) <= x
<1> DEFINE R == {p \in Nat \X Nat : p[1] < p[2]}
<1>1. IsWellFoundedOn(R, Nat)
  BY NatLessThanWellFounded DEF OpToRel
<1>2. PICK m \in S : \A y \in S : ~(<<y, m>> \in R)
  <2> HIDE DEF R
  <2> QED BY <1>1, WFMin
<1>3. ASSUME NEW y \in S PROVE m <= y
  <2>1. y \in Nat /\ m \in Nat /\ (<<y, m>> \in R <=> y < m)
    OBVIOUS
  <2> QED BY <1>2, <2>1
<1> QED BY <1>3 DEF Min

LEMMA MaxFound ==
  ASSUME NEW n \in Nat, NEW S, S \subseteq 0..n, S # {}
  PROVE  Max(S) \in S /\ \A x \in S : x <= Max(S)
<1> DEFINE T == {n - x : x \in S}
<1>1. T \subseteq Nat /\ T # {}
  <2>1. ASSUME NEW x \in S PROVE n - x \in Nat
    <3>1. x \in 0..n
      OBVIOUS
    <3> QED BY <3>1
  <2> QED BY <2>1
<1>2. Min(T) \in T /\ \A t \in T : Min(T) <= t
  <2> HIDE DEF T
  <2> QED BY <1>1, MinFound
<1>3. PICK m \in S : Min(T) = n - m
  BY <1>2
<1>4. ASSUME NEW x \in S PROVE x <= m
  <2>1. n - x \in T /\ x \in Int /\ m \in Int
    OBVIOUS
  <2>2. n - m <= n - x
    BY <1>2, <1>3, <2>1
  <2> QED BY <2>1, <2>2
<1> QED BY <1>4 DEF Max

\* What is in the window and younger than a ticks.
Younger(S, a) == {m \in Young(S) : age[m] < a}

LEMMA StillInIsYounger ==
  ASSUME TypeOK, NEW S, S \subseteq Calls, NEW a \in 0..(Window - 1)
  PROVE  StillIn(S, Window - a) = Younger(S, a) /\ StillIn(S, (Window - a) - 1) = Younger(S, a + 1)
<1>1. \A m \in Young(S) : age[m] \in Nat
  BY DEF Young, TypeOK
<1>2. Window \in Nat /\ a \in Nat
  BY LimiterAssumption
<1>3. \A m \in Young(S) : /\ age[m] + (Window - a) < Window <=> age[m] < a
                          /\ age[m] + ((Window - a) - 1) < Window <=> age[m] < a + 1
  BY <1>1, <1>2
<1> QED BY <1>3 DEF StillIn, Younger

\* Requests: the oldest one leaves, and it had to.
LEMMA RpmExact ==
  ASSUME TypeOK, Exact, RpmBound, RpmFull, NEW c \in Calls
  PROVE  RpmPasses(RetryAfter(c)) /\ ~RpmPasses(RetryAfter(c) - 1)
<1> DEFINE in == Young(rpm)
           ages == {age[m] : m \in in}
           old == Max(ages)
<1>1. /\ in \in SUBSET Calls /\ IsFiniteSet(in) /\ Cardinality(in) \in Nat
      /\ RpmLimit > 0 /\ RpmLimit \in Int
      /\ Cardinality(in) + 1 > RpmLimit /\ Cardinality(in) <= RpmLimit
  BY Subsets, YoungFinite, LimiterAssumption DEF RpmFull, Exact, RpmBound
<1>2. in # {}
  <2> HIDE DEF in
  <2>1. in = {} => Cardinality(in) = 0
    BY FS_EmptySet
  <2> QED BY <1>1, <2>1
<1>3. \A m \in in : age[m] \in 0..(Window - 1)
  BY LimiterAssumption DEF Young, TypeOK
<1>4. old \in ages /\ (\A a \in ages : a <= old) /\ Window - 1 \in Nat
  <2>1. ages \subseteq 0..(Window - 1) /\ ages # {} /\ Window - 1 \in Nat
    BY <1>2, <1>3, LimiterAssumption
  <2> HIDE DEF ages
  <2> QED BY <2>1, MaxFound
<1>5. RetryAfter(c) = Window - old
  BY <1>2 DEF RetryAfter, OldestAge
<1>6. PICK m \in in : age[m] = old
  BY <1>4
<1>7. old \in 0..(Window - 1)
  BY <1>3, <1>6
<1>8. \A x \in in : age[x] <= old /\ age[x] \in Nat
  BY <1>3, <1>4
<1>9. /\ StillIn(rpm, RetryAfter(c)) = Younger(rpm, old)
      /\ StillIn(rpm, RetryAfter(c) - 1) = Younger(rpm, old + 1)
  <2> HIDE DEF old
  <2>1. rpm \subseteq Calls
    BY DEF TypeOK
  <2> QED BY <1>5, <1>7, <2>1, StillInIsYounger
<1> HIDE DEF old, ages
<1>10. Younger(rpm, old + 1) = in
  BY <1>7, <1>8 DEF Younger
<1>11. Younger(rpm, old) \in SUBSET (in \ {m})
  BY <1>6, <1>7 DEF Younger
<1>12. /\ Cardinality(Younger(rpm, old)) <= Cardinality(in) - 1
       /\ Cardinality(Younger(rpm, old)) \in Nat
  <2> HIDE DEF in
  <2>1. IsFiniteSet(in \ {m}) /\ Cardinality(in \ {m}) = Cardinality(in) - 1
    BY <1>1, <1>6, FS_RemoveElement
  <2> QED BY <1>11, <2>1, FS_Subset, FS_CardinalityType
<1>13. RpmPasses(RetryAfter(c))
  BY <1>1, <1>9, <1>12 DEF RpmPasses
<1>14. ~RpmPasses(RetryAfter(c) - 1)
  BY <1>1, <1>9, <1>10 DEF RpmPasses
<1> QED BY <1>13, <1>14

\* Tokens: at the age of the hint they fit, and they did not a tick before,
\* when either nothing had left yet or the next older grants had not.
LEMMA TpmExact ==
  ASSUME TypeOK, TokInv, ~RpmFull, NEW c \in Calls, TpmFull(c), Tokens[c] <= TpmLimit
  PROVE  TpmPasses(c, RetryAfter(c)) /\ ~TpmPasses(c, RetryAfter(c) - 1)
<1> DEFINE in == Young(tpm)
           ages == {age[m] : m \in in}
           Fits(a) == Weight(Younger(tpm, a)) + Tokens[c] <= TpmLimit
           enough == {a \in ages : Fits(a)}
           far == Max(enough)
<1>1. /\ in \in SUBSET Calls /\ tpm \subseteq Calls /\ Weight(in) \in Nat /\ Tokens[c] \in Nat
      /\ TpmLimit \in Int /\ TpmLimit > 0 /\ Weight(in) + Tokens[c] > TpmLimit /\ Window \in Nat
      /\ PrunedTotal = Weight(in)
  BY Subsets, WeightFacts, PrunedIsWeight, LimiterAssumption DEF TokInv, TpmFull
<1>2. \A m \in in : age[m] \in 0..(Window - 1)
  BY LimiterAssumption DEF Young, TypeOK
<1>3. ages \subseteq 0..(Window - 1) /\ ages \subseteq Nat /\ Window - 1 \in Nat
  BY <1>2, LimiterAssumption
<1>4. \A a : Younger(tpm, a) \in SUBSET in /\ Younger(tpm, a) \in SUBSET Calls
  BY <1>1 DEF Younger
<1>5. \A a : Weight(Younger(tpm, a)) \in Nat
  BY <1>4, WeightFacts
<1>6. \A a \in ages : PrunedTotal - TokensOf(Oldest(tpm, a)) = Weight(Younger(tpm, a))
  <2> SUFFICES ASSUME NEW a \in ages
               PROVE  PrunedTotal - TokensOf(Oldest(tpm, a)) = Weight(Younger(tpm, a))
    OBVIOUS
  <2>1. Oldest(tpm, a) = in \ Younger(tpm, a) /\ a \in Nat
    BY <1>2, <1>3 DEF Oldest, Younger
  <2> DEFINE O == Oldest(tpm, a)
             Y == Younger(tpm, a)
  <2>2. O \in SUBSET Calls /\ O = in \ Y /\ Y \in SUBSET in
    BY <1>1, <1>4, <2>1
  <2> HIDE DEF O, Y, in
  <2>3. TokensOf(O) = Weight(O) /\ Weight(O) = Weight(in) - Weight(Y) /\ Weight(Y) \in Nat
    BY <1>1, <2>2, SumIsWeight, WeightFacts
  <2>4. PrunedTotal - TokensOf(O) = Weight(Y)
    BY <1>1, <2>3
  <2> QED BY <2>4 DEF O, Y
<1>7. RetryAfter(c) = IF enough = {} THEN Window ELSE Window - Max(enough)
  <2>1. {a \in ages : PrunedTotal - TokensOf(Oldest(tpm, a)) + Tokens[c] <= TpmLimit} = enough
    BY <1>6
  <2> QED BY <2>1 DEF RetryAfter
<1>8. enough # {}
  <2>1. in # {}
    <3>1. in = {} => Weight(in) = 0
      BY WeightFacts
    <3> HIDE DEF in
    <3> QED BY <1>1, <3>1
  <2> DEFINE a == Min(ages)
  <2>2. a \in ages /\ \A x \in ages : a <= x
    <3>1. ages # {}
      BY <2>1
    <3> HIDE DEF ages
    <3> QED BY <1>3, <3>1, MinFound
  <2> HIDE DEF a
  <2>3. Younger(tpm, a) = {}
    <3>1. ASSUME NEW m \in in PROVE ~(age[m] < a)
      <4>1. age[m] \in ages /\ age[m] \in Nat /\ a \in Nat
        BY <1>2, <1>3, <2>2
      <4> QED BY <2>2, <4>1
    <3> QED BY <3>1 DEF Younger
  <2>4. Weight(Younger(tpm, a)) = 0
    BY <2>3, WeightFacts
  <2>5. Fits(a)
    BY <1>1, <2>4
  <2> QED BY <2>2, <2>5
<1>9. far \in enough /\ \A a \in enough : a <= far
  <2>1. enough \subseteq 0..(Window - 1)
    BY <1>3
  <2> HIDE DEF enough
  <2> QED BY <1>3, <1>8, <2>1, MaxFound
<1> HIDE DEF far
<1>10. far \in ages /\ Fits(far) /\ far \in 0..(Window - 1) /\ far \in Nat
  BY <1>3, <1>9
<1>11. RetryAfter(c) = Window - far
  BY <1>7, <1>8 DEF far
<1>12. /\ StillIn(tpm, RetryAfter(c)) = Younger(tpm, far)
       /\ StillIn(tpm, RetryAfter(c) - 1) = Younger(tpm, far + 1)
  BY <1>1, <1>10, <1>11, StillInIsYounger
<1>13. ~Fits(far + 1)
  <2> DEFINE above == {a \in ages : a > far}
  <2>1. CASE above = {}
    <3>1. \A m \in in : age[m] < far + 1
      BY <1>2, <1>10, <2>1
    <3>2. Younger(tpm, far + 1) = in
      BY <3>1 DEF Younger
    <3> QED BY <1>1, <3>2
  <2>2. CASE above # {}
    <3> DEFINE b == Min(above)
    <3>1. b \in above /\ \A x \in above : b <= x
      <4>1. above \subseteq Nat
        BY <1>3
      <4> HIDE DEF above
      <4> QED BY <2>2, <4>1, MinFound
    <3> HIDE DEF b
    <3>2. \A m \in in : age[m] < far + 1 <=> age[m] < b
      <4> SUFFICES ASSUME NEW m \in in PROVE age[m] < far + 1 <=> age[m] < b
        OBVIOUS
      <4>1. age[m] \in ages /\ age[m] \in Nat /\ b \in Nat /\ b > far
        BY <1>2, <1>3, <3>1
      <4>2. age[m] > far => b <= age[m]
        BY <3>1, <4>1
      <4> QED BY <1>10, <4>1, <4>2
    <3>3. Younger(tpm, far + 1) = Younger(tpm, b)
      BY <3>2 DEF Younger
    <3>4. ~Fits(b)
      <4>1. b \in ages /\ b \in Nat /\ b > far
        BY <1>3, <3>1
      <4>2. Fits(b) => b \in enough
        BY <4>1
      <4> HIDE DEF enough, Fits
      <4> QED BY <1>9, <1>10, <4>1, <4>2
    <3> QED BY <3>3, <3>4
  <2> QED BY <2>1, <2>2
<1>14. /\ TokensOf(Younger(tpm, far)) = Weight(Younger(tpm, far))
       /\ TokensOf(Younger(tpm, far + 1)) = Weight(Younger(tpm, far + 1))
  BY <1>4, SumIsWeight
<1>15. TpmPasses(c, RetryAfter(c))
  BY <1>10, <1>12, <1>14 DEF TpmPasses
<1>16. ~TpmPasses(c, RetryAfter(c) - 1)
  BY <1>1, <1>12, <1>13, <1>14 DEF TpmPasses
<1> QED BY <1>15, <1>16

\* RedisLimiter's RetryAfterIsExact: whatever the windows hold, a refusal
\* names the first tick at which the same request would pass.
THEOREM RetryAfterExact == Spec => []RetryAfterIsExact
<1>1. TypeOK /\ TokInv /\ RpmBound => RetryAfterIsExact
  BY RpmExact, TpmExact DEF RetryAfterIsExact, TokInv
<1> QED
  BY <1>1, TypeCorrect, TokenInitially, TokenStep, RpmBounded, PTL DEF Spec
=============================================================================
