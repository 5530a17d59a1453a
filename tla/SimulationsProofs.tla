------------------------- MODULE SimulationsProofs -------------------------
(***************************************************************************)
(* Theorems about the two simulations of MCSimulations, for every value of *)
(* the constants.                                                          *)
(*                                                                         *)
(* The circuit breaker, for any number of callers and any configurations:  *)
(* the timestamps match the state, every call is counted once, an open     *)
(* circuit lets no call through, and a closed one has counted fewer        *)
(* failures than the threshold in force, unless updateConfig lowered it    *)
(* since.  Core is what the theorems need of the types, and it is          *)
(* inductive by itself.  The failures in the window need one thing more,   *)
(* WindowInv: they are kept in the order of time, without which the ones   *)
(* that leave the window would not be a prefix.                            *)
(*                                                                         *)
(* The queue under backpressure (B!), for every set of configurations and  *)
(* every bound: no message is lost or counted twice, and the queue grows   *)
(* only within its limit.  B!TypeOK and B!Conservation are inductive       *)
(* together: the sums need the types, and that no more timers are stale    *)
(* than there are, which is in B!TypeOK, makes the count of live ones a    *)
(* natural number.                                                         *)
(*                                                                         *)
(* A behaviour of the whole is one of each simulation, so the theorems     *)
(* about each hold of the whole: the last part.                            *)
(***************************************************************************)
EXTENDS MCSimulations, FiniteSetTheorems, SequenceTheorems, WellFoundedInduction, TLAPS

Core ==
  /\ state \in CircuitState
  /\ openedAt \in Age \cup {Undefined} /\ halfOpenAt \in Age \cup {Undefined}
  /\ config \in Configs /\ manual \in Nat
  /\ call \in [Caller -> Call \cup {Undefined}]

\* The counters, which only StatsAddUp needs.
Counters == stats \in [DOMAIN ZeroStats -> Nat] /\ carried \in Nat

LEMMA AgeFacts ==
  /\ 0 \in Age /\ 0 # Undefined
  /\ \A t \in Age \cup {Undefined} : /\ Older(t) \in Age \cup {Undefined}
                                     /\ Older(t) = Undefined <=> t = Undefined
  BY CircuitAssumption DEF Age, Older

-----------------------------------------------------------------------------
(* What each action does to the circuit, in three patterns.                *)
Same   == UNCHANGED <<state, openedAt, halfOpenAt>>
Opens  == ToOpen
Closes == state' = "closed" /\ openedAt' = Undefined /\ halfOpenAt' = Undefined
Halves == TimeoutOver /\ state' = "half-open" /\ halfOpenAt' = 0 /\ openedAt' = openedAt
Ages   == state' = state /\ openedAt' = Older(openedAt) /\ halfOpenAt' = Older(halfOpenAt)

LEMMA CircuitSteps == [Next]_vars => Same \/ Opens \/ Closes \/ Halves \/ Ages
  <1> SUFFICES ASSUME [Next]_vars PROVE Same \/ Opens \/ Closes \/ Halves \/ Ages
    OBVIOUS
  <1>1. ASSUME NEW c \in Caller, Reject(c) PROVE Same
    BY <1>1 DEF Reject, circuit, Same
  <1>2. ASSUME NEW c \in Caller, Admit(c) PROVE Halves \/ Same
    BY <1>2 DEF Admit, ToHalfOpen, circuit, Halves, Same
  <1>3. ASSUME NEW c \in Caller, Succeed(c) PROVE Closes \/ Same
    BY <1>3 DEF Succeed, OnSuccess, ToClosed, circuit, Closes, Same
  <1>4. ASSUME NEW c \in Caller, FailCall(c) PROVE Opens \/ Same
    BY <1>4 DEF FailCall, OnFailure, Opens, Same
  <1>5. CASE GetStatus
    BY <1>5 DEF GetStatus, ToHalfOpen, Halves
  <1>6. CASE SetServiceDown \/ \E new \in Configs : UpdateConfig(new)
    BY <1>6 DEF SetServiceDown, UpdateConfig, circuit, Same
  <1>7. CASE ResetCircuit \/ ClearLog
    BY <1>7 DEF ResetCircuit, ClearLog, ToClosed, Closes
  <1>8. CASE TripCircuit
    BY <1>8 DEF TripCircuit, Opens
  <1>9. CASE Tick
    BY <1>9 DEF Tick, Ages
  <1>10. CASE UNCHANGED vars
    BY <1>10 DEF vars, circuit, Same
  <1> QED BY <1>1, <1>2, <1>3, <1>4, <1>5, <1>6, <1>7, <1>8, <1>9, <1>10 DEF Next

\* The types Core names, and the timestamps, in one induction.
LEMMA InitCore == Init => Core /\ TimestampsMatchState
  BY CircuitAssumption DEF Init, Core, TimestampsMatchState, CircuitState

LEMMA CallsTyped == Core /\ [Next]_vars => call' \in [Caller -> Call \cup {Undefined}]
  <1> SUFFICES ASSUME Core, [Next]_vars PROVE call' \in [Caller -> Call \cup {Undefined}]
    OBVIOUS
  <1>1. ASSUME NEW c \in Caller, Admit(c) PROVE call' \in [Caller -> Call \cup {Undefined}]
    <2>1. config.serviceLatencyMs \in Nat
      BY CircuitAssumption DEF Core, ConfigType
    <2> DEFINE new == [left |-> config.serviceLatencyMs, stateAtCall |-> state]
    <2>2. new \in Call
      BY <2>1 DEF Call, Core
    <2>3. call' = [call EXCEPT ![c] = new]
      BY <1>1 DEF Admit
    <2> HIDE DEF new
    <2> QED BY <2>2, <2>3 DEF Core
  <1>2. CASE Tick
    <2>1. \A c \in InFlight : call[c] \in Call
      BY DEF InFlight, Core
    <2>2. \A c \in InFlight : call[c].left > 0 => [call[c] EXCEPT !.left = @ - 1] \in Call
      BY <2>1 DEF Call
    <2> QED BY <1>2, <2>2 DEF Tick, Core
  <1>3. ASSUME NEW c \in Caller, Forget(c) PROVE call' \in [Caller -> Call \cup {Undefined}]
    BY <1>3 DEF Forget, Core
  <1>4. CASE UNCHANGED call
    BY <1>4 DEF Core
  <1> QED
    BY <1>1, <1>2, <1>3, <1>4
    DEF Next, Reject, Succeed, FailCall, GetStatus, SetServiceDown, ResetCircuit,
        TripCircuit, ClearLog, UpdateConfig, vars

LEMMA NextCore ==
  Core /\ TimestampsMatchState /\ [Next]_vars => Core' /\ TimestampsMatchState'
  <1> SUFFICES ASSUME Core, TimestampsMatchState, [Next]_vars
               PROVE  Core' /\ TimestampsMatchState'
    OBVIOUS
  <1>1. Same \/ Opens \/ Closes \/ Halves \/ Ages
    BY CircuitSteps
  <1>2. /\ state' \in CircuitState
        /\ openedAt' \in Age \cup {Undefined} /\ halfOpenAt' \in Age \cup {Undefined}
    BY <1>1, AgeFacts DEF Core, Same, Opens, ToOpen, Closes, Halves, Ages, CircuitState
  <1>3. TimestampsMatchState'
    BY <1>1, AgeFacts
    DEF Core, TimestampsMatchState, Same, Opens, ToOpen, Closes, Halves, TimeoutOver, Ages
  <1>4. config' \in Configs /\ manual' \in Nat
    BY DEF Core, Next, Reject, Admit, Succeed, FailCall, Forget, GetStatus, Intervene,
           SetServiceDown, ResetCircuit, TripCircuit, ClearLog, UpdateConfig, Tick, vars
  <1> QED BY <1>2, <1>3, <1>4, CallsTyped DEF Core

LEMMA CoreInvariant == Spec => [](Core /\ TimestampsMatchState)
  BY InitCore, NextCore, PTL DEF Spec

\* transitionTo and its callers stamp openedAt and halfOpenAt consistently, late
\* answers and operators included.
THEOREM Timestamps == Spec => []TimestampsMatchState
  BY CoreInvariant, PTL

-----------------------------------------------------------------------------
\* checkStateTransition and call() admit nothing to an open circuit before its
\* timeout, and nobody but an operator closes it.
THEOREM OpenCircuitBlocks == Spec => OpenBlocks
  <1>1. Core /\ [Next]_vars =>
          [state = "open" /\ ~TimeoutOver /\ manual' = manual =>
             state' = "open" /\ InFlight' \subseteq InFlight]_vars
    <2> SUFFICES ASSUME Core, Next, state = "open", ~TimeoutOver, manual' = manual
                 PROVE  state' = "open" /\ InFlight' \subseteq InFlight
      OBVIOUS
    <2>1. ASSUME NEW c \in Caller, Reject(c) \/ Admit(c)
          PROVE  state' = "open" /\ InFlight' \subseteq InFlight
      BY <2>1 DEF Reject, Admit, circuit, InFlight
    <2>2. ASSUME NEW c \in Caller, Succeed(c) \/ FailCall(c)
          PROVE  state' = "open" /\ InFlight' \subseteq InFlight
      <3>1. state' = "open"
        BY <2>2 DEF Succeed, FailCall, OnSuccess, OnFailure, ToOpen, circuit
      <3>2. InFlight' \subseteq InFlight
        BY <2>2 DEF Succeed, FailCall, Forget, InFlight, Core
      <3> QED BY <3>1, <3>2
    <2>3. ~GetStatus
      BY DEF GetStatus
    <2>4. ~Intervene
      BY DEF Intervene, Core
    <2>5. CASE Tick
      BY <2>5 DEF Tick, InFlight, Core
    <2> QED
      BY <2>1, <2>2, <2>3, <2>4, <2>5
      DEF Next, SetServiceDown, ResetCircuit, TripCircuit, ClearLog, UpdateConfig
  <1> QED BY <1>1, CoreInvariant, PTL DEF Spec, OpenBlocks

-----------------------------------------------------------------------------
(* StatsAddUp: the callers in flight are a finite set that each action     *)
(* leaves alone, enters or leaves by one caller.                           *)

LEMMA FlightFinite == IsFiniteSet(InFlight) /\ Cardinality(InFlight) \in Nat
  <1>1. InFlight \subseteq Caller
    BY DEF InFlight
  <1> QED BY <1>1, CircuitAssumption, FS_Subset, FS_CardinalityType

\* A call that comes back leaves one caller fewer in flight.
LEMMA OneLess ==
  ASSUME Core, NEW c \in Caller, Answered(c), Forget(c)
  PROVE  Cardinality(InFlight') = Cardinality(InFlight) - 1
  <1>1. InFlight' = InFlight \ {c} /\ c \in InFlight
    BY DEF Forget, Answered, InFlight, Core
  <1> QED BY <1>1, FlightFinite, FS_RemoveElement

StatsInv == Core /\ Counters /\ StatsAddUp

LEMMA InitStats == Init => StatsInv
  <1> SUFFICES ASSUME Init PROVE StatsInv
    OBVIOUS
  <1>1. Core
    BY InitCore
  <1>2. Counters
    BY DEF Init, Counters, ZeroStats
  <1>3. InFlight = {}
    BY DEF Init, InFlight
  <1>4. Cardinality(InFlight) = 0
    BY <1>3, FS_EmptySet
  <1>5. StatsAddUp
    BY <1>4 DEF Init, ZeroStats, StatsAddUp
  <1> QED BY <1>1, <1>2, <1>5 DEF StatsInv

LEMMA NextStats ==
  StatsInv /\ TimestampsMatchState /\ [Next]_vars => Counters' /\ StatsAddUp'
  <1> SUFFICES ASSUME StatsInv, [Next]_vars PROVE Counters' /\ StatsAddUp'
    OBVIOUS
  <1> DEFINE flying == Cardinality(InFlight)
  <1>a. Core /\ flying \in Nat
    BY FlightFinite DEF StatsInv
  <1>b. /\ stats \in [{"totalCalls", "totalSuccess", "totalFailure", "totalRejected",
                       "totalFallback"} -> Nat]
        /\ carried \in Nat
    BY DEF StatsInv, Counters, ZeroStats
  <1>c. stats.totalCalls + carried =
          stats.totalSuccess + stats.totalFailure + stats.totalRejected + flying
    BY DEF StatsInv, StatsAddUp
  <1>d. DOMAIN ZeroStats =
          {"totalCalls", "totalSuccess", "totalFailure", "totalRejected", "totalFallback"}
    BY DEF ZeroStats
  <1>1. ASSUME NEW c \in Caller, Reject(c) PROVE Counters' /\ StatsAddUp'
    <2>1. flying' = flying /\ carried' = carried
      BY <1>1 DEF Reject, InFlight
    <2> HIDE DEF flying
    <2>2. stats' = [stats EXCEPT !.totalCalls = @ + 1, !.totalRejected = @ + 1,
                      !.totalFallback = IF config.fallbackEnabled THEN @ + 1 ELSE @]
      BY <1>1 DEF Reject
    <2>3. Counters'
      <3> DEFINE calls     == stats.totalCalls + 1
                 rejects   == stats.totalRejected + 1
                 fallbacks == IF config.fallbackEnabled THEN stats.totalFallback + 1
                                                        ELSE stats.totalFallback
      <3>1. calls \in Nat /\ rejects \in Nat /\ fallbacks \in Nat
        BY <1>b
      <3>2. stats' = [stats EXCEPT !.totalCalls = calls, !.totalRejected = rejects,
                        !.totalFallback = fallbacks]
        BY <1>b, <2>2
      <3> HIDE DEF calls, rejects, fallbacks
      <3>3. stats' \in [{"totalCalls", "totalSuccess", "totalFailure", "totalRejected",
                         "totalFallback"} -> Nat]
        BY <1>b, <3>1, <3>2
      <3> QED BY <1>b, <1>d, <2>1, <3>3 DEF Counters
    <2>4. stats'.totalCalls + carried' =
            stats'.totalSuccess + stats'.totalFailure + stats'.totalRejected + flying'
      BY <1>a, <1>b, <1>c, <2>1, <2>2
    <2> QED BY <2>3, <2>4 DEF StatsAddUp, flying
  <1>2. ASSUME NEW c \in Caller, Admit(c) PROVE Counters' /\ StatsAddUp'
    <2>1. InFlight' = InFlight \cup {c} /\ c \notin InFlight
      <3>1. call' \in [Caller -> Call \cup {Undefined}]
        BY <1>a, CallsTyped
      <3>2. \A d \in Caller : d # c => call'[d] = call[d]
        BY <1>2, <1>a DEF Admit, Core
      <3>3. call'[c] # Undefined /\ call[c] = Undefined
        <4>1. config.serviceLatencyMs \in Nat
          BY <1>a, CircuitAssumption DEF Core, ConfigType
        <4> DEFINE new == [left |-> config.serviceLatencyMs, stateAtCall |-> state]
        <4>2. new \in Call
          BY <1>a, <4>1 DEF Call, Core
        <4>3. call' = [call EXCEPT ![c] = new] /\ call[c] = Undefined
          BY <1>2 DEF Admit
        <4> HIDE DEF new
        <4> QED BY <1>a, <4>2, <4>3, CircuitAssumption DEF Core
      <3> QED BY <3>2, <3>3 DEF InFlight
    <2>2. flying' = flying + 1
      BY <2>1, FlightFinite, FS_AddElement
    <2>3. carried' = carried /\ stats' = [stats EXCEPT !.totalCalls = @ + 1]
      BY <1>2 DEF Admit
    <2> HIDE DEF flying
    <2>4. Counters'
      BY <1>b, <1>d, <2>3 DEF Counters
    <2>5. stats'.totalCalls + carried' =
            stats'.totalSuccess + stats'.totalFailure + stats'.totalRejected + flying'
      BY <1>a, <1>b, <1>c, <2>2, <2>3
    <2> QED BY <2>4, <2>5 DEF StatsAddUp, flying
  <1>3. ASSUME NEW c \in Caller, Succeed(c) \/ FailCall(c) PROVE Counters' /\ StatsAddUp'
    <2>1. Answered(c) /\ Forget(c)
      BY <1>3 DEF Succeed, FailCall
    <2>2. flying' = flying - 1 /\ carried' = carried
      BY <1>a, <2>1, OneLess DEF Forget
    <2>3. \/ stats' = [stats EXCEPT !.totalSuccess = @ + 1]
          \/ stats' = [stats EXCEPT !.totalFailure = @ + 1]
      BY <1>3 DEF Succeed, FailCall
    <2> HIDE DEF flying
    <2>4. Counters'
      BY <1>b, <1>d, <2>2, <2>3 DEF Counters
    <2>5. stats'.totalCalls + carried' =
            stats'.totalSuccess + stats'.totalFailure + stats'.totalRejected + flying'
      BY <1>a, <1>b, <1>c, <2>2, <2>3
    <2> QED BY <2>4, <2>5 DEF StatsAddUp, flying
  <1>4. CASE ClearLog
    <2>1. stats' = ZeroStats /\ carried' = flying /\ flying' = flying
      BY <1>4 DEF ClearLog, InFlight
    <2> HIDE DEF flying
    <2>2. Counters'
      BY <1>a, <2>1 DEF Counters, ZeroStats
    <2>3. stats'.totalCalls + carried' =
            stats'.totalSuccess + stats'.totalFailure + stats'.totalRejected + flying'
      BY <1>a, <2>1 DEF ZeroStats
    <2> QED BY <2>2, <2>3 DEF StatsAddUp, flying
  <1>5. CASE Tick
    <2>1. \A c \in Caller : call'[c] # Undefined <=> call[c] # Undefined
      <3>1. \A c \in InFlight : call[c].left > 0 => [call[c] EXCEPT !.left = @ - 1] \in Call
        <4>1. \A c \in InFlight : call[c] \in Call
          BY <1>a DEF InFlight, Core
        <4> QED BY <4>1 DEF Call
      <3> QED BY <1>5, <3>1, CircuitAssumption DEF Tick, InFlight
    <2>2. InFlight' = InFlight
      BY <2>1 DEF InFlight
    <2>3. UNCHANGED <<stats, carried>>
      BY <1>5 DEF Tick
    <2> QED BY <1>b, <1>c, <1>d, <2>2, <2>3 DEF Counters, StatsAddUp
  <1>6. CASE UNCHANGED <<stats, carried, call>>
    <2>1. InFlight' = InFlight
      BY <1>6 DEF InFlight
    <2> QED BY <1>b, <1>c, <1>d, <1>6, <2>1 DEF Counters, StatsAddUp
  <1> QED
    BY <1>1, <1>2, <1>3, <1>4, <1>5, <1>6
    DEF Next, GetStatus, SetServiceDown, ResetCircuit, TripCircuit, UpdateConfig, vars

\* recordCall and the totals in call() count every call once, whatever its
\* circuit has become when it returns.
THEOREM CallsCounted == Spec => []StatsAddUp
  <1>1. StatsInv /\ TimestampsMatchState /\ [Next]_vars => (StatsInv /\ TimestampsMatchState)'
    BY NextStats, NextCore DEF StatsInv
  <1>2. Init => StatsInv /\ TimestampsMatchState
    BY InitStats, InitCore
  <1>3. StatsInv => StatsAddUp
    BY DEF StatsInv
  <1> QED BY <1>1, <1>2, <1>3, PTL DEF Spec
-----------------------------------------------------------------------------
(* ClosedBelowThreshold: the window of failures.                           *)

\* The timestamps are pushed as time passes: an earlier one is at least as old.
Ordered(ts) == \A i, j \in 1..Len(ts) : i < j => ts[j] <= ts[i]

WindowInv == failureTimestamps \in Seq(Age) /\ Ordered(failureTimestamps)

\* A set of numbers has a least one.
LEMMA Least ==
  ASSUME NEW T \in SUBSET Nat, T # {}
  PROVE  \E x \in T : \A y \in T : x <= y
  <1>1. PICK x \in T : \A y \in T : ~(<<y, x>> \in OpToRel(<, Nat))
    BY NatLessThanWellFounded, WFMin, Zenon
  <1>2. \A y \in T : ~(y < x)
    BY <1>1, Zenon DEF OpToRel
  <1> QED BY <1>2

\* The failures that have left the window are a prefix of the timestamps.
LEMMA DroppedPrefix ==
  ASSUME WindowInv, Core
  PROVE  /\ Dropped \in 0..Len(failureTimestamps)
         /\ \A i \in 1..Len(failureTimestamps) :
              i > Dropped <=> failureTimestamps[i] < config.windowMs
  <1> DEFINE n   == Len(failureTimestamps)
             win == config.windowMs
             T   == {k \in 0..n : \A i \in 1..n : i > k => failureTimestamps[i] < win}
  <1>1. n \in Nat /\ \A i \in 1..n : failureTimestamps[i] \in Nat
    BY CircuitAssumption DEF WindowInv, Age
  <1>2. win \in Nat
    BY CircuitAssumption DEF Core, ConfigType
  <1>3. T \in SUBSET Nat /\ n \in T
    BY <1>1
  <1>4. PICK k \in T : \A y \in T : k <= y
    <2> HIDE DEF T
    <2> QED BY <1>3, Least
  <1>5. \A i \in 1..n : i > k => failureTimestamps[i] < win
    BY <1>4
  <1>6. k > 0 => ~(failureTimestamps[k] < win)
    <2> SUFFICES ASSUME k > 0, failureTimestamps[k] < win PROVE FALSE
      OBVIOUS
    <2>1. k \in 1..n
      BY <1>1, <1>4
    <2>2. \A i \in 1..n : i > k - 1 => failureTimestamps[i] < win
      BY <1>5, <2>1
    <2>3. k - 1 \in T
      BY <2>1, <2>2, <1>1
    <2> QED BY <2>3, <2>1, <1>4
  <1>7. \A i \in 1..n : i <= k => ~(failureTimestamps[i] < win)
    <2> SUFFICES ASSUME NEW i \in 1..n, i <= k, failureTimestamps[i] < win PROVE FALSE
      OBVIOUS
    <2>1. k \in 1..n /\ k > 0
      BY <1>1, <1>4
    <2>2. failureTimestamps[k] <= failureTimestamps[i]
      BY <2>1, <1>1 DEF WindowInv, Ordered
    <2> QED BY <2>1, <2>2, <1>1, <1>2, <1>6
  <1>8. k \in 0..n /\ \A i \in 1..n : i > k <=> failureTimestamps[i] < win
    BY <1>1, <1>4, <1>5, <1>7
  <1> QED BY <1>8 DEF Dropped

\* A late failure enters the window behind the ones that are still in it.
LEMMA WindowOrdered ==
  ASSUME WindowInv, Core
  PROVE  Window \in Seq(Age) /\ Len(Window) \in Nat /\ Ordered(Window)
  <1> DEFINE ts == failureTimestamps
             n  == Len(ts)
             d  == Dropped
             s  == SubSeq(ts, d + 1, n)
  <1>1. d \in 0..n
    BY DroppedPrefix
  <1>2. ts \in Seq(Age) /\ n \in Nat /\ \A i \in 1..n : ts[i] \in Age
    BY DEF WindowInv
  <1>3. s \in Seq(Age) /\ Len(s) = n - d /\ \A i \in 1..(n - d) : s[i] = ts[d + i]
    <2> HIDE DEF d
    <2>1. \A i \in (d + 1)..n : i \in 1..n /\ ts[i] \in Age
      BY <1>1, <1>2
    <2>2. d + 1 \in 1..(n + 1)
      BY <1>1, <1>2
    <2> QED BY <1>1, <1>2, <2>1, <2>2, SubSeqProperties
  <1> HIDE DEF s
  <1>4. Window = Append(s, 0)
    BY DEF Window, s
  <1>5. /\ Window \in Seq(Age) /\ Len(Window) = n - d + 1
        /\ \A i \in 1..(n - d) : Window[i] = s[i]
        /\ Window[n - d + 1] = 0
    BY <1>3, <1>4, AgeFacts, AppendProperties
  <1>6. \A i \in 1..n : ts[i] \in Nat
    BY <1>2, CircuitAssumption DEF Age
  <1> HIDE DEF d
  <1>7. ASSUME NEW i \in 1..Len(Window), NEW j \in 1..Len(Window), i < j
        PROVE  Window[j] <= Window[i]
    <2>1. i \in 1..(n - d) /\ d + i \in 1..n /\ Window[i] = ts[d + i]
      BY <1>1, <1>2, <1>3, <1>5, <1>7
    <2>2. CASE j = n - d + 1
      BY <2>1, <2>2, <1>5, <1>6
    <2>3. CASE j # n - d + 1
      <3>0. j \in 1..(n - d + 1)
        BY <1>5
      <3>1. j \in 1..(n - d) /\ d + j \in 1..n
        <4> HIDE DEF n
        <4> QED BY <3>0, <2>3, <1>1, <1>2
      <3>4. Window[j] = ts[d + j]
        BY <3>1, <1>3, <1>5
      <3>2. d + i < d + j
        BY <1>1, <1>2, <1>7
      <3>3. ts[d + j] <= ts[d + i]
        BY <2>1, <3>1, <3>2 DEF WindowInv, Ordered
      <3> QED BY <2>1, <3>3, <3>4
    <2> QED BY <2>2, <2>3
  <1>8. Ordered(Window)
    BY <1>7 DEF Ordered
  <1>9. Len(Window) \in Nat
    BY <1>1, <1>2, <1>5
  <1> QED BY <1>5, <1>8, <1>9

LEMMA InitWindow == Init => WindowInv /\ ClosedBelowThreshold
  <1> SUFFICES ASSUME Init PROVE WindowInv /\ ClosedBelowThreshold
    OBVIOUS
  <1>1. failureTimestamps = <<>> /\ failures = 0
    BY DEF Init
  <1>3. ClosedBelowThreshold
    BY <1>1, EmptySeq DEF ClosedBelowThreshold
  <1>4. failureTimestamps \in Seq(Age) /\ Len(failureTimestamps) = 0
    BY <1>1, EmptySeq
  <1>5. Ordered(failureTimestamps)
    BY <1>4 DEF Ordered
  <1> QED BY <1>3, <1>4, <1>5 DEF WindowInv

\* A failure outside the half-open state keeps the order, and opens the circuit
\* when the window has reached the threshold in force.
LEMMA FailureWindow ==
  ASSUME Core, WindowInv, state # "half-open", OnFailure, config' = config
  PROVE  WindowInv' /\ ClosedBelowThreshold'
  <1>1. failureTimestamps' = Window /\ failures' = Len(Window)
    BY DEF OnFailure
  <1>2. WindowInv'
    BY <1>1, WindowOrdered DEF WindowInv
  <1>3. config.failureThreshold \in Nat /\ config \in Configs
    BY CircuitAssumption DEF Core, ConfigType
  <1>4. Len(Window) \in Nat
    BY WindowOrdered
  <1>5. CASE Len(Window) >= config.failureThreshold
    BY <1>2, <1>5 DEF OnFailure, ToOpen, ClosedBelowThreshold
  <1>6. CASE Len(Window) < config.failureThreshold
    <2>1. failures' = Len(failureTimestamps')
      BY <1>1
    <2>2. failures' < config.failureThreshold
      BY <1>1, <1>6
    <2> QED BY <1>2, <1>3, <2>1, <2>2 DEF ClosedBelowThreshold
  <1> QED BY <1>2, <1>3, <1>4, <1>5, <1>6

\* Time makes every timestamp older and keeps their order.
LEMMA TickWindow ==
  ASSUME Core, WindowInv, ClosedBelowThreshold, Tick
  PROVE  WindowInv' /\ ClosedBelowThreshold'
  <1> DEFINE n  == Len(failureTimestamps)
             ts == failureTimestamps
  <1>1. n \in Nat /\ DOMAIN ts = 1..n /\ \A i \in 1..n : ts[i] \in Age
    BY DEF WindowInv
  <1>2. failureTimestamps' = [i \in 1..n |-> Older(ts[i])]
    BY <1>1 DEF Tick
  <1>3. \A t \in Age : Older(t) \in Age
    BY CircuitAssumption DEF Age, Older
  <1>4. \A s, t \in Age : s <= t => Older(s) <= Older(t)
    BY CircuitAssumption DEF Age, Older
  <1>5. failureTimestamps' \in Seq(Age) /\ Len(failureTimestamps') = n
    <2>1. \A i \in 1..n : Older(ts[i]) \in Age
      BY <1>1, <1>3
    <2> HIDE DEF ts, n
    <2>2. [i \in 1..n |-> Older(ts[i])] \in [1..n -> Age]
      BY <2>1
    <2> QED BY <1>1, <1>2, <2>2, SeqDef, LenProperties
  <1>6. \A i \in 1..n : failureTimestamps'[i] = Older(ts[i])
    BY <1>2
  <1>7. Ordered(failureTimestamps')
    <2> SUFFICES ASSUME NEW i \in 1..n, NEW j \in 1..n, i < j
                 PROVE  failureTimestamps'[j] <= failureTimestamps'[i]
      BY <1>5 DEF Ordered
    <2>1. ts[j] <= ts[i]
      BY DEF WindowInv, Ordered
    <2> QED BY <2>1, <1>1, <1>4, <1>6
  <1>8. UNCHANGED <<state, failures, lowered, config>>
    BY DEF Tick
  <1>9. ClosedBelowThreshold'
    BY <1>5, <1>8 DEF ClosedBelowThreshold
  <1> QED BY <1>5, <1>7, <1>9 DEF WindowInv

LEMMA NextWindow ==
  Core /\ WindowInv /\ ClosedBelowThreshold /\ [Next]_vars => WindowInv' /\ ClosedBelowThreshold'
  <1> SUFFICES ASSUME Core, WindowInv, ClosedBelowThreshold, [Next]_vars
               PROVE  WindowInv' /\ ClosedBelowThreshold'
    OBVIOUS
  <1> DEFINE Opened == state' = "open" /\ failureTimestamps' = failureTimestamps
             Halved == ToHalfOpen
             Stays  == UNCHANGED <<state, failures, failureTimestamps, lowered, config>>
  <1>1. ASSUME ToClosed PROVE WindowInv' /\ ClosedBelowThreshold'
    <2>1. failureTimestamps' = <<>> /\ failures' = 0
      BY <1>1 DEF ToClosed
    <2>3. failureTimestamps' \in Seq(Age) /\ Len(failureTimestamps') = 0
      BY <2>1, EmptySeq
    <2>4. ClosedBelowThreshold'
      BY <2>1, <2>3 DEF ClosedBelowThreshold
    <2>5. Ordered(failureTimestamps')
      BY <2>3 DEF Ordered
    <2> QED BY <2>3, <2>4, <2>5 DEF WindowInv
  <1>2. ASSUME Opened \/ Halved PROVE WindowInv' /\ ClosedBelowThreshold'
    BY <1>2 DEF WindowInv, ClosedBelowThreshold, ToHalfOpen
  <1>3. ASSUME Stays PROVE WindowInv' /\ ClosedBelowThreshold'
    BY <1>3 DEF WindowInv, ClosedBelowThreshold
  <1>4. ASSUME NEW c \in Caller, Reject(c) \/ Admit(c) PROVE Halved \/ Stays
    BY <1>4 DEF Reject, Admit, circuit
  <1>5. ASSUME NEW c \in Caller, Succeed(c) PROVE ToClosed \/ Stays
    BY <1>5 DEF Succeed, OnSuccess, Forget, circuit
  <1>6. ASSUME NEW c \in Caller, FailCall(c) PROVE WindowInv' /\ ClosedBelowThreshold'
    <2>1. OnFailure /\ config' = config
      BY <1>6 DEF FailCall, Forget
    <2>2. CASE state = "half-open"
      BY <2>1, <2>2, <1>2 DEF OnFailure, ToOpen
    <2> QED BY <2>1, <2>2, FailureWindow
  <1>7. CASE GetStatus
    BY <1>7, <1>2 DEF GetStatus
  <1>8. CASE SetServiceDown
    BY <1>8, <1>3 DEF SetServiceDown, circuit
  <1>13. ASSUME NEW new \in Configs, UpdateConfig(new)
         PROVE  WindowInv' /\ ClosedBelowThreshold'
    <2>1. /\ UNCHANGED <<state, failures, failureTimestamps>>
          /\ lowered' = (state = "closed" /\ failures > 0 /\ failures >= new.failureThreshold)
          /\ config' = new /\ new.failureThreshold \in Nat
      BY <1>13, CircuitAssumption DEF UpdateConfig, ConfigType
    <2>2. ASSUME state = "closed"
          PROVE  failures = 0 \/ failures < new.failureThreshold \/ lowered'
      <3>1. failures = Len(failureTimestamps) /\ failures \in Nat
        BY <2>2, LenProperties DEF ClosedBelowThreshold, WindowInv
      <3>2. CASE failures > 0 /\ failures >= new.failureThreshold
        BY <2>1, <2>2, <3>2
      <3>3. CASE ~(failures > 0 /\ failures >= new.failureThreshold)
        BY <2>1, <3>1, <3>3
      <3> QED BY <3>2, <3>3
    <2>3. state = "closed" => failures = Len(failureTimestamps)
      BY DEF ClosedBelowThreshold
    <2> QED BY <2>1, <2>2, <2>3 DEF WindowInv, ClosedBelowThreshold
  <1>9. CASE ResetCircuit \/ ClearLog
    BY <1>9, <1>1 DEF ResetCircuit, ClearLog
  <1>10. CASE TripCircuit
    BY <1>10, <1>2 DEF TripCircuit, ToOpen
  <1>11. CASE Tick
    BY <1>11, TickWindow
  <1>12. CASE UNCHANGED vars
    BY <1>12, <1>3 DEF vars, circuit
  <1> QED
    BY <1>1, <1>2, <1>3, <1>4, <1>5, <1>6, <1>7, <1>8, <1>9, <1>10, <1>11, <1>12,
       <1>13 DEF Next

\* onFailure's sliding window: a closed circuit has counted the failures in it and
\* is below the threshold in force, unless the operator lowered it since, and the totals
\* account for every call.
THEOREM WindowKept == Spec => []BreakerCounts
  <1>1. Init => WindowInv /\ ClosedBelowThreshold
    BY InitWindow
  <1>2. Core /\ WindowInv /\ ClosedBelowThreshold /\ [Next]_vars
          => (WindowInv /\ ClosedBelowThreshold)'
    BY NextWindow
  <1>3. ClosedBelowThreshold /\ StatsAddUp => BreakerCounts
    BY DEF BreakerCounts
  <1> QED BY <1>1, <1>2, <1>3, CoreInvariant, CallsCounted, PTL DEF Spec

-----------------------------------------------------------------------------
(* The queue under backpressure: BInv.                                     *)

\* A full queue is not a number below the limit, and the other way round.
LEMMA BFullDef ==
  ASSUME B!TypeOK
  PROVE  /\ setting.maxQueueDepth \in Nat /\ setting.prefetchCount \in Nat
         /\ Len(queue) \in Nat /\ Len(retries) \in Nat
         /\ ~B!Full => Len(queue) + 1 <= setting.maxQueueDepth
  <1>1. setting \in B!ConfigType
    BY SimulationsAssumption DEF B!TypeOK
  <1>2. Len(queue) \in Nat /\ Len(retries) \in Nat
    BY LenProperties DEF B!TypeOK
  <1> QED BY <1>1, <1>2 DEF B!ConfigType, B!Full

\* What Append and Tail do to a sequence of labels, as the service uses them.
LEMMA AppendNat ==
  ASSUME NEW s \in Seq(Nat), NEW n \in Nat
  PROVE  Append(s, n) \in Seq(Nat) /\ Len(Append(s, n)) = Len(s) + 1
BY AppendProperties

LEMMA TailNat ==
  ASSUME NEW s \in Seq(Nat), s # <<>>
  PROVE  /\ Tail(s) \in Seq(Nat) /\ Head(s) \in Nat
         /\ Len(Tail(s)) = Len(s) - 1 /\ Len(s) > 0
  <1>1. Len(s) \in Nat \ {0}
    BY EmptySeq
  <1> QED BY <1>1, HeadTailProperties

\* What a consumer tick leaves of the queue: everything but the batch.
LEMMA BatchNat ==
  ASSUME NEW s \in Seq(Nat), NEW b \in 0..Len(s)
  PROVE  /\ SubSeq(s, b + 1, Len(s)) \in Seq(Nat)
         /\ Len(SubSeq(s, b + 1, Len(s))) = Len(s) - b
  <1>1. Len(s) \in Nat /\ b \in Nat /\ b <= Len(s)
    BY LenProperties
  <1>2. \A i \in (b + 1)..Len(s) : s[i] \in Nat
    BY <1>1, ElementOfSeq
  <1>3. /\ SubSeq(s, b + 1, Len(s)) \in Seq(Nat)
        /\ Len(SubSeq(s, b + 1, Len(s))) =
             IF b + 1 <= Len(s) THEN Len(s) - (b + 1) + 1 ELSE 0
    BY <1>1, <1>2, SubSeqProperties
  <1> QED BY <1>1, <1>3

-----------------------------------------------------------------------------
BInv == B!TypeOK /\ B!Conservation

LEMMA BInitInv == B!Init => BInv
  <1> SUFFICES ASSUME B!Init PROVE BInv
    OBVIOUS
  <1>1. /\ queue \in Seq(Nat) /\ Len(queue) = 0
        /\ retries \in Seq(Nat) /\ Len(retries) = 0
    BY EmptySeq DEF B!Init
  <1>2. B!TypeOK
    <2>1. isRunning \in BOOLEAN /\ setting \in Settings
      BY DEF B!Init
    <2>2. stale \in 0..Len(retries) /\ intruders \in Nat
      BY <1>1 DEF B!Init
    <2>3. /\ produced \in Nat /\ consumed \in Nat /\ dropped \in Nat
          /\ rejected \in Nat /\ blocked \in Nat
      BY DEF B!Init
    <2> QED BY <1>1, <2>1, <2>2, <2>3 DEF B!TypeOK
  <1>3. B!Conservation
    BY <1>1 DEF B!Init, B!Conservation
  <1> QED BY <1>2, <1>3 DEF BInv

\* Every step keeps the types and the balance: one case per action.
LEMMA BNextInv == BInv /\ [B!Next]_B!vars => BInv'
  <1> SUFFICES ASSUME B!TypeOK, B!Conservation, [B!Next]_B!vars PROVE B!TypeOK' /\ B!Conservation'
    BY DEF BInv
  <1>a. /\ setting.maxQueueDepth \in Nat /\ setting.prefetchCount \in Nat
        /\ Len(queue) \in Nat /\ Len(retries) \in Nat
    BY BFullDef
  <1>b. /\ produced \in Nat /\ consumed \in Nat /\ dropped \in Nat
        /\ rejected \in Nat /\ blocked \in Nat
        /\ stale \in Nat /\ stale <= Len(retries) /\ intruders \in Nat
    BY <1>a DEF B!TypeOK
  <1>c. queue \in Seq(Nat) /\ retries \in Seq(Nat)
    BY DEF B!TypeOK
  <1>d. produced + intruders =
          consumed + dropped + rejected + Len(queue) + (Len(retries) - stale)
    BY DEF B!Conservation
  <1>1. ASSUME NEW new \in Settings, B!Start(new) PROVE B!TypeOK' /\ B!Conservation'
    BY <1>1 DEF B!Start, B!stats, B!TypeOK, B!Conservation
  <1>2. ASSUME NEW new \in Settings, B!UpdateConfig(new) PROVE B!TypeOK' /\ B!Conservation'
    BY <1>2 DEF B!UpdateConfig, B!stats, B!TypeOK, B!Conservation
  <1>3. CASE B!Stop
    BY <1>3 DEF B!Stop, B!stats, B!TypeOK, B!Conservation
  <1>4. CASE B!Clear
    <2>1. /\ queue' \in Seq(Nat) /\ Len(queue') = 0
          /\ stale' = Len(retries) /\ retries' = retries
      BY <1>4, EmptySeq DEF B!Clear
    <2>2. /\ produced' = 0 /\ consumed' = 0 /\ dropped' = 0
          /\ rejected' = 0 /\ blocked' = 0 /\ intruders' = 0
      BY <1>4 DEF B!Clear
    <2>3. isRunning' \in BOOLEAN /\ setting' \in Settings
      BY <1>4 DEF B!Clear, B!TypeOK
    <2>4. stale' \in 0..Len(retries')
      BY <1>a, <2>1
    <2>5. B!TypeOK'
      BY <1>c, <2>1, <2>2, <2>3, <2>4 DEF B!TypeOK
    <2>6. B!Conservation'
      BY <1>a, <2>1, <2>2 DEF B!Conservation
    <2> QED BY <2>5, <2>6
  <1>5. CASE B!Enqueue
    <2>1. queue' \in Seq(Nat) /\ Len(queue') = Len(queue) + 1
      BY <1>b, <1>c, <1>5, AppendNat DEF B!Enqueue
    <2>2. produced' = produced + 1 /\ UNCHANGED <<isRunning, setting, consumed,
            dropped, rejected, blocked, retries, stale, intruders>>
      BY <1>5 DEF B!Enqueue, B!MayProduce
    <2>3. B!TypeOK'
      BY <2>1, <2>2 DEF B!TypeOK
    <2>4. B!Conservation'
      <3> DEFINE live == Len(retries) - stale
      <3>1. live \in Nat /\ live' = live
        BY <1>a, <1>b, <2>2
      <3>2. produced + intruders = consumed + dropped + rejected + Len(queue) + live
        BY <1>d DEF B!Conservation
      <3> HIDE DEF live
      <3>3. produced' + intruders' = consumed' + dropped' + rejected' + Len(queue') + live'
        BY <1>a, <1>b, <2>1, <2>2, <3>1, <3>2
      <3> USE DEF live
      <3> QED BY <3>3 DEF B!Conservation
    <2> QED BY <2>3, <2>4
  <1>6. CASE B!DropOldest
    <2>1. produced' = produced + 1 /\ UNCHANGED <<isRunning, setting, consumed,
            rejected, blocked, retries, stale, intruders>>
      BY <1>6 DEF B!DropOldest, B!MayProduce
    <2>2. /\ queue' \in Seq(Nat) /\ dropped' \in Nat
          /\ \/ Len(queue') = Len(queue) /\ dropped' = dropped + 1
             \/ Len(queue') = Len(queue) + 1 /\ dropped' = dropped
      <3>1. CASE /\ queue # <<>> /\ queue' = Append(Tail(queue), produced + 1)
                 /\ dropped' = dropped + 1
        <4>1. Tail(queue) \in Seq(Nat) /\ Len(Tail(queue)) = Len(queue) - 1
          BY <1>c, <3>1, TailNat
        <4>2. queue' \in Seq(Nat) /\ Len(queue') = Len(Tail(queue)) + 1
          BY <1>b, <3>1, <4>1, AppendNat
        <4>3. Len(queue') = Len(queue)
          BY <1>a, <4>1, <4>2
        <4>4. dropped' = dropped + 1 /\ dropped' \in Nat
          BY <1>b, <3>1
        <4> QED BY <4>2, <4>3, <4>4
      <3>2. CASE queue = <<>> /\ queue' = <<produced + 1>> /\ dropped' = dropped
        <4>1. queue' = Append(queue, produced + 1)
          BY <3>2
        <4>2. queue' \in Seq(Nat) /\ Len(queue') = Len(queue) + 1
          BY <1>b, <1>c, <4>1, AppendNat
        <4> QED BY <1>a, <1>b, <3>2, <4>2
      <3> QED BY <1>6, <3>1, <3>2 DEF B!DropOldest
    <2>3. B!TypeOK'
      BY <2>1, <2>2 DEF B!TypeOK
    <2>4. B!Conservation'
      <3>1. CASE Len(queue') = Len(queue) /\ dropped' = dropped + 1
        BY <1>a, <1>b, <1>d, <2>1, <3>1 DEF B!Conservation
      <3>2. CASE Len(queue') = Len(queue) + 1 /\ dropped' = dropped
        BY <1>a, <1>b, <1>d, <2>1, <3>2 DEF B!Conservation
      <3> QED BY <2>2, <3>1, <3>2
    <2> QED BY <2>3, <2>4
  <1>7. CASE B!DropNewest
    <2>1. /\ produced' = produced + 1 /\ dropped' = dropped + 1
          /\ UNCHANGED <<queue, isRunning, setting, consumed, rejected, blocked,
                         retries, stale, intruders>>
      BY <1>7 DEF B!DropNewest, B!MayProduce
    <2>2. B!TypeOK'
      BY <2>1 DEF B!TypeOK
    <2>3. B!Conservation'
      BY <1>a, <1>b, <1>d, <2>1 DEF B!Conservation
    <2> QED BY <2>2, <2>3
  <1>8. CASE B!Reject
    <2>1. /\ produced' = produced + 1 /\ rejected' = rejected + 1
          /\ UNCHANGED <<queue, isRunning, setting, consumed, dropped, blocked,
                         retries, stale, intruders>>
      BY <1>8 DEF B!Reject, B!MayProduce
    <2>2. B!TypeOK'
      BY <2>1 DEF B!TypeOK
    <2>3. B!Conservation'
      BY <1>a, <1>b, <1>d, <2>1 DEF B!Conservation
    <2> QED BY <2>2, <2>3
  <1>9. CASE B!Block
    <2>1. retries' \in Seq(Nat) /\ Len(retries') = Len(retries) + 1
      BY <1>b, <1>c, <1>9, AppendNat DEF B!Block
    <2>2. /\ produced' = produced + 1 /\ blocked' = blocked + 1
          /\ UNCHANGED <<queue, isRunning, setting, consumed, dropped, rejected,
                         stale, intruders>>
      BY <1>9 DEF B!Block, B!MayProduce
    <2>3. stale' \in 0..Len(retries')
      BY <1>a, <1>b, <2>1, <2>2
    <2>4. B!TypeOK'
      BY <2>1, <2>2, <2>3 DEF B!TypeOK
    <2>5. B!Conservation'
      BY <1>a, <1>b, <1>d, <2>1, <2>2 DEF B!Conservation
    <2> QED BY <2>4, <2>5
  <1>10. CASE B!Retry
    <2>1. /\ retries' \in Seq(Nat) /\ Head(retries) \in Nat
          /\ Len(retries') = Len(retries) - 1 /\ Len(retries) > 0
      BY <1>c, <1>10, TailNat DEF B!Retry
    <2>2. /\ queue' \in Seq(Nat) /\ dropped' \in Nat
          /\ \/ Len(queue') = Len(queue) /\ dropped' = dropped + 1
             \/ Len(queue') = Len(queue) + 1 /\ dropped' = dropped
      <3>1. CASE queue' = Append(queue, Head(retries)) /\ dropped' = dropped
        <4>1. queue' \in Seq(Nat) /\ Len(queue') = Len(queue) + 1
          BY <1>c, <2>1, <3>1, AppendNat
        <4> QED BY <1>a, <1>b, <3>1, <4>1
      <3>2. CASE queue' = queue /\ dropped' = dropped + 1
        BY <1>a, <1>b, <1>c, <3>2
      <3> QED BY <1>10, <3>1, <3>2 DEF B!Retry
    <2>3. \/ stale > 0 /\ stale' = stale - 1 /\ intruders' = intruders + 1
          \/ stale = 0 /\ stale' = stale /\ intruders' = intruders
      BY <1>10 DEF B!Retry
    <2>4. stale' \in 0..Len(retries') /\ intruders' \in Nat
      BY <1>a, <1>b, <2>1, <2>3
    <2>5. UNCHANGED <<isRunning, setting, produced, consumed, rejected, blocked>>
      BY <1>10 DEF B!Retry
    <2>6. B!TypeOK'
      BY <2>1, <2>2, <2>4, <2>5 DEF B!TypeOK
    <2> DEFINE q == Len(queue)
               t == Len(retries)
               live == t - stale
               inside == q + dropped
    <2>7. /\ q \in Nat /\ q' \in Nat /\ t \in Nat /\ t' = t - 1
          /\ \/ q' = q /\ dropped' = dropped + 1
             \/ q' = q + 1 /\ dropped' = dropped
          /\ produced + intruders = consumed + dropped + rejected + q + (t - stale)
      BY <1>a, <1>d, <2>1, <2>2, LenProperties
    <2>8. stale \in Nat /\ stale <= t
      BY <1>b
    <2> HIDE DEF q, t
    <2>9. live \in Nat /\ inside \in Nat /\ inside' = inside + 1
      BY <1>b, <2>7, <2>8
    <2>10. \/ live' = live /\ intruders' = intruders + 1
           \/ live' = live - 1 /\ intruders' = intruders
      BY <1>b, <2>3, <2>7, <2>8
    <2>11. produced + intruders = consumed + rejected + inside + live
      BY <1>b, <2>7, <2>8
    <2>12. produced' + intruders' = consumed' + rejected' + inside' + live'
      <3> HIDE DEF live, inside
      <3>1. CASE live' = live /\ intruders' = intruders + 1
        BY <1>b, <2>5, <2>9, <2>11, <3>1
      <3>2. CASE live' = live - 1 /\ intruders' = intruders
        BY <1>b, <2>5, <2>9, <2>11, <3>2
      <3> QED BY <2>10, <3>1, <3>2
    <2>13. produced' + intruders' = consumed' + dropped' + rejected' + q' + (t' - stale')
      <3>1. dropped' \in Nat /\ consumed' \in Nat /\ rejected' \in Nat /\ stale' \in Nat
        BY <1>b, <2>3, <2>5, <2>7
      <3> QED BY <2>7, <2>12, <3>1
    <2>14. B!Conservation'
      BY <2>13 DEF B!Conservation, q, t
    <2> QED BY <2>6, <2>14
  <1>11. CASE B!Consume
    <2> DEFINE batch == B!Smaller(setting.prefetchCount, Len(queue))
    <2>1. batch \in 0..Len(queue)
      BY <1>a DEF B!Smaller
    <2>2. queue' \in Seq(Nat) /\ Len(queue') = Len(queue) - batch
      BY <1>c, <1>11, <2>1, BatchNat DEF B!Consume
    <2>3. consumed' = consumed + batch /\ UNCHANGED <<isRunning, setting, produced,
            dropped, rejected, blocked, retries, stale, intruders>>
      BY <1>11 DEF B!Consume
    <2> HIDE DEF batch
    <2>4. consumed' \in Nat
      BY <1>b, <2>1, <2>3
    <2>5. B!TypeOK'
      BY <2>2, <2>3, <2>4 DEF B!TypeOK
    <2>6. B!Conservation'
      BY <1>a, <1>b, <1>d, <2>1, <2>2, <2>3 DEF B!Conservation
    <2> QED BY <2>5, <2>6
  <1>12. CASE UNCHANGED B!vars
    BY <1>12 DEF B!vars, B!stats, B!TypeOK, B!Conservation
  <1> QED
    BY <1>1, <1>2, <1>3, <1>4, <1>5, <1>6, <1>7, <1>8, <1>9, <1>10, <1>11, <1>12
    DEF B!Next, B!Produce

\* The service's fields keep their shape through every call and timer.
THEOREM BTyped == B!Spec => []B!TypeOK
  <1>1. BInv => B!TypeOK
    BY DEF BInv
  <1> QED BY <1>1, BInitInv, BNextInv, PTL DEF B!Spec

\* produce(), handleOverflow(), consume() and the retry timers lose no message
\* and count none twice, whatever the limits, strategies and clears.
THEOREM BConserved == B!Spec => []B!Conservation
  <1>1. BInv => B!Conservation
    BY DEF BInv
  <1> QED BY <1>1, BInitInv, BNextInv, PTL DEF B!Spec

-----------------------------------------------------------------------------
\* A step that makes the queue longer makes it one longer, below the limit or
\* from empty.
LEMMA BStepGrows ==
  ASSUME B!TypeOK, B!Next, Len(queue') > Len(queue)
  PROVE  Len(queue') <= setting.maxQueueDepth \/ Len(queue') = 1
  <1> USE DEF B!TypeOK
  <1>0. /\ setting.maxQueueDepth \in Nat /\ setting.prefetchCount \in Nat
        /\ Len(queue) \in Nat /\ Len(retries) \in Nat
        /\ ~B!Full => Len(queue) + 1 <= setting.maxQueueDepth
    BY BFullDef
  <1>1. CASE B!Enqueue
    BY <1>0, <1>1, AppendNat DEF B!Enqueue, B!MayProduce
  <1>2. CASE B!DropOldest
    <2>1. CASE queue # <<>>
      <3>1. Tail(queue) \in Seq(Nat) /\ Len(Tail(queue)) = Len(queue) - 1
        BY <2>1, TailNat
      <3>2. Len(queue') = Len(queue)
        BY <1>0, <1>2, <2>1, <3>1, AppendNat DEF B!DropOldest
      <3> QED BY <1>0, <3>2
    <2>2. CASE queue = <<>>
      <3>1. queue' = Append(queue, produced + 1) /\ Len(queue) = 0
        BY <1>2, <2>2, EmptySeq DEF B!DropOldest
      <3> QED BY <3>1, AppendNat
    <2> QED BY <2>1, <2>2
  <1>3. CASE B!Retry
    <2>1. Head(retries) \in Nat
      BY <1>3, TailNat DEF B!Retry
    <2>2. CASE ~B!Full /\ queue' = Append(queue, Head(retries))
      <3>1. Len(queue') = Len(queue) + 1
        BY <2>1, <2>2, AppendNat
      <3> QED BY <1>0, <2>2, <3>1
    <2>3. CASE queue' = queue
      BY <1>0, <2>3
    <2> QED BY <1>3, <2>2, <2>3 DEF B!Retry
  <1>4. CASE B!Consume
    <2> DEFINE batch == B!Smaller(setting.prefetchCount, Len(queue))
    <2>1. batch \in 0..Len(queue)
      BY <1>0 DEF B!Smaller
    <2>2. Len(queue') = Len(queue) - batch
      BY <1>4, <2>1, BatchNat DEF B!Consume
    <2> HIDE DEF batch
    <2> QED BY <1>0, <2>1, <2>2
  <1>5. CASE B!Clear
    BY <1>0, <1>5, EmptySeq DEF B!Clear
  <1>6. CASE queue' = queue
    BY <1>0, <1>6
  <1> QED
    BY <1>1, <1>2, <1>3, <1>4, <1>5, <1>6
    DEF B!Next, B!Produce, B!Start, B!UpdateConfig, B!Stop, B!DropNewest, B!Reject, B!Block

\* handleOverflow and the retry timer respect maxQueueDepth as it is when they
\* run, not as it was when the timer was armed.
THEOREM BGrowsWithin == B!Spec => B!GrowsWithinLimit
  <1>1. B!TypeOK /\ [B!Next]_B!vars =>
          [Len(queue') > Len(queue) =>
             Len(queue') <= setting.maxQueueDepth \/ Len(queue') = 1]_queue
    BY BStepGrows DEF B!vars
  <1> QED BY <1>1, BTyped, PTL DEF B!Spec, B!GrowsWithinLimit

-----------------------------------------------------------------------------
(* The whole.                                                              *)

\* A step of the whole is a step of each simulation, or leaves it as it was.
LEMMA AllSteps ==
  [AllNext]_<<focus, vars, backpressure>> => [Next]_vars /\ [B!Next]_(B!vars)
<1> SUFFICES ASSUME [AllNext]_<<focus, vars, backpressure>>
             PROVE  [Next]_vars /\ [B!Next]_(B!vars)
  OBVIOUS
<1>1. Next \/ UNCHANGED vars
  BY DEF AllNext
<1>2. B!Next \/ UNCHANGED B!vars
  BY DEF AllNext, backpressure, B!vars, B!stats
<1> QED
  BY <1>1, <1>2

LEMMA AllBehaviours == AllSpec => Spec /\ B!Spec
<1>1. AllInit => Init /\ B!Init
  BY DEF AllInit
<1> QED
  BY <1>1, AllSteps, PTL DEF AllSpec, Spec, B!Spec

\* onFailure's sliding window and the totals of call(): a closed circuit has
\* counted the failures in its window and is below the threshold in force, unless the
\* operator lowered it since the last one, and every call is in the statistics once.
THEOREM FailuresCounted == AllSpec => []BreakerCounts
  BY AllBehaviours, WindowKept, PTL

\* handleOverflow, consume and the retry timers lose no message and count none
\* twice, whatever the limits, strategies and clears.
THEOREM Conserved == AllSpec => []Conservation
  BY AllBehaviours, BConserved, PTL DEF Conservation
=============================================================================
