--------------------------- MODULE CircuitBreaker ---------------------------
(***************************************************************************)
(* CircuitBreakerService: a circuit around a downstream service, called by *)
(* concurrent requests.  A call decides synchronously whether it goes      *)
(* through, then awaits the service, and updates the circuit when it       *)
(* returns, whatever the circuit has become meanwhile.                     *)
(*                                                                         *)
(* Time is counted in ticks.  A timestamp t is kept as its age now - t, and *)
(* no age is told apart beyond MaxAge, at least the longest period of a config. *)
(***************************************************************************)
EXTENDS Integers, Sequences, FiniteSets

CONSTANTS
  Caller,     \* requests that can be in flight at once
  Configs,    \* the configurations updateConfig can produce; the first is one of them
  Undefined,  \* an unset timestamp or an absent call
  MaxAge,     \* no age is told apart beyond it
  MaxCalls,   \* bound on totalCalls
  MaxManual   \* bound on the operator's own interventions

ConfigType == [failureThreshold: Nat, windowMs: Nat, timeoutMs: Nat,
               serviceLatencyMs: Nat, fallbackEnabled: BOOLEAN]

CircuitState == {"closed", "open", "half-open"}
Call == [left: Nat, stateAtCall: CircuitState]

ASSUME CircuitAssumption ==
  /\ Configs # {} /\ Configs \subseteq ConfigType
  /\ MaxAge \in Nat /\ \A c \in Configs : c.windowMs <= MaxAge /\ c.timeoutMs <= MaxAge
  /\ MaxCalls \in Nat /\ MaxManual \in Nat
  /\ IsFiniteSet(Caller) /\ Undefined \notin Nat /\ Undefined \notin Call

VARIABLES
  state, failures, openedAt, halfOpenAt, failureTimestamps,
  serviceDown, config,
  stats,      \* totalCalls, totalSuccess, totalFailure, totalRejected, totalFallback
  call,       \* the call each caller awaits
  lowered,    \* history: a closed circuit was left at a lowered threshold
  carried,    \* history: calls in flight when the statistics were last cleared
  manual      \* interventions so far

circuit == <<state, failures, openedAt, halfOpenAt, failureTimestamps, lowered>>
vars == <<circuit, serviceDown, config, stats, call, carried, manual>>

Age == 0..MaxAge
Older(t) == IF t = Undefined \/ t = MaxAge THEN t ELSE t + 1

ZeroStats == [totalCalls |-> 0, totalSuccess |-> 0, totalFailure |-> 0,
              totalRejected |-> 0, totalFallback |-> 0]
InFlight == {c \in Caller : call[c] # Undefined}

Init ==
  /\ state = "closed" /\ failures = 0
  /\ openedAt = Undefined /\ halfOpenAt = Undefined /\ failureTimestamps = <<>>
  /\ serviceDown = FALSE /\ config \in Configs
  /\ stats = ZeroStats
  /\ call = [c \in Caller |-> Undefined]
  /\ lowered = FALSE /\ carried = 0 /\ manual = 0

-----------------------------------------------------------------------------
(* The state machine.                                                      *)

\* checkStateTransition succeeds: an open circuit whose timeout has passed.
TimeoutOver == state = "open" /\ openedAt # Undefined /\ openedAt >= config.timeoutMs

\* transitionTo("half-open"), which keeps openedAt and the failure window.
ToHalfOpen == /\ state' = "half-open" /\ halfOpenAt' = 0
              /\ UNCHANGED <<failures, openedAt, failureTimestamps, lowered>>

\* transitionTo("closed") with the resets that follow it in every caller.
ToClosed == /\ state' = "closed" /\ failures' = 0 /\ failureTimestamps' = <<>>
            /\ openedAt' = Undefined /\ halfOpenAt' = Undefined /\ lowered' = FALSE

\* Mutant: openedAt is stamped only by the first opening.
ToOpenUnstamped == /\ state' = "open" /\ UNCHANGED openedAt
                   /\ halfOpenAt' = IF state = "open" THEN halfOpenAt ELSE Undefined

\* transitionTo("open") and openedAt = now; the first does nothing when open.
ToOpen == /\ state' = "open" /\ openedAt' = 0
          /\ halfOpenAt' = IF state = "open" THEN halfOpenAt ELSE Undefined

OnSuccess == IF state = "half-open" THEN ToClosed ELSE UNCHANGED circuit

\* The sliding window with this failure in it. The timestamps are pushed in the order
\* of time, so those that the filter drops come first.
Dropped == CHOOSE k \in 0..Len(failureTimestamps) :
             \A i \in 1..Len(failureTimestamps) : i > k <=> failureTimestamps[i] < config.windowMs
Window  == Append(SubSeq(failureTimestamps, Dropped + 1, Len(failureTimestamps)), 0)

\* Mutant: the threshold has to be exceeded.
OnFailureBeyond ==
  \/ state = "half-open" /\ ToOpen /\ UNCHANGED <<failures, failureTimestamps, lowered>>
  \/ /\ state # "half-open"
     /\ failureTimestamps' = Window /\ failures' = Len(Window) /\ lowered' = FALSE
     /\ IF Len(Window) > config.failureThreshold
          THEN ToOpen ELSE UNCHANGED <<state, openedAt, halfOpenAt>>

\* A half-open circuit reopens and leaves the window alone; otherwise the
\* failure enters the window, in the open state as well.
OnFailure ==
  \/ state = "half-open" /\ ToOpen /\ UNCHANGED <<failures, failureTimestamps, lowered>>
  \/ /\ state # "half-open"
     /\ failureTimestamps' = Window /\ failures' = Len(Window) /\ lowered' = FALSE
     /\ IF Len(Window) >= config.failureThreshold
          THEN ToOpen ELSE UNCHANGED <<state, openedAt, halfOpenAt>>

-----------------------------------------------------------------------------
(* call(): the synchronous part, up to the rejection or the await.         *)

\* Open and not timed out: fast failure, with or without the fallback.
Reject(c) ==
  /\ call[c] = Undefined /\ stats.totalCalls < MaxCalls
  /\ state = "open" /\ ~TimeoutOver
  /\ stats' = [stats EXCEPT !.totalCalls = @ + 1, !.totalRejected = @ + 1,
                 !.totalFallback = IF config.fallbackEnabled THEN @ + 1 ELSE @]
  /\ UNCHANGED <<circuit, serviceDown, config, call, carried, manual>>

\* Closed, half-open, or open and timed out: the call goes through.  stateAtCall
\* was read before the check.
Admit(c) ==
  /\ call[c] = Undefined /\ stats.totalCalls < MaxCalls
  /\ \/ TimeoutOver /\ ToHalfOpen
     \/ state # "open" /\ UNCHANGED circuit
  /\ call' = [call EXCEPT ![c] = [left |-> config.serviceLatencyMs, stateAtCall |-> state]]
  /\ stats' = [stats EXCEPT !.totalCalls = @ + 1]
  /\ UNCHANGED <<serviceDown, config, carried, manual>>

\* The awaited delay is over: succeed or fail on the service's present state.
Answered(c) == call[c] # Undefined /\ call[c].left = 0
Forget(c) == /\ call' = [call EXCEPT ![c] = Undefined]
             /\ UNCHANGED <<serviceDown, config, carried, manual>>

Succeed(c) ==
  /\ Answered(c) /\ ~serviceDown
  /\ OnSuccess
  /\ stats' = [stats EXCEPT !.totalSuccess = @ + 1]
  /\ Forget(c)

\* Mutant: the failure is not counted.
FailCallUncounted(c) ==
  /\ Answered(c) /\ serviceDown
  /\ OnFailure /\ UNCHANGED stats
  /\ Forget(c)

FailCall(c) ==
  /\ Answered(c) /\ serviceDown
  /\ OnFailure
  /\ stats' = [stats EXCEPT !.totalFailure = @ + 1]
  /\ Forget(c)

\* getStatus refreshes the state before it reports it.
GetStatus ==
  /\ TimeoutOver /\ ToHalfOpen
  /\ UNCHANGED <<serviceDown, config, stats, call, carried, manual>>

-----------------------------------------------------------------------------
(* Operator endpoints and the clock.                                       *)
Intervene == manual < MaxManual /\ manual' = manual + 1

SetServiceDown ==
  /\ Intervene /\ serviceDown' = ~serviceDown
  /\ UNCHANGED <<circuit, config, stats, call, carried>>

ResetCircuit ==
  /\ Intervene /\ ToClosed
  /\ UNCHANGED <<serviceDown, config, stats, call, carried>>

TripCircuit ==
  /\ Intervene /\ ToOpen
  /\ failures' = config.failureThreshold /\ UNCHANGED <<failureTimestamps, lowered>>
  /\ UNCHANGED <<serviceDown, config, stats, call, carried>>

\* The state is not looked at again: a closed circuit may find itself at its threshold.
UpdateConfig(new) ==
  /\ Intervene /\ config' = new
  /\ lowered' = (state = "closed" /\ failures > 0 /\ failures >= new.failureThreshold)
  /\ UNCHANGED <<state, failures, openedAt, halfOpenAt, failureTimestamps>>
  /\ UNCHANGED <<serviceDown, stats, call, carried>>

\* clearLog resets the statistics and the circuit, not the calls in flight.
ClearLog ==
  /\ Intervene /\ ToClosed /\ stats' = ZeroStats
  /\ carried' = Cardinality(InFlight)
  /\ UNCHANGED <<serviceDown, config, call>>

Tick ==
  /\ openedAt' = Older(openedAt) /\ halfOpenAt' = Older(halfOpenAt)
  /\ failureTimestamps' = [i \in DOMAIN failureTimestamps |-> Older(failureTimestamps[i])]
  /\ call' = [c \in Caller |-> IF c \in InFlight /\ call[c].left > 0
                               THEN [call[c] EXCEPT !.left = @ - 1] ELSE call[c]]
  /\ UNCHANGED <<state, failures, lowered, serviceDown, config, stats, carried, manual>>

Next ==
  \/ \E c \in Caller : Reject(c) \/ Admit(c) \/ Succeed(c) \/ FailCall(c)
  \/ GetStatus \/ SetServiceDown \/ ResetCircuit \/ TripCircuit \/ ClearLog
  \/ \E new \in Configs : UpdateConfig(new)
  \/ Tick

Spec == Init /\ [][Next]_vars

\* Time passes and timers of started calls fire; nobody has to call or intervene.
Fairness == /\ WF_vars(Tick)
            /\ \A c \in Caller : WF_vars(Succeed(c) \/ FailCall(c))

-----------------------------------------------------------------------------
(* Properties.                                                             *)

\* The fields of the service and of each awaited call.
TypeOK ==
  /\ state \in CircuitState /\ failures \in Nat
  /\ openedAt \in Age \cup {Undefined} /\ halfOpenAt \in Age \cup {Undefined}
  /\ failureTimestamps \in Seq(Age)
  /\ serviceDown \in BOOLEAN /\ config \in Configs
  /\ stats \in [DOMAIN ZeroStats -> Nat]
  /\ call \in [Caller -> Call \cup {Undefined}]
  /\ lowered \in BOOLEAN /\ carried \in Nat /\ manual \in 0..MaxManual

\* openedAt is set exactly while the circuit is not closed: were it missing in
\* the open state, checkStateTransition would never let a trial call through;
\* and halfOpenAt, which getStatus reports, exactly while it is half-open.
TimestampsMatchState ==
  /\ state # "closed" <=> openedAt # Undefined
  /\ state = "half-open" <=> halfOpenAt # Undefined

\* A closed circuit counts exactly the failures in its window, and once it has counted
\* one they are fewer than the threshold in force, whatever calls of earlier states
\* return late.  Only updateConfig, which does not look at the state again, can leave
\* it closed at its threshold, until the next failure.
ClosedBelowThreshold ==
  state = "closed" =>
    /\ failures = Len(failureTimestamps)
    /\ failures = 0 \/ failures < config.failureThreshold \/ lowered

\* Every call is counted once: succeeded, failed, rejected or still in flight;
\* calls that straddle clearLog are the only surplus.
StatsAddUp ==
  stats.totalCalls + carried =
    stats.totalSuccess + stats.totalFailure + stats.totalRejected + Cardinality(InFlight)

\* The counts are exact: failures below the threshold in force, every call in the statistics.
BreakerCounts == ClosedBelowThreshold /\ StatsAddUp

\* "CLOSED or HALF-OPEN: make the actual call": while open and before the
\* timeout no call reaches the service, and the circuit stays open unless an
\* operator steps in: failures that arrive late may only prolong the pause.
OpenBlocks ==
  [][state = "open" /\ ~TimeoutOver /\ manual' = manual =>
       state' = "open" /\ InFlight' \subseteq InFlight]_vars

\* An open circuit comes to the point where it admits a trial call: late
\* failures that refresh openedAt cannot hold it open for ever.
OpenEndsEventually == state = "open" ~> state # "open" \/ TimeoutOver

=============================================================================
