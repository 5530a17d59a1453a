--------------------------- MODULE MCSimulations ---------------------------
(***************************************************************************)
(* The two simulations the demonstration offers, as TLC explores them: the *)
(* circuit breaker and the queue under backpressure.  Neither reads what   *)
(* the other writes, so a behaviour exercises one of them, chosen at the   *)
(* start; the other stands still, with no fair action enabled.             *)
(***************************************************************************)
EXTENDS CircuitBreaker

CONSTANTS Settings, MaxProduced, MaxPending

VARIABLES
  focus,
  queue, isRunning, setting, produced, consumed, dropped, rejected, blocked,
  retries, stale, intruders

B == INSTANCE Backpressure WITH Configs <- Settings, config <- setting

\* The queue has a configuration, and its bounds are numbers.
ASSUME SimulationsAssumption ==
  /\ Settings # {} /\ Settings \subseteq B!ConfigType
  /\ MaxProduced \in Nat /\ MaxPending \in Nat

backpressure == <<queue, isRunning, setting, produced, consumed, dropped, rejected, blocked,
                  retries, stale, intruders>>

AllInit ==
  /\ focus \in {"breaker", "backpressure"}
  /\ Init /\ B!Init
  /\ focus # "breaker" => config = CHOOSE c \in Configs : TRUE
  /\ focus # "backpressure" => setting = CHOOSE s \in Settings : TRUE
AllNext ==
  \/ focus = "breaker" /\ Next /\ UNCHANGED <<focus, backpressure>>
  \/ focus = "backpressure" /\ B!Next /\ UNCHANGED <<focus, vars>>
AllSpec ==
  /\ AllInit /\ [][AllNext]_<<focus, vars, backpressure>>
  /\ Fairness /\ B!Fairness

\* What Backpressure states, of its part of the state.
Conservation   == B!Conservation
NoMessageStuck == B!NoMessageStuck

-----------------------------------------------------------------------------
(* The configurations of the run.                                          *)
Circuit(threshold, window, timeout, fallback) ==
  [failureThreshold |-> threshold, windowMs |-> window, timeoutMs |-> timeout,
   serviceLatencyMs |-> 1, fallbackEnabled |-> fallback]

\* Two failures within two ticks open the circuit for two ticks; the operator may
\* lower the threshold, to 0 as well, the timeout and the fallback.
Circuits == {Circuit(2, 2, 2, TRUE), Circuit(1, 1, 1, FALSE), Circuit(0, 1, 2, TRUE)}

Depth(depth, strategy, policy, prefetch) ==
  [maxQueueDepth |-> depth, strategy |-> strategy, dropPolicy |-> policy,
   prefetchCount |-> prefetch]

\* Every strategy, at limits 0 to 2, switched at any time.
AllSettings ==
  {Depth(d, "drop", p, 1) : d \in 0..2, p \in {"oldest", "newest"}} \cup
  {Depth(d, "reject", "oldest", 2) : d \in 1..2} \cup
  {Depth(d, "block", "oldest", 1) : d \in 1..2}
=============================================================================
