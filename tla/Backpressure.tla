---------------------------- MODULE Backpressure ----------------------------
(***************************************************************************)
(* BackpressureService: an in-memory queue between an interval-driven      *)
(* producer and an interval-driven consumer, with an overflow strategy     *)
(* (block, drop, reject).  Interval callbacks run to completion; a blocked *)
(* message waits in a 500 ms timer of its own that nothing ever cancels.   *)
(* A message is its label, the value of "produced" when it was made.  The  *)
(* log and the rolling throughput windows are views and are left out.      *)
(***************************************************************************)
EXTENDS Integers, Sequences

CONSTANTS
  Configs,     \* the configurations the endpoints can set
  MaxProduced, \* bound on the messages produced between two clears
  MaxPending   \* bound on the retry timers outstanding at once

ConfigType == [maxQueueDepth: Nat, strategy: {"block", "drop", "reject"},
               dropPolicy: {"oldest", "newest"}, prefetchCount: Nat]

VARIABLES
  queue, isRunning, config,
  produced, consumed, dropped, rejected, blocked,   \* stats
  retries,    \* messages in retry timers, in firing order
  \* history
  stale,      \* how many of the retries were set before the last clear
  intruders   \* how many of those fired since

stats == <<produced, consumed, dropped, rejected, blocked>>
vars  == <<queue, isRunning, config, stats, retries, stale, intruders>>

Init ==
  /\ queue = <<>> /\ isRunning = FALSE /\ config \in Configs
  /\ produced = 0 /\ consumed = 0 /\ dropped = 0 /\ rejected = 0 /\ blocked = 0
  /\ retries = <<>> /\ stale = 0 /\ intruders = 0

\* Mutant: the last one is left over.
SmallerByOne(a, b) == IF b = 0 THEN 0 ELSE IF a < b THEN a ELSE b - 1

Smaller(a, b) == IF a < b THEN a ELSE b
Full == Len(queue) >= config.maxQueueDepth

-----------------------------------------------------------------------------
(* The endpoints.                                                          *)

Start(new) ==
  /\ ~isRunning
  /\ isRunning' = TRUE /\ config' = new
  /\ UNCHANGED <<queue, stats, retries, stale, intruders>>

Stop ==
  /\ isRunning' = FALSE
  /\ UNCHANGED <<queue, config, stats, retries, stale, intruders>>

\* stop(), then fresh state; the retry timers stay armed.
Clear ==
  /\ isRunning' = FALSE /\ queue' = <<>>
  /\ produced' = 0 /\ consumed' = 0 /\ dropped' = 0 /\ rejected' = 0 /\ blocked' = 0
  /\ stale' = Len(retries) /\ intruders' = 0
  /\ UNCHANGED <<config, retries>>

\* Stops and restarts a running simulation; the queue may now be too long.
UpdateConfig(new) ==
  /\ config' = new
  /\ UNCHANGED <<queue, isRunning, stats, retries, stale, intruders>>

-----------------------------------------------------------------------------
(* produce() and handleOverflow(), on a producer tick.                     *)

MayProduce == isRunning /\ produced < MaxProduced /\ produced' = produced + 1
Overflow(strategy) == Full /\ config.strategy = strategy

Enqueue ==
  /\ MayProduce /\ ~Full
  /\ queue' = Append(queue, produced + 1)
  /\ UNCHANGED <<isRunning, config, consumed, dropped, rejected, blocked,
                 retries, stale, intruders>>

\* Mutant: nothing is counted as dropped.
DropOldestUncounted ==
  /\ MayProduce /\ Overflow("drop") /\ config.dropPolicy = "oldest"
  /\ queue' = IF queue = <<>> THEN <<produced + 1>> ELSE Append(Tail(queue), produced + 1)
  /\ UNCHANGED <<isRunning, config, consumed, dropped, rejected, blocked,
                 retries, stale, intruders>>

\* One message goes to make room, whatever the excess; none if there is none.
DropOldest ==
  /\ MayProduce /\ Overflow("drop") /\ config.dropPolicy = "oldest"
  /\ \/ /\ queue # <<>>
        /\ queue' = Append(Tail(queue), produced + 1)
        /\ dropped' = dropped + 1
     \/ /\ queue = <<>>
        /\ queue' = <<produced + 1>>
        /\ UNCHANGED dropped
  /\ UNCHANGED <<isRunning, config, consumed, rejected, blocked, retries, stale, intruders>>

DropNewest ==
  /\ MayProduce /\ Overflow("drop") /\ config.dropPolicy = "newest"
  /\ dropped' = dropped + 1
  /\ UNCHANGED <<queue, isRunning, config, consumed, rejected, blocked,
                 retries, stale, intruders>>

Reject ==
  /\ MayProduce /\ Overflow("reject")
  /\ rejected' = rejected + 1
  /\ UNCHANGED <<queue, isRunning, config, consumed, dropped, blocked,
                 retries, stale, intruders>>

Block ==
  /\ MayProduce /\ Overflow("block") /\ Len(retries) < MaxPending
  /\ blocked' = blocked + 1
  /\ retries' = Append(retries, produced + 1)
  /\ UNCHANGED <<queue, isRunning, config, consumed, dropped, rejected, stale, intruders>>

Produce == Enqueue \/ DropOldest \/ DropNewest \/ Reject \/ Block

\* A retry timer fires, running or not: enqueue if there is room, else give up.
Retry ==
  /\ retries # <<>>
  /\ retries' = Tail(retries)
  /\ \/ ~Full /\ queue' = Append(queue, Head(retries)) /\ UNCHANGED dropped
     \/ Full /\ dropped' = dropped + 1 /\ UNCHANGED queue
  /\ \/ stale > 0 /\ stale' = stale - 1 /\ intruders' = intruders + 1
     \/ stale = 0 /\ UNCHANGED <<stale, intruders>>
  /\ UNCHANGED <<isRunning, config, produced, consumed, rejected, blocked>>

\* A consumer tick: up to prefetchCount messages from the head.
Consume ==
  LET batch == Smaller(config.prefetchCount, Len(queue)) IN
  /\ isRunning
  /\ queue' = SubSeq(queue, batch + 1, Len(queue))
  /\ consumed' = consumed + batch
  /\ UNCHANGED <<isRunning, config, produced, dropped, rejected, blocked,
                 retries, stale, intruders>>

Next ==
  \/ \E new \in Configs : Start(new) \/ UpdateConfig(new)
  \/ Stop \/ Clear \/ Produce \/ Retry \/ Consume

Spec == Init /\ [][Next]_vars

\* Intervals of a running simulation and armed timers fire; endpoints need not be called.
Fairness == WF_vars(Retry) /\ WF_vars(Consume)

-----------------------------------------------------------------------------
(* Properties.                                                             *)

\* The fields of the service.
TypeOK ==
  /\ queue \in Seq(Nat) /\ retries \in Seq(Nat)
  /\ isRunning \in BOOLEAN /\ config \in Configs
  /\ produced \in Nat /\ consumed \in Nat /\ dropped \in Nat
  /\ rejected \in Nat /\ blocked \in Nat
  /\ stale \in 0..Len(retries) /\ intruders \in Nat

\* No message is lost or counted twice: each one produced since the last clear,
\* and each one that came in from a timer set before it, is consumed, dropped,
\* rejected, queued, or in a timer -- across any change of configuration.
Conservation ==
  produced + intruders =
    consumed + dropped + rejected + Len(queue) + (Len(retries) - stale)

\* The queue grows only within the depth limit (one message is kept at limit 0),
\* even from a retry timer that fires after the limit was lowered.
GrowsWithinLimit ==
  [][Len(queue') > Len(queue) =>
       Len(queue') <= config.maxQueueDepth \/ Len(queue') = 1]_queue

\* While the simulation keeps running no message is stuck: from the queue it is
\* consumed or dropped, from a retry timer it is queued or given up.
Held(m) == (\E i \in 1..Len(queue) : queue[i] = m) \/ (\E i \in 1..Len(retries) : retries[i] = m)
NoMessageStuck == <>[]isRunning => \A m \in 1..MaxProduced : Held(m) ~> ~Held(m)
=============================================================================
