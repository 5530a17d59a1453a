--------------------------------- MODULE Dlq ---------------------------------
(***************************************************************************)
(* DlqService: a consumer that fails on purpose, retries through queues    *)
(* that return a message after a delay, and rejects to a dead-letter queue *)
(* what has no retries left.                                               *)
(*                                                                         *)
(* A message may have several copies.  A handler is the consumer callback  *)
(* between its two halves, before and after its delay; it acknowledges on  *)
(* whatever channel the service has by then.  Delivery tags count from one *)
(* on every channel, so the tag of an old delivery may name any delivery   *)
(* of the new channel, or none: RabbitMQ then closes the channel, and      *)
(* nothing reopens it.  The retry queue a copy waits in follows from its   *)
(* count, so one bag stands for the three.                                 *)
(***************************************************************************)
EXTENDS Integers, Sequences, FiniteSets, Functions

CONSTANTS
  Msg,        \* messages that may be sent
  Configs,    \* configurations startConsuming is called with
  FailCount,  \* failCount of the mode first_n
  MostRetries, \* no configuration retries more often
  RowCap,     \* rows of messages kept (50)
  Slots,      \* bound on the handlers running at once
  MaxFaults   \* bound on stops, cut connections, restarts and clears

Modes == {"always", "never", "random", "first_n"}
ConfigType == [mode : Modes, maxRetries : Nat]
DefaultConfig == [mode |-> "always", maxRetries |-> 3]

ASSUME DlqAssumption ==
  /\ Configs \subseteq ConfigType /\ FailCount \in Nat /\ MostRetries \in Nat
  /\ \A c \in Configs \cup {DefaultConfig} : c.maxRetries <= MostRetries
  /\ RowCap \in Nat \ {0} /\ Slots \in Nat \ {0} /\ MaxFaults \in Nat

VARIABLES
  config, consuming,
  rows,        \* tracked messages, newest first
  status,      \* of the tracked messages
  attempts,    \* attemptCounts, saturating where first_n no longer cares
  channel,     \* "up", "closing" during stopConsuming, "broken"
  subscribed,  \* has the channel a consumer on the main queue
  main,        \* the main queue
  retry,       \* how many of each copy wait in the retry queues
  running,     \* the handlers: slot -> copy, attempt and hold on the delivery
  \* history
  sent, done, dead,  \* reached the broker, processed, dead-lettered
  refused,     \* messages a send of which threw
  mixed,       \* messages not judged by a sufficient first_n throughout
  misacked,    \* has an old tag hit another delivery
  overlapped,  \* was a delivery taken back while its handler ran
  faults

memory  == <<config, consuming, rows, status, attempts>>
broker  == <<channel, subscribed, main, retry>>
history == <<sent, done, dead, refused, mixed, misacked, overlapped, faults>>
vars    == <<memory, broker, running, history>>

Copy == [id : Msg, n : 0..MostRetries]
Slot == 1..Slots
None == 0
Handler == [copy : Copy, attempt : 1..(FailCount + 1), hold : {"held", "freed", "old"}]

Init ==
  /\ config = DefaultConfig /\ consuming = FALSE
  /\ rows = <<>> /\ status = [m \in Msg |-> "none"] /\ attempts = [m \in Msg |-> 0]
  /\ channel \in {"up", "broken"}   \* onModuleInit logs a failed connection and goes on
  /\ subscribed = FALSE
  /\ main = <<>> /\ retry = [c \in Copy |-> 0] /\ running = <<>>
  /\ sent = {} /\ done = {} /\ dead = {} /\ refused = {} /\ mixed = {}
  /\ misacked = FALSE /\ overlapped = FALSE /\ faults = 0

-----------------------------------------------------------------------------
(* Rows, deliveries and the failure modes.                                 *)

Tracked(m) == \E i \in DOMAIN rows : rows[i] = m
Mark(m, s) == [status EXCEPT ![m] = IF Tracked(m) THEN s ELSE @]
Only(r, st) == [m \in Msg |-> IF \E i \in DOMAIN r : r[i] = m THEN st[m] ELSE "none"]

Bounded(k) == IF k > FailCount THEN FailCount + 1 ELSE k

\* shouldFail: the outcomes an attempt may have.
ShouldFail(attempt) ==
  CASE config.mode = "always"  -> {TRUE}
    [] config.mode = "never"   -> {FALSE}
    [] config.mode = "random"  -> BOOLEAN
    [] config.mode = "first_n" -> {attempt <= FailCount}

Held == {s \in DOMAIN running : running[s].hold = "held"}
\* The broker takes back what the closing channel holds, to the head of the queue.
TakenBack(held) == IF held = {} THEN main ELSE <<running[CHOOSE s \in held : TRUE].copy>> \o main
Orphaned(rs) == [s \in DOMAIN rs |-> [rs[s] EXCEPT !.hold = "old"]]

\* The deliveries an acknowledgement by s may reach.
Target(s) == CASE running[s].hold = "held"  -> {s}
               [] running[s].hold = "freed" -> {None}
               [] running[s].hold = "old"   -> Held \cup {None}

Without(s) == Restrict(running, DOMAIN running \ {s})
\* s is over, and its acknowledgement has reached t.
Acknowledge(s, t) ==
  /\ running' = IF t = None THEN Orphaned(Without(s))
                ELSE [x \in DOMAIN Without(s) |->
                        IF x = t THEN [running[x] EXCEPT !.hold = "freed"] ELSE running[x]]
  /\ channel' = IF t = None THEN "broken" ELSE channel
  /\ subscribed' = (subscribed /\ t # None)
  /\ main' = IF t = None THEN TakenBack(Held \ {s}) ELSE main
  /\ misacked' = (misacked \/ t \notin {s, None})
  /\ overlapped' = (overlapped \/ t # s)

-----------------------------------------------------------------------------
(* The operator.                                                           *)

\* startConsuming: the guard and the configuration come before the subscription,
\* which throws on a channel that is closed or closing.
StartConsuming(c) ==
  /\ ~consuming
  /\ config' = c /\ consuming' = TRUE
  /\ subscribed' = (channel = "up")
  /\ UNCHANGED <<rows, status, attempts, channel, main, retry, running, history>>

\* Mutant: the flag is reset, the consumer goes on.
StopConsumingFlagOnly ==
  /\ channel = "up" /\ faults < MaxFaults
  /\ consuming' = FALSE /\ faults' = faults + 1
  /\ UNCHANGED <<config, rows, status, attempts, broker, running, sent, done, dead, refused,
                 mixed, misacked, overlapped>>

\* stopConsuming, up to the closing of the channel.
StopConsuming ==
  /\ channel = "up" /\ faults < MaxFaults
  /\ consuming' = FALSE /\ channel' = "closing" /\ subscribed' = FALSE
  /\ main' = TakenBack(Held) /\ running' = Orphaned(running)
  /\ overlapped' = (overlapped \/ running # <<>>) /\ faults' = faults + 1
  /\ UNCHANGED <<config, rows, status, attempts, retry, sent, done, dead, refused, mixed, misacked>>

\* ... which throws when the channel is closed already.
StopRefused ==
  /\ channel # "up" /\ consuming
  /\ consuming' = FALSE
  /\ UNCHANGED <<config, rows, status, attempts, broker, running, history>>

\* ... and the new channel.
StopReopened ==
  /\ channel = "closing" /\ channel' = "up"
  /\ UNCHANGED <<memory, subscribed, main, retry, running, history>>

\* sendMessage: the row first, then the message, which throws without a channel.
SendMessage(m) ==
  /\ m \notin sent \cup refused
  /\ LET all == <<m>> \o rows IN
     rows' = SubSeq(all, 1, IF Len(all) > RowCap THEN RowCap ELSE Len(all))
  /\ status' = Only(rows', [status EXCEPT ![m] = "processing"])
  /\ IF channel = "up"
     THEN /\ main' = Append(main, [id |-> m, n |-> 0]) /\ sent' = sent \cup {m}
          /\ UNCHANGED refused
     ELSE refused' = refused \cup {m} /\ UNCHANGED <<main, sent>>
  /\ UNCHANGED <<config, consuming, attempts, channel, subscribed, retry, running,
                 done, dead, mixed, misacked, overlapped, faults>>

\* Mutant: the row stays dead, so that it can be sent again.
RetryDeadMessageAgain(m) ==
  /\ status[m] = "dead" /\ channel = "up" /\ Len(main) < 3
  /\ attempts' = [attempts EXCEPT ![m] = 0]
  /\ main' = Append(main, [id |-> m, n |-> 0])
  /\ UNCHANGED <<config, consuming, rows, status, channel, subscribed, retry, running, history>>

\* retryDeadMessage: the row is reset first, then sent again from count 0.
RetryDeadMessage(m) ==
  /\ status[m] = "dead"
  /\ attempts' = [attempts EXCEPT ![m] = 0]
  /\ status' = [status EXCEPT ![m] = "processing"]
  /\ IF channel = "up"
     THEN main' = Append(main, [id |-> m, n |-> 0]) /\ UNCHANGED refused
     ELSE refused' = refused \cup {m} /\ UNCHANGED main
  /\ UNCHANGED <<config, consuming, rows, channel, subscribed, retry, running,
                 sent, done, dead, mixed, misacked, overlapped, faults>>

\* The rows but those of ms, in order: one sequence.
Remaining(ms) ==
  LET left == {i \in DOMAIN rows : rows[i] \notin ms} IN
  {[j \in DOMAIN at |-> rows[at[j]]] :
     at \in {f \in UNION {[1..k -> left] : k \in 0..Len(rows)} :
               /\ \A i, j \in DOMAIN f : i < j => f[i] < f[j]
               /\ \A i \in left : \E j \in DOMAIN f : f[j] = i}}

\* discardDeadMessage drops a row and its count; discardAllDead keeps the counts.
DiscardDead(ms, forget) ==
  /\ ms # {} /\ \A m \in ms : status[m] = "dead"
  /\ rows' \in Remaining(ms)
  /\ status' = [m \in Msg |-> IF m \in ms THEN "none" ELSE status[m]]
  /\ attempts' = [m \in Msg |-> IF forget /\ m \in ms THEN 0 ELSE attempts[m]]
  /\ UNCHANGED <<config, consuming, broker, running, history>>
DiscardDeadMessage(m) == DiscardDead({m}, TRUE)
DiscardAllDead == DiscardDead({m \in Msg : status[m] = "dead"}, FALSE)

\* clearAll: rows and counts, under handlers that run on.
ClearAll ==
  /\ faults < MaxFaults /\ faults' = faults + 1
  /\ rows' = <<>> /\ status' = [m \in Msg |-> "none"] /\ attempts' = [m \in Msg |-> 0]
  /\ mixed' = mixed \cup sent
  /\ UNCHANGED <<config, consuming, broker, running, sent, done, dead, refused, misacked, overlapped>>

-----------------------------------------------------------------------------
(* The consumer.                                                           *)

\* Mutant: the attempt is not stored.
DeliverUncounted(s) ==
  /\ channel = "up" /\ subscribed /\ Held = {} /\ main # <<>>
  /\ s \notin DOMAIN running /\ \A x \in Slot : x < s => x \in DOMAIN running
  /\ status' = Mark(Head(main).id, "processing")
  /\ running' = [x \in DOMAIN running \cup {s} |->
                   IF x = s THEN [copy |-> Head(main), hold |-> "held",
                                  attempt |-> Bounded(attempts[Head(main).id] + 1)] ELSE running[x]]
  /\ main' = Tail(main)
  /\ UNCHANGED <<config, consuming, attempts, rows, channel, subscribed, retry, history>>

\* The first half of the callback: the attempt is counted, then the delay.
\* With prefetch(1) the broker sends nothing while it holds a delivery.
Deliver(s) ==
  /\ channel = "up" /\ subscribed /\ Held = {} /\ main # <<>>
  /\ s \notin DOMAIN running /\ \A x \in Slot : x < s => x \in DOMAIN running
  /\ LET c == Head(main)
         a == Bounded(attempts[c.id] + 1) IN
     /\ attempts' = [attempts EXCEPT ![c.id] = a]
     /\ status' = Mark(c.id, "processing")
     /\ running' = [x \in DOMAIN running \cup {s} |->
                      IF x = s THEN [copy |-> c, attempt |-> a, hold |-> "held"] ELSE running[x]]
  /\ main' = Tail(main)
  /\ UNCHANGED <<config, consuming, rows, channel, subscribed, retry, history>>

Sufficient == config.mode = "first_n" /\ FailCount <= config.maxRetries

\* The second half, one disjunct per outcome; config is read after the delay.
Complete(s, t) ==
  LET m == running[s].copy.id IN
  /\ FALSE \in ShouldFail(running[s].attempt)
  /\ Acknowledge(s, t)
  /\ status' = Mark(m, "completed") /\ attempts' = [attempts EXCEPT ![m] = 0]
  /\ done' = done \cup {m}
  /\ UNCHANGED <<retry, sent, dead, refused, mixed>>

\* Mutants: the last retry is acknowledged and not published; the count stays.
RetryLastForgotten(s, t) ==
  LET c == running[s].copy
      next == [c EXCEPT !.n = @ + 1] IN
  /\ TRUE \in ShouldFail(running[s].attempt) /\ c.n < config.maxRetries
  /\ Acknowledge(s, t)
  /\ retry' = IF next.n < config.maxRetries THEN [retry EXCEPT ![next] = @ + 1] ELSE retry
  /\ status' = Mark(c.id, "retry")
  /\ UNCHANGED <<attempts, sent, done, dead, refused, mixed>>

RetrySameCount(s, t) ==
  LET c == running[s].copy IN
  /\ TRUE \in ShouldFail(running[s].attempt) /\ c.n < config.maxRetries
  /\ Acknowledge(s, t)
  /\ retry' = [retry EXCEPT ![c] = @ + 1]
  /\ status' = Mark(c.id, "retry")
  /\ UNCHANGED <<attempts, sent, done, dead, refused, mixed>>

\* Published to the retry queue of its new count, then acknowledged.
Retry(s, t) ==
  LET c == running[s].copy
      next == [c EXCEPT !.n = @ + 1] IN
  /\ TRUE \in ShouldFail(running[s].attempt) /\ c.n < config.maxRetries
  /\ Acknowledge(s, t)
  /\ retry' = [retry EXCEPT ![next] = @ + 1]
  /\ status' = Mark(c.id, "retry")
  /\ mixed' = IF Sufficient THEN mixed ELSE mixed \cup {c.id}
  /\ UNCHANGED <<attempts, sent, done, dead, refused>>

\* Rejected: the broker dead-letters the delivery the tag names.
DeadLetter(s, t) ==
  LET c == running[s].copy IN
  /\ TRUE \in ShouldFail(running[s].attempt) /\ c.n >= config.maxRetries
  /\ Acknowledge(s, t)
  /\ dead' = IF t = None THEN dead ELSE dead \cup {running[t].copy.id}
  /\ status' = Mark(c.id, "dead")
  /\ mixed' = IF Sufficient THEN mixed ELSE mixed \cup {c.id}
  /\ UNCHANGED <<retry, attempts, sent, done, refused>>

Finish(s) ==
  /\ s \in DOMAIN running /\ channel = "up"
  /\ \E t \in Target(s) : Complete(s, t) \/ Retry(s, t) \/ DeadLetter(s, t)
  /\ UNCHANGED <<config, consuming, rows, faults>>

\* Without a usable channel the first call on it throws, and the callback ends there.
FinishThrows(s) ==
  /\ s \in DOMAIN running /\ channel # "up"
  /\ running' = Without(s)
  /\ UNCHANGED <<memory, broker, history>>

-----------------------------------------------------------------------------
(* The broker and the process (external).                                  *)

\* A copy's time to live in its retry queue is over: back to the main queue.
RetryDue(c) ==
  /\ retry[c] > 0
  /\ retry' = [retry EXCEPT ![c] = @ - 1] /\ main' = Append(main, c)
  /\ UNCHANGED <<memory, channel, subscribed, running, history>>

\* The connection is cut, perhaps after the retry of s arrived and before its acknowledgement.
ConnectionCut(arrived) ==
  /\ channel # "broken" /\ faults < MaxFaults
  /\ arrived \subseteq Held
  /\ \A s \in arrived : running[s].copy.n < config.maxRetries
  /\ retry' = [c \in Copy |-> IF \E s \in arrived : c = [running[s].copy EXCEPT !.n = @ + 1]
                              THEN retry[c] + 1 ELSE retry[c]]
  /\ main' = TakenBack(Held) /\ running' = Orphaned(Restrict(running, DOMAIN running \ arrived))
  /\ channel' = "broken" /\ subscribed' = FALSE
  /\ overlapped' = (overlapped \/ running # <<>>) /\ faults' = faults + 1
  /\ mixed' = mixed \cup {running[s].copy.id : s \in arrived}
  /\ UNCHANGED <<memory, sent, done, dead, refused, misacked>>

\* A restart: the queues are durable, everything in memory is gone.
Restart ==
  /\ faults < MaxFaults /\ faults' = faults + 1
  /\ config' = DefaultConfig /\ consuming' = FALSE
  /\ rows' = <<>> /\ status' = [m \in Msg |-> "none"] /\ attempts' = [m \in Msg |-> 0]
  /\ channel' \in {"up", "broken"} /\ subscribed' = FALSE
  /\ main' = TakenBack(Held) /\ running' = <<>>
  /\ overlapped' = (overlapped \/ running # <<>>)
  /\ mixed' = mixed \cup sent
  /\ UNCHANGED <<retry, sent, done, dead, refused, misacked>>

Next ==
  \/ \E c \in Configs : StartConsuming(c)
  \/ StopConsuming \/ StopRefused \/ StopReopened
  \/ \E m \in Msg : SendMessage(m) \/ RetryDeadMessage(m) \/ DiscardDeadMessage(m)
  \/ DiscardAllDead \/ ClearAll
  \/ \E s \in Slot : Deliver(s) \/ Finish(s) \/ FinishThrows(s)
  \/ \E c \in Copy : RetryDue(c)
  \/ \E arrived \in SUBSET Slot : ConnectionCut(arrived)
  \/ Restart

Spec == Init /\ [][Next]_vars
\* The broker delivers and returns what is due; timers of running handlers fire.
FairSpec ==
  /\ Spec /\ WF_vars(\E s \in Slot : Deliver(s))
  /\ \A s \in Slot : WF_vars(Finish(s))
  /\ \A c \in Copy : WF_vars(RetryDue(c))

-----------------------------------------------------------------------------
(* Properties.                                                             *)

\* Queues, rows, handlers; the broker holds at most one delivery (prefetch 1).
TypeOK ==
  /\ config \in Configs \cup {DefaultConfig} /\ consuming \in BOOLEAN
  /\ rows \in Seq(Msg) /\ Len(rows) <= RowCap
  /\ status \in [Msg -> {"none", "processing", "retry", "completed", "dead"}]
  /\ attempts \in [Msg -> 0..(FailCount + 1)]
  /\ channel \in {"up", "closing", "broken"} /\ subscribed \in BOOLEAN
  /\ main \in Seq(Copy) /\ retry \in [Copy -> Nat]
  /\ DOMAIN running \subseteq Slot /\ \A s \in DOMAIN running : running[s] \in Handler
  /\ sent \subseteq Msg /\ done \subseteq Msg /\ dead \subseteq Msg
  /\ refused \subseteq Msg /\ mixed \subseteq Msg
  /\ misacked \in BOOLEAN /\ overlapped \in BOOLEAN /\ faults \in 0..MaxFaults
  /\ Cardinality(Held) <= 1

Queued(m)  == \E i \in DOMAIN main : main[i].id = m
Waiting(m) == \E c \in Copy : c.id = m /\ retry[c] > 0
Working(m) == \E s \in Held : running[s].copy.id = m
Alive(m)   == Queued(m) \/ Waiting(m) \/ Working(m)

\* At least once: whatever is stopped, cut or restarted, a message the broker has
\* taken stays with it until it was processed or dead-lettered -- unless an old tag
\* acknowledged somebody else's delivery.
NotLost == misacked \/ \A m \in sent : Alive(m) \/ m \in done \/ m \in dead

\* As long as no delivery was taken back from a running handler, the rows tell the
\* truth: what is shown as dead or completed is in no queue, the rest is in one.
\* (A send that threw leaves a row behind.)
RowsTellTruth ==
  overlapped \/ \A m \in Msg \ refused :
     /\ status[m] \in {"dead", "completed"} => ~Alive(m)
     /\ status[m] \in {"processing", "retry"} => Alive(m)

\* The mode first_n with enough retries never gives a message up: attempts are
\* counted in memory and retries in a header, and only a clear, a restart or a
\* duplicate that was processed before may set them apart.
FirstNRecovers == misacked \/ dead \subseteq mixed \cup done

\* A subscription is only there while the service knows of it, so that a second
\* startConsuming cannot subscribe twice.
KnownSubscription == subscribed => consuming /\ channel = "up"

\* What the broker and the consumer keep between them at every moment.
DlqPromises == TypeOK /\ NotLost /\ FirstNRecovers /\ KnownSubscription

\* While the consumer stays subscribed and nobody sends dead messages back, every
\* message, with all its duplicates, is processed or dead in the end.
EveryMessageSettles ==
  /\ <>[](subscribed /\ channel = "up")
  /\ <>[][\A m \in Msg : ~RetryDeadMessage(m)]_vars
  => <>[](\A m \in Msg : ~Alive(m))
=============================================================================
