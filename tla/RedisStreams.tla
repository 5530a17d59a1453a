---------------------------- MODULE RedisStreams ----------------------------
(***************************************************************************)
(* One stream and one consumer group of RedisStreamsService: entries are   *)
(* added and trimmed, consumer loops (startConsumer) and clients of        *)
(* RedisStreamsController read what is new to the group, handle it and     *)
(* acknowledge it.  Redis is modelled by what its commands answer; entry   *)
(* ids are counted.  What readMessages and readLatestMessages show is the  *)
(* entries themselves and left out.                                        *)
(***************************************************************************)
EXTENDS Naturals, Sequences

CONSTANTS
  Loop,       \* the consumer loops one process may start
  None,
  BatchSize,  \* batchSize
  MaxEntries, \* bound on the entries added
  MaxFaults   \* bound on failed handlers and process exits

VARIABLES
  entries,    \* the stream
  top,        \* the last id it gave
  group,      \* the group's last-delivered-id; None without a group
  since,      \* the id the group was made at
  pending,    \* the group's pending entries list
  consuming,  \* isConsuming
  loop,       \* the loops: where they are, the messages they still have
  given,      \* entries an HTTP client was given
  faults,
  \* history
  handled,    \* how often a handler was called with an entry
  acked, failed

redis == <<entries, top, group, since, pending>>
vars  == <<redis, consuming, loop, given, faults, handled, acked, failed>>

Entry == 1..MaxEntries
Off   == [at |-> "off", batch |-> <<>>]

Init ==
  /\ entries = {} /\ top = 0 /\ group = None /\ since = 0 /\ pending = {}
  /\ consuming = FALSE /\ loop = [l \in Loop |-> Off] /\ given = {} /\ faults = 0
  /\ handled = [e \in Entry |-> 0] /\ acked = {} /\ failed = {}

Fresh == {e \in entries : e > group}
Items(q)  == {q[i] : i \in DOMAIN q}
Rising(q) == \A i, j \in DOMAIN q : i < j => q[i] < q[j]
\* The n first of S in order, or all if there are no more: one sequence, none if S is empty.
FirstOf(S, n) == {q \in UNION {[1..k -> S] : k \in 1..n} :
                    Rising(q) /\ \A e \in S \ Items(q) : Len(q) = n /\ q[n] < e}
InHand    == UNION {Items(loop[l].batch) : l \in Loop}

-----------------------------------------------------------------------------
(* The stream.                                                             *)

AddMessage ==
  /\ top < MaxEntries /\ top' = top + 1 /\ entries' = entries \cup {top + 1}
  /\ UNCHANGED <<group, since, pending, consuming, loop, given, faults, handled, acked, failed>>

\* XTRIM, or XADD with MAXLEN: the oldest go; the group's list keeps them.
TrimStream ==
  /\ \E e \in entries : entries' = {d \in entries : d > e}
  /\ UNCHANGED <<top, group, since, pending, consuming, loop, given, faults, handled, acked, failed>>

\* The groups go with the stream.
DeleteStream ==
  /\ group # None \/ entries # {}
  /\ entries' = {} /\ group' = None /\ pending' = {}
  /\ UNCHANGED <<top, since, consuming, loop, given, faults, handled, acked, failed>>

\* XGROUP CREATE with MKSTREAM; BUSYGROUP if there is one.
Group(start) ==
  IF group = None THEN group' = start /\ since' = start ELSE UNCHANGED <<group, since>>
CreateConsumerGroup(start) ==
  /\ group = None /\ Group(start)
  /\ UNCHANGED <<entries, top, pending, consuming, loop, given, faults, handled, acked, failed>>

-----------------------------------------------------------------------------
(* startConsumer: each call is a loop of its own, and all share the flag.  *)

StartConsumer(l) ==
  /\ loop[l] = Off /\ Group(top)
  /\ consuming' = TRUE /\ loop' = [loop EXCEPT ![l].at = "read"]
  /\ UNCHANGED <<entries, top, pending, given, faults, handled, acked, failed>>
StopConsumer ==
  /\ consuming /\ consuming' = FALSE
  /\ UNCHANGED <<redis, loop, given, faults, handled, acked, failed>>
LoopEnds(l) ==
  /\ loop[l].at = "read" /\ ~consuming /\ loop' = [loop EXCEPT ![l] = Off]
  /\ UNCHANGED <<redis, consuming, given, faults, handled, acked, failed>>

Deliver(q) == group' = q[Len(q)] /\ pending' = pending \cup Items(q)
\* Mutant: the id is "0", so what is pending is read too.
ReadPendingToo(l) ==
  /\ loop[l].at = "read" /\ consuming
  /\ group # None
  /\ \E q \in FirstOf(Fresh \cup (pending \cap entries), BatchSize) :
     /\ group' = (IF q[Len(q)] > group THEN q[Len(q)] ELSE group) /\ pending' = pending \cup Items(q)
     /\ loop' = [loop EXCEPT ![l] = [at |-> "handle", batch |-> q]]
  /\ UNCHANGED <<entries, top, since, consuming, given, faults, handled, acked, failed>>
\* XREADGROUP with ">" of fresh entries; a group that is gone is an error
\* every second, a block that times out an empty answer.
ReadFromGroup(l) ==
  /\ loop[l].at = "read" /\ consuming
  /\ group # None
  /\ \E q \in FirstOf(Fresh, BatchSize) :
       Deliver(q) /\ loop' = [loop EXCEPT ![l] = [at |-> "handle", batch |-> q]]
  /\ UNCHANGED <<entries, top, since, consuming, given, faults, handled, acked, failed>>

\* The next message of the batch, or the next batch.
Rest(q) == [at |-> IF Len(q) = 1 THEN "read" ELSE "handle", batch |-> Tail(q)]
Handled(l) ==
  LET e == Head(loop[l].batch) IN
  /\ loop[l].at = "handle" /\ handled' = [handled EXCEPT ![e] = @ + 1]
  /\ UNCHANGED <<redis, consuming, given, acked>>
HandlerReturns(l) ==
  /\ Handled(l) /\ loop' = [loop EXCEPT ![l].at = "ack"]
  /\ UNCHANGED <<faults, failed>>
\* Mutant: the try is around the whole batch.
HandlerThrowsOut(l) ==
  /\ Handled(l) /\ faults < MaxFaults /\ faults' = faults + 1
  /\ failed' = failed \cup Items(loop[l].batch)
  /\ loop' = [loop EXCEPT ![l] = [at |-> "read", batch |-> <<>>]]
\* Logged; the message stays pending.
HandlerThrows(l) ==
  /\ Handled(l) /\ faults < MaxFaults /\ faults' = faults + 1
  /\ failed' = failed \cup {Head(loop[l].batch)}
  /\ loop' = [loop EXCEPT ![l] = Rest(loop[l].batch)]
Acknowledge(l) ==
  LET e == Head(loop[l].batch) IN
  /\ loop[l].at = "ack"
  /\ pending' = pending \ {e} /\ acked' = acked \cup {e}
  /\ loop' = [loop EXCEPT ![l] = Rest(loop[l].batch)]
  /\ UNCHANGED <<entries, top, group, since, consuming, given, faults, handled, failed>>

\* The timer's claimStuckMessages: the claimed messages are dropped, and a
\* claim takes an entry that was trimmed off the group's list.
ClaimTimer ==
  /\ consuming /\ ~(pending \subseteq entries)
  /\ \E e \in pending \ entries : pending' = pending \ {e}
  /\ UNCHANGED <<entries, top, group, since, consuming, loop, given, faults, handled, acked, failed>>

\* The process exits; Redis keeps the group and its pending entries.
Crash ==
  /\ faults < MaxFaults /\ faults' = faults + 1 /\ \E l \in Loop : loop[l] # Off
  /\ failed' = failed \cup InHand /\ consuming' = FALSE /\ loop' = [l \in Loop |-> Off]
  /\ UNCHANGED <<redis, given, handled, acked>>

-----------------------------------------------------------------------------
(* A client of the routes groups/consume, groups/ack and claim.            *)

ConsumeFromGroup ==
  /\ group # None
  /\ \E q \in FirstOf(Fresh, BatchSize) : Deliver(q) /\ given' = given \cup Items(q)
  /\ UNCHANGED <<entries, top, since, consuming, loop, faults, handled, acked, failed>>
ClaimStuckMessages(e) ==
  /\ e \in pending \cap entries /\ e \notin given /\ given' = given \cup {e}
  /\ UNCHANGED <<redis, consuming, loop, faults, handled, acked, failed>>
ClientAcknowledges(e) ==
  /\ e \in given \cap pending
  /\ pending' = pending \ {e} /\ acked' = acked \cup {e}
  /\ UNCHANGED <<entries, top, group, since, consuming, loop, given, faults, handled, failed>>

Runs(l) == ReadFromGroup(l) \/ HandlerReturns(l) \/ HandlerThrows(l) \/ Acknowledge(l)
Next ==
  \/ AddMessage \/ TrimStream \/ DeleteStream \/ \E start \in {0, top} : CreateConsumerGroup(start)
  \/ \E l \in Loop : StartConsumer(l) \/ LoopEnds(l) \/ Runs(l)
  \/ StopConsumer \/ ClaimTimer \/ Crash
  \/ ConsumeFromGroup \/ \E e \in Entry : ClaimStuckMessages(e) \/ ClientAcknowledges(e)

\* A loop that has begun goes on.
Fairness == \A l \in Loop : WF_vars(Runs(l))
FairSpec == Init /\ [][Next]_vars /\ Fairness

-----------------------------------------------------------------------------
\* A handler gets an entry at most once, whatever loops and clients share the
\* group: what fails is not tried again (which the comment in startConsumer
\* denies, see FailedIsRetried).  What the group was given it owes or
\* was acknowledged (unless it was trimmed), and it owes only what somebody has
\* in hand, what failed, and what a client was given.
StreamAccounts ==
  /\ \A e \in Entry : handled[e] <= 1
  /\ group # None => \A e \in entries : since < e /\ e <= group => e \in pending \cup acked
  /\ pending \subseteq InHand \cup failed \cup given

\* As long as the service consumes, what is new to the group reaches a handler
\* or a client, also with several loops and after a stop and a start.
FreshIsHandled ==
  \A e \in Entry :
    (group # None /\ e \in Fresh) ~>
      (handled[e] > 0 \/ e \in given \/ e \notin entries \/ group = None \/ ~consuming)

\* "Message stays in pending - will be retried or claimed" (startConsumer, of a
\* message whose handler threw): as long as the service consumes and the stream
\* keeps the entry, it reaches a handler again or a client.  The code does not
\* keep this: loops read only what is new to the group, and what the timer
\* claims is dropped, a stutter here, however often the timer fires.
FailedIsRetried ==
  \A e \in Entry :
    (e \in failed /\ handled[e] = 1) ~>
      (handled[e] > 1 \/ e \in given \/ e \notin entries \/ group = None \/ ~consuming)
=============================================================================
