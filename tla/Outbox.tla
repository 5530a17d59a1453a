------------------------------- MODULE Outbox -------------------------------
(***************************************************************************)
(* OutboxService: orders and outbox rows written together in memory, and a *)
(* relay that polls the outbox every second and publishes what is pending. *)
(*                                                                         *)
(* Ids number the orders in the order of creation; an outbox row has its   *)
(* order's id.  A poll is one synchronous callback.  channel.publish only  *)
(* buffers: a message is on the wire until the broker has it.  Retry and   *)
(* poll counters are statistics nothing depends on and are left out.       *)
(***************************************************************************)
EXTENDS Integers, Sequences, FiniteSets, Functions

CONSTANTS
  MaxOrders,   \* bound on the orders created
  MaxClock,    \* bound on the distinct creation instants
  OrdersCap,   \* rows kept in orders (50)
  OutboxCap,   \* rows kept in outbox (100), at least as many
  MaxFaults    \* bound on restarts, connection losses and clears

ASSUME OutboxAssumption == MaxOrders \in Nat /\ OutboxCap \in Nat \ {0}

VARIABLES
  orders, outbox,  \* the tables, newest row first
  pending,         \* ids of the outbox rows with status pending
  createdAt,       \* creation instant of each row
  relayRunning, brokerDown,
  channel,         \* is the AMQP channel usable
  wire,            \* published, not yet with the broker
  clock,
  \* history
  created,         \* orders created so far
  published,       \* every id handed to channel.publish, in order
  queue,           \* everything that reached outbox.orders, in order
  faults

tables == <<orders, outbox, pending, createdAt, created>>
relay  == <<relayRunning, brokerDown>>
broker == <<channel, wire, published, queue>>
vars   == <<tables, relay, broker, clock, faults>>

Id == 1..MaxOrders

Init ==
  /\ orders = <<>> /\ outbox = <<>> /\ pending = {}
  /\ createdAt = [n \in Id |-> 0] /\ created = 0
  /\ relayRunning = FALSE /\ brokerDown = FALSE
  /\ channel \in BOOLEAN      \* onModuleInit logs a failed connection and goes on
  /\ wire = <<>> /\ published = <<>> /\ queue = <<>>
  /\ clock = 0 /\ faults = 0

Newest(s, cap) == SubSeq(s, 1, IF Len(s) < cap THEN Len(s) ELSE cap)

-----------------------------------------------------------------------------
\* Mutant: the row is never pending.
CreateOrderUnmarked ==
  LET n == created + 1 IN
  /\ created < MaxOrders
  /\ created' = n
  /\ createdAt' = [createdAt EXCEPT ![n] = clock]
  /\ orders' = Newest(<<n>> \o orders, OrdersCap)
  /\ outbox' = Newest(<<n>> \o outbox, OutboxCap)
  /\ pending' = pending \cap Range(outbox')
  /\ UNCHANGED <<relay, broker, clock, faults>>

\* createOrder: both rows at the front, then each table cut to its own size.
\* createOrderBatch is this several times within one instant.
CreateOrder ==
  LET n == created + 1 IN
  /\ created < MaxOrders
  /\ created' = n
  /\ createdAt' = [createdAt EXCEPT ![n] = clock]
  /\ orders' = Newest(<<n>> \o orders, OrdersCap)
  /\ outbox' = Newest(<<n>> \o outbox, OutboxCap)
  /\ pending' = (pending \cup {n}) \cap Range(outbox')
  /\ UNCHANGED <<relay, broker, clock, faults>>

StartRelay == /\ ~relayRunning /\ relayRunning' = TRUE
              /\ UNCHANGED <<tables, brokerDown, broker, clock, faults>>
StopRelay  == /\ relayRunning /\ relayRunning' = FALSE
              /\ UNCHANGED <<tables, brokerDown, broker, clock, faults>>
SetBrokerDown(down) == /\ brokerDown' = down
                       /\ UNCHANGED <<tables, relayRunning, broker, clock, faults>>

\* Mutant: newest first.
NewestFirst(m, n) == m > n
\* By createdAt; the sort is stable over a newest-first table.
Before(m, n) == createdAt[m] < createdAt[n] \/ (createdAt[m] = createdAt[n] /\ m > n)

\* The pending rows in the one order in which each goes before the later ones.
Due == {s \in [1..Cardinality(pending) -> pending] : \A i, j \in DOMAIN s : i < j => Before(s[i], s[j])}

\* Mutant: the rows stay pending.
PollUnmarked ==
  /\ relayRunning /\ pending # {}
  /\ ~brokerDown /\ channel
  /\ \E due \in Due : wire' = wire \o due /\ published' = published \o due
  /\ UNCHANGED <<tables, relay, channel, queue, clock, faults>>

\* Mutant: without a channel the rows are marked all the same.
PollUnheard ==
  /\ relayRunning /\ pending # {}
  /\ ~brokerDown
  /\ \E due \in Due : /\ wire' = IF channel THEN wire \o due ELSE wire
                      /\ published' = published \o due
  /\ pending' = {}
  /\ UNCHANGED <<orders, outbox, createdAt, created, relay, channel, queue, clock, faults>>

\* runRelayPoll, when it gets anything out: each row is published and marked.
\* With the broker down or the channel gone every row stays pending.
Poll ==
  /\ relayRunning /\ pending # {}
  /\ ~brokerDown /\ channel
  /\ \E due \in Due : wire' = wire \o due /\ published' = published \o due
  /\ pending' = {}
  /\ UNCHANGED <<orders, outbox, createdAt, created, relay, channel, queue, clock, faults>>

\* clearAll: the tables, not the relay nor the simulated outage.
ClearAll ==
  /\ faults < MaxFaults /\ faults' = faults + 1
  /\ orders' = <<>> /\ outbox' = <<>> /\ pending' = {}
  /\ UNCHANGED <<createdAt, created, relay, broker, clock>>

-----------------------------------------------------------------------------
\* The broker takes the next message into the bound queue (external).
Receive ==
  /\ wire # <<>>
  /\ wire' = Tail(wire) /\ queue' = Append(queue, Head(wire))
  /\ UNCHANGED <<tables, relay, channel, published, clock, faults>>

\* The connection is lost: nothing reopens the channel, the buffer is gone.
ConnectionLost ==
  /\ channel /\ faults < MaxFaults /\ faults' = faults + 1
  /\ channel' = FALSE /\ wire' = <<>>
  /\ UNCHANGED <<tables, relay, published, queue, clock>>

\* A restart: everything in memory is gone; the module connects again or fails to.
Restart ==
  /\ faults < MaxFaults /\ faults' = faults + 1
  /\ orders' = <<>> /\ outbox' = <<>> /\ pending' = {}
  /\ relayRunning' = FALSE /\ brokerDown' = FALSE
  /\ channel' \in BOOLEAN /\ wire' = <<>>
  /\ UNCHANGED <<createdAt, created, published, queue, clock>>

Tick == clock < MaxClock /\ clock' = clock + 1
        /\ UNCHANGED <<tables, relay, broker, faults>>

Next ==
  \/ CreateOrder \/ StartRelay \/ StopRelay \/ Poll \/ ClearAll
  \/ \E down \in BOOLEAN : SetBrokerDown(down)
  \/ Receive \/ ConnectionLost \/ Restart \/ Tick

Spec == Init /\ [][Next]_vars
\* The interval of a running relay fires and the network makes progress.
Fairness == WF_vars(Poll) /\ WF_vars(Receive)

-----------------------------------------------------------------------------
(* Properties.                                                             *)

\* The relay implements the outbox promise as far as safety goes: a row is
\* pending from the commit of its order until its event is handed to the
\* client, which happens once, and every event handed over is received once,
\* unless the rows that are pending fill the table or a fault takes them or the
\* buffer.  A row marked published whose event nobody handed over, an event
\* handed over again, or one that goes missing without a fault is none of the
\* promise's steps.
Promise == INSTANCE OutboxPromise WITH
  committed <- 1..created, owed <- pending, transit <- wire, delivered <- queue,
  accidents <- faults, Room <- OutboxCap
PromiseSpec == Promise!Spec

\* No event is published or received twice, over the whole run and not only on the wire,
\* and "ORDER BY created_at": events leave in the order of their creation instants, across
\* polls, outages and restarts.
EventsInOrder ==
  /\ IsInjective(published) /\ Promise!EachOnce
  /\ \A i, j \in DOMAIN published : i < j => createdAt[published[i]] <= createdAt[published[j]]

\* With the relay left running, the broker up and no fault, every order's event
\* reaches the consumers' queue, whatever outages came before -- provided no more
\* orders are created than the outbox keeps: a pending row beyond that is evicted.
Steady == relayRunning /\ ~brokerDown /\ channel /\ faults = 0 /\ created <= OutboxCap
EveryEventArrives ==
  <>[]Steady => \A n \in Id : n <= created ~> n \in Range(queue)
=============================================================================
