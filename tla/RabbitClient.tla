---------------------------- MODULE RabbitClient ----------------------------
(***************************************************************************)
(* RabbitmqService over its one channel, for one queue: what the queue     *)
(* holds, the consumers RabbitMQ has for it, and activeConsumers, in which *)
(* the service looks before it adds one.  The routes of RabbitmqController *)
(* are requests; a step is what runs between two awaits, with the command  *)
(* it sends.  Answers come in any order, which is more than one channel    *)
(* does.  Message texts and the list of the last 100 are left out.         *)
(***************************************************************************)
EXTENDS Naturals, FiniteSets

CONSTANTS
  Req,        \* request slots
  None,
  MaxMessages,\* bound on the messages in the queue
  MaxTags,    \* bound on the consumers RabbitMQ makes
  MaxCalls    \* bound on the requests

VARIABLES
  exists, bound, ready,  \* the queue, its binding to the exchange, its messages
  consumers,  \* the consumer tags RabbitMQ delivers to
  registry,   \* activeConsumers.get(queue)
  open,       \* the channel is open
  tags,       \* how many tags RabbitMQ gave
  req, calls,
  crossed     \* history: a request acted on a registry that was out of date

queue == <<exists, bound, ready>>
vars  == <<queue, consumers, registry, open, tags, req, calls, crossed>>

\* demo: the request goes on from bind to consume to publish.
Route == {"send", "consume", "cancel", "delete", "bind", "publish", "demo"}
Idle  == [route |-> None, at |-> "idle", tag |-> None]

Init ==
  /\ exists = FALSE /\ bound = FALSE /\ ready = 0 /\ consumers = {} /\ registry = None
  /\ open = TRUE /\ tags = 0 /\ req = [r \in Req |-> Idle] /\ calls = 0 /\ crossed = FALSE

At(r, l)        == req[r].at = l /\ open
Goto(r, l)      == req' = [req EXCEPT ![r].at = l]
Return(r)       == req' = [req EXCEPT ![r] = Idle]

\* What the service is asked for first, and by a demonstration after the consumer.
First(route) == IF route = "demo" THEN "bind" ELSE IF route = "delete" THEN "cancel" ELSE route
After(r) == IF req[r].route = "demo" THEN Goto(r, "publish") ELSE Return(r)

\* The route's first command: it asserts the queue or the exchange, which a
\* publish does not see here; a cancel or a delete looks first.
Request(r, route) ==
  /\ req[r] = Idle /\ open /\ calls < MaxCalls /\ calls' = calls + 1
  /\ exists' = (exists \/ route \in {"send", "consume", "bind", "demo"})
  /\ req' = [req EXCEPT ![r] = [route |-> route, at |-> First(route), tag |-> None]]
  /\ UNCHANGED <<bound, ready, consumers, registry, open, tags, crossed>>

\* A command on a queue that is gone closes the channel: no more of it works.
Close(r) ==
  /\ open' = FALSE /\ consumers' = {} /\ Return(r)
  /\ UNCHANGED <<queue, registry, tags, calls, crossed>>

\* sendToQueue: the default exchange drops what has no queue.
SendToQueue(r) ==
  /\ At(r, "send")
  /\ ready' = IF exists /\ ready < MaxMessages THEN ready + 1 ELSE ready
  /\ Return(r)
  /\ UNCHANGED <<exists, bound, consumers, registry, open, tags, calls, crossed>>

BindQueueToExchange(r) ==
  /\ At(r, "bind")
  /\ IF ~exists THEN Close(r)
     ELSE /\ bound' = TRUE
          /\ IF req[r].route = "demo" THEN Goto(r, "consume") ELSE Return(r)
          /\ UNCHANGED <<exists, ready, consumers, registry, open, tags, calls, crossed>>

PublishToExchange(r) ==
  /\ At(r, "publish")
  /\ ready' = IF bound /\ ready < MaxMessages THEN ready + 1 ELSE ready
  /\ Return(r)
  /\ UNCHANGED <<exists, bound, consumers, registry, open, tags, calls, crossed>>

\* Mutant: the registry is not looked at.
ConsumeAlways(r) ==
  /\ At(r, "consume") /\ exists
  /\ tags < MaxTags /\ tags' = tags + 1
  /\ consumers' = consumers \cup {tags + 1}
  /\ req' = [req EXCEPT ![r].at = "register", ![r].tag = tags + 1]
  /\ UNCHANGED <<queue, registry, open, calls, crossed>>
\* consume, once the queue is asserted: the registry is read and the command sent.
Consume(r) ==
  /\ At(r, "consume")
  /\ IF registry # None
     THEN After(r) /\ UNCHANGED <<queue, consumers, registry, open, tags, calls, crossed>>
     ELSE IF ~exists THEN Close(r)
     ELSE /\ tags < MaxTags /\ tags' = tags + 1
          /\ consumers' = consumers \cup {tags + 1}
          /\ req' = [req EXCEPT ![r].at = "register", ![r].tag = tags + 1]
          /\ crossed' = (crossed \/ \E q \in Req : req[q].at = "register")
          /\ UNCHANGED <<queue, registry, open, calls>>
Register(r) ==
  /\ At(r, "register") /\ registry' = req[r].tag
  /\ crossed' = (crossed \/ req[r].tag \notin consumers)
  /\ After(r)
  /\ UNCHANGED <<queue, consumers, open, tags, calls>>

\* The callback runs and acknowledges at once.
Deliver ==
  /\ open /\ ready > 0 /\ consumers # {} /\ ready' = ready - 1
  /\ UNCHANGED <<exists, bound, consumers, registry, open, tags, req, calls, crossed>>

\* cancelConsumer: the tag is looked up and its cancellation sent; a delete goes on.
AfterCancel(r) == IF req[r].route = "delete" THEN Goto(r, "deleteQueue") ELSE Return(r)
CancelConsumer(r) ==
  /\ At(r, "cancel")
  /\ IF registry = None THEN AfterCancel(r) /\ UNCHANGED consumers
     ELSE /\ req' = [req EXCEPT ![r].at = "unregister", ![r].tag = registry]
          /\ consumers' = consumers \ {registry}
  /\ UNCHANGED <<queue, registry, open, tags, calls, crossed>>
Unregister(r) ==
  /\ At(r, "unregister") /\ registry' = None
  /\ crossed' = (crossed \/ registry # req[r].tag)
  /\ AfterCancel(r)
  /\ UNCHANGED <<queue, consumers, open, tags, calls>>

\* RabbitMQ cancels what still consumes from the queue.
DeleteQueue(r) ==
  /\ At(r, "deleteQueue")
  /\ exists' = FALSE /\ bound' = FALSE /\ ready' = 0 /\ consumers' = {}
  /\ crossed' = (crossed \/ consumers # {})
  /\ Return(r)
  /\ UNCHANGED <<registry, open, tags, calls>>

\* purgeQueue asserts nothing: without the queue the channel closes.
PurgeQueue(r) ==
  /\ req[r] = Idle /\ open /\ calls < MaxCalls
  /\ IF exists
     THEN /\ ready > 0 /\ ready' = 0 /\ calls' = calls + 1
          /\ UNCHANGED <<exists, bound, consumers, registry, open, tags, req, crossed>>
     ELSE Close(r)

Next ==
  \/ \E r \in Req :
       \/ \E route \in Route : Request(r, route)
       \/ SendToQueue(r) \/ BindQueueToExchange(r) \/ PublishToExchange(r)
       \/ Consume(r) \/ Register(r) \/ CancelConsumer(r) \/ Unregister(r)
       \/ DeleteQueue(r) \/ PurgeQueue(r)
  \/ Deliver

Spec == Init /\ [][Next]_vars

-----------------------------------------------------------------------------
\* RabbitMQ's consumers and the registry agree: each consumer is the registered
\* one or about to be, and the registered one still consumes or is about to be
\* struck off.  The registry is read before the subscription or cancellation is
\* answered and written after: two consumes, a consume and a delete, or two
\* cancels and a consume that cross are the only ways out, and a closed channel.
ConsumersRegistered ==
  open => \/ crossed
          \/ /\ \A t \in consumers : registry = t \/ \E r \in Req : req[r].at = "register" /\ req[r].tag = t
             /\ registry # None => \/ registry \in consumers
                                   \/ \E r \in Req : req[r].at = "unregister" /\ req[r].tag = registry
=============================================================================
