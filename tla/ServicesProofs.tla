---------------------------- MODULE ServicesProofs --------------------------
(***************************************************************************)
(* What the stand-alone services promise, for every value of the bounds.   *)
(*                                                                         *)
(* Each service has its part, and its definitions and lemmas the letter of *)
(* its instance in MCServices: an invariant, a lemma per action that says  *)
(* why the action keeps it, and the theorem.  At the end a behaviour of    *)
(* the whole is one of each service, and so keeps what each of them keeps. *)
(*                                                                         *)
(* Q  While no requests crossed, at most one consumer waits to be          *)
(*    registered, in an empty registry, and who is struck off consumes no  *)
(*    more: what the registry says is then never wrong for long.           *)
(* R  What is in a hand was delivered once: nothing a loop holds can be    *)
(*    delivered again, is in another loop's hand, or was handled before.   *)
(* F  Whoever has still to tell of the last write will tell the truth.     *)
(* P  A session is in the key from sadd to srem, and while a call that     *)
(*    found none is about to leave presence:online no other has been added.*)
(* W  The last event about a socket on the way to an instance is true.     *)
(* S  Where a saga is, on its way out or back, tells what was sent and     *)
(*    which of the steps behind it are settled.                            *)
(* O  A pending row is one of a committed order, never handed over, and no *)
(*    older than any that was; the rows that are pending are the newest of *)
(*    the table, so that only a table full of them forgets one.            *)
(***************************************************************************)
EXTENDS MCServices, FiniteSetTheorems, TLAPS

-----------------------------------------------------------------------------
(* RabbitMQ client: QInv                                                   *)

\* What the assumption says of the tags.
LEMMA QNone == None \notin Nat
  BY ServicesAssumption

QAt == {"idle", "send", "consume", "cancel", "delete", "bind", "publish", "demo",
        "register", "unregister", "deleteQueue"}
QTag == Nat \cup {None}
QRow == [route : Q!Route \cup {None}, at : QAt, tag : QTag]
QTyped ==
  /\ rreq \in [Req -> QRow] /\ tags \in Nat
  /\ consumers \subseteq 1..tags /\ registry \in 1..tags \cup {None}
  /\ \A r \in Req : rreq[r].at \in {"register", "unregister"} => rreq[r].tag \in 1..tags
\* While nothing crossed, one consumer at most is about to be registered, in an
\* empty registry, and who is struck off consumes no more.
QInHand ==
  open /\ ~crossed =>
    /\ \A r, q \in Req : rreq[r].at = "register" /\ rreq[q].at = "register" => r = q
    /\ \A r \in Req : rreq[r].at = "register" => registry = None
    /\ \A r \in Req : rreq[r].at = "unregister" => rreq[r].tag \notin consumers
QInv == QTyped /\ QInHand /\ Q!ConsumersRegistered

\* No request, no consumer.
LEMMA QInitInv == Q!Init => QInv
  BY DEF Q!Init, Q!Idle, QInv, QTyped, QRow, QAt, QTag, QInHand, Q!ConsumersRegistered

\* A request that goes on to a step at which it holds no tag.
LEMMA QMoves ==
  ASSUME QInv, NEW r \in Req, NEW new \in QRow, new.at \notin {"register", "unregister"},
         rreq' = [rreq EXCEPT ![r] = new], rreq[r].at \notin {"register", "unregister"},
         UNCHANGED <<consumers, registry, open, tags, crossed>>
  PROVE  QInv'
<1>1. rreq'[r] = new /\ (\A q \in Req \ {r} : rreq'[q] = rreq[q]) /\ rreq' \in [Req -> QRow]
  BY DEF QInv, QTyped
<1>2. QTyped' /\ QInHand'
  BY <1>1 DEF QInv, QTyped, QInHand
<1>3. Q!ConsumersRegistered'
  BY <1>1 DEF QInv, Q!ConsumersRegistered
<1> QED
  BY <1>2, <1>3 DEF QInv

\* The channel closes.
LEMMA QCloses ==
  ASSUME QInv, NEW r \in Req, Q!Close(r), rreq[r].at \notin {"register", "unregister"}
  PROVE  QInv'
<1>1. Q!Idle \in QRow /\ Q!Idle.at = "idle"
  BY DEF Q!Idle, QRow, QAt, QTag
<1>2. rreq' = [rreq EXCEPT ![r] = Q!Idle] /\ open' = FALSE /\ consumers' = {} /\ UNCHANGED <<tags, registry>>
  BY DEF Q!Close, Q!Return
<1>3. rreq'[r] = Q!Idle /\ (\A q \in Req \ {r} : rreq'[q] = rreq[q]) /\ rreq' \in [Req -> QRow]
  BY <1>1, <1>2 DEF QInv, QTyped
<1> QED
  BY <1>1, <1>2, <1>3 DEF QInv, QTyped, QInHand, Q!ConsumersRegistered

\* A new request holds no tag.
LEMMA QRequestInv ==
  ASSUME QInv, NEW r \in Req, NEW route \in Q!Route, Q!Request(r, route) PROVE QInv'
<1> DEFINE new == [route |-> route, at |-> Q!First(route), tag |-> None]
<1>1. new \in QRow /\ new.at \notin {"register", "unregister"}
  BY DEF QRow, QAt, QTag, Q!First, Q!Route
<1>2. rreq' = [rreq EXCEPT ![r] = new] /\ rreq[r].at = "idle"
  BY DEF Q!Request, Q!Idle
<1> QED
  BY <1>1, <1>2, QMoves DEF Q!Request

\* The rows a request goes on to.
LEMMA QRows ==
  ASSUME QInv, NEW r \in Req
  PROVE  /\ Q!Idle \in QRow /\ Q!Idle.at = "idle"
         /\ \A l \in QAt : [rreq[r] EXCEPT !.at = l] \in QRow /\ [rreq[r] EXCEPT !.at = l].at = l
         /\ \A l \in QAt : Q!Goto(r, l) => rreq' = [rreq EXCEPT ![r] = [rreq[r] EXCEPT !.at = l]]
         /\ rreq[r].at \in QAt
  BY DEF QInv, QTyped, QRow, QTag, QAt, Q!Idle, Q!Goto

\* A request that goes on or returns: its new row is a row.
LEMMA QGoesOrReturns ==
  ASSUME QInv, NEW r \in Req, NEW l \in QAt \ {"register", "unregister"}, Q!Goto(r, l) \/ Q!Return(r)
  PROVE  \E new \in QRow : new.at \notin {"register", "unregister"} /\ rreq' = [rreq EXCEPT ![r] = new]
<1>1. CASE Q!Goto(r, l)
  <2> DEFINE new == [rreq[r] EXCEPT !.at = l]
  <2>1. new \in QRow /\ new.at = l /\ rreq' = [rreq EXCEPT ![r] = new]
    BY <1>1, QRows
  <2> HIDE DEF new
  <2> QED
    BY <2>1
<1>2. CASE Q!Return(r)
  BY <1>2, QRows DEF Q!Return
<1> QED
  BY <1>1, <1>2

\* The same for a request that keeps its place in the invariant.
LEMMA QGoes ==
  ASSUME QInv, NEW r \in Req, NEW l \in QAt \ {"register", "unregister"}, Q!Goto(r, l),
         rreq[r].at \notin {"register", "unregister"},
         UNCHANGED <<consumers, registry, open, tags, crossed>>
  PROVE  QInv'
<1> DEFINE new == [rreq[r] EXCEPT !.at = l]
<1>1. new \in QRow /\ new.at = l /\ rreq' = [rreq EXCEPT ![r] = new]
  BY QRows
<1> HIDE DEF new
<1> QED
  BY <1>1, QMoves

\* The steps that touch no consumer, or close the channel.
LEMMA QLeavesInv ==
  ASSUME QInv, NEW r \in Req,
         Q!SendToQueue(r) \/ Q!BindQueueToExchange(r) \/ Q!PublishToExchange(r) \/ Q!PurgeQueue(r)
  PROVE QInv'
<1>1. ASSUME Q!SendToQueue(r) PROVE QInv'
  BY <1>1, QMoves, QRows DEF Q!SendToQueue, Q!Return, Q!At
<1>2. ASSUME Q!PublishToExchange(r) PROVE QInv'
  BY <1>2, QMoves, QRows DEF Q!PublishToExchange, Q!Return, Q!At
<1>3. ASSUME Q!BindQueueToExchange(r) PROVE QInv'
  <2>1. rreq[r].at = "bind"
    BY <1>3 DEF Q!BindQueueToExchange, Q!At
  <2>2. CASE ~exists
    BY <1>3, <2>1, <2>2, QCloses DEF Q!BindQueueToExchange
  <2>3. CASE exists /\ rreq[r].route = "demo"
    BY <1>3, <2>1, <2>3, QGoes DEF Q!BindQueueToExchange, QAt
  <2>4. CASE exists /\ rreq[r].route # "demo"
    BY <1>3, <2>1, <2>4, QMoves, QRows DEF Q!BindQueueToExchange, Q!Return
  <2> QED
    BY <2>2, <2>3, <2>4
<1>4. ASSUME Q!PurgeQueue(r) PROVE QInv'
  <2>1. rreq[r].at = "idle"
    BY <1>4 DEF Q!PurgeQueue, Q!Idle
  <2>2. CASE ~exists
    BY <1>4, <2>1, <2>2, QCloses DEF Q!PurgeQueue
  <2>3. CASE exists
    <3>1. UNCHANGED <<consumers, registry, open, tags, rreq, crossed>>
      BY <1>4, <2>3 DEF Q!PurgeQueue
    <3> QED
      BY <3>1 DEF QInv, QTyped, QInHand, Q!ConsumersRegistered
  <2> QED
    BY <2>2, <2>3
<1> QED
  BY <1>1, <1>2, <1>3, <1>4

\* A consumer is added only to an empty registry; unless another is about to be
\* registered, RabbitMQ has no other.
LEMMA QConsumeInv ==
  ASSUME QInv, NEW r \in Req, Q!Consume(r) PROVE QInv'
<1>1. rreq[r].at = "consume"
  BY DEF Q!Consume, Q!At
<1>2. CASE registry # None
  <2>1. CASE rreq[r].route = "demo"
    BY <1>1, <1>2, <2>1, QGoes DEF Q!Consume, Q!After, QAt
  <2>2. CASE rreq[r].route # "demo"
    BY <1>1, <1>2, <2>2, QMoves, QRows DEF Q!Consume, Q!After, Q!Return
  <2> QED
    BY <2>1, <2>2
<1>3. CASE registry = None /\ ~exists
  BY <1>1, <1>3, QCloses DEF Q!Consume
<1>4. CASE registry = None /\ exists
  <2>1. PICK t \in Nat : t = tags + 1
    BY DEF QInv, QTyped
  <2>2. /\ tags' = t /\ consumers' = consumers \cup {t} /\ UNCHANGED <<registry, open>>
        /\ crossed' = (crossed \/ \E q \in Req : rreq[q].at = "register")
        /\ rreq' = [rreq EXCEPT ![r].at = "register", ![r].tag = t]
    BY <1>4, <2>1 DEF Q!Consume
  <2>3. /\ rreq'[r].at = "register" /\ rreq'[r].tag = t /\ rreq' \in [Req -> QRow]
        /\ \A q \in Req \ {r} : rreq'[q] = rreq[q]
    BY <2>2 DEF QInv, QTyped, QRow, QAt, QTag
  <2>4. t \notin consumers /\ \A x \in 1..tags : x \in 1..t
    BY <2>1 DEF QInv, QTyped
  <2>5. QTyped'
    BY <1>1, <2>1, <2>2, <2>3, <2>4 DEF QInv, QTyped
  <2>6. QInHand'
    <3> SUFFICES ASSUME open, ~crossed, \A q \in Req : rreq[q].at # "register" PROVE QInHand'
      BY <2>2 DEF QInHand
    <3>1. \A q \in Req : rreq[q].at = "unregister" => rreq[q].tag # t
      BY <2>1 DEF QInv, QTyped
    <3> QED
      BY <1>4, <2>2, <2>3, <3>1 DEF QInv, QInHand
  <2>7. Q!ConsumersRegistered'
    <3> SUFFICES ASSUME open, ~crossed, \A q \in Req : rreq[q].at # "register" PROVE Q!ConsumersRegistered'
      BY <2>2 DEF Q!ConsumersRegistered
    <3>1. consumers = {}
      BY <1>4, QNone DEF QInv, QTyped, Q!ConsumersRegistered
    <3> QED
      BY <1>4, <2>2, <2>3, <3>1 DEF Q!ConsumersRegistered
  <2> QED
    BY <2>5, <2>6, <2>7 DEF QInv
<1> QED
  BY <1>2, <1>3, <1>4

\* The registry gets the tag of the one request that was to register it.
LEMMA QRegisterInv ==
  ASSUME QInv, NEW r \in Req, Q!Register(r) PROVE QInv'
<1>1. /\ rreq[r].at = "register" /\ registry' = rreq[r].tag /\ UNCHANGED <<consumers, open, tags>>
      /\ crossed' = (crossed \/ rreq[r].tag \notin consumers)
  BY DEF Q!Register, Q!At
<1>2. PICK new \in QRow : new.at \notin {"register", "unregister"} /\ rreq' = [rreq EXCEPT ![r] = new]
  <2>1. Q!After(r)
    BY DEF Q!Register
  <2> QED
    BY <2>1, QGoesOrReturns DEF Q!After, QAt
<1>3. rreq'[r] = new /\ (\A q \in Req \ {r} : rreq'[q] = rreq[q]) /\ rreq' \in [Req -> QRow]
  BY <1>2 DEF QInv, QTyped
<1>4. QTyped'
  BY <1>1, <1>2, <1>3 DEF QInv, QTyped
<1>5. QInHand' /\ Q!ConsumersRegistered'
  <2> SUFFICES ASSUME open, ~crossed, rreq[r].tag \in consumers PROVE QInHand' /\ Q!ConsumersRegistered'
    BY <1>1 DEF QInHand, Q!ConsumersRegistered
  <2>1. registry = None /\ \A q \in Req \ {r} : rreq[q].at # "register"
    BY <1>1 DEF QInv, QInHand
  <2>2. consumers \subseteq {rreq[r].tag}
    BY <2>1, QNone DEF QInv, QTyped, Q!ConsumersRegistered
  <2>3. QInHand'
    BY <1>1, <1>2, <1>3, <2>1 DEF QInv, QInHand
  <2>4. Q!ConsumersRegistered'
    BY <1>1, <2>2 DEF Q!ConsumersRegistered
  <2> QED
    BY <2>3, <2>4
<1> QED
  BY <1>4, <1>5 DEF QInv

\* Whoever is struck off is the only consumer there is.
LEMMA QCancelInv ==
  ASSUME QInv, NEW r \in Req, Q!CancelConsumer(r) PROVE QInv'
<1>1. rreq[r].at = "cancel" /\ open /\ UNCHANGED <<registry, open, tags, crossed>>
  BY DEF Q!CancelConsumer, Q!At
<1>2. CASE registry = None
  <2>1. PICK new \in QRow : new.at \notin {"register", "unregister"} /\ rreq' = [rreq EXCEPT ![r] = new]
    BY <1>2, QGoesOrReturns DEF Q!CancelConsumer, Q!AfterCancel, QAt
  <2> QED
    BY <1>1, <1>2, <2>1, QMoves DEF Q!CancelConsumer
<1>3. CASE registry # None
  <2>1. /\ rreq' = [rreq EXCEPT ![r].at = "unregister", ![r].tag = registry]
        /\ consumers' = consumers \ {registry}
    BY <1>3 DEF Q!CancelConsumer
  <2>2. /\ rreq'[r].at = "unregister" /\ rreq'[r].tag = registry /\ rreq' \in [Req -> QRow]
        /\ \A q \in Req \ {r} : rreq'[q] = rreq[q]
    <3>1. registry \in QTag
      BY DEF QInv, QTyped, QTag
    <3> QED
      BY <2>1, <3>1 DEF QInv, QTyped, QRow, QAt
  <2>3. QTyped'
    BY <1>1, <1>3, <2>1, <2>2 DEF QInv, QTyped
  <2>4. QInHand' /\ Q!ConsumersRegistered'
    <3> SUFFICES ASSUME ~crossed PROVE QInHand' /\ Q!ConsumersRegistered'
      BY <1>1 DEF QInHand, Q!ConsumersRegistered
    <3>1. \A q \in Req : rreq[q].at # "register"
      BY <1>1, <1>3 DEF QInv, QInHand
    <3>2. consumers' = {}
      BY <1>1, <2>1, <3>1 DEF QInv, Q!ConsumersRegistered
    <3> QED
      BY <1>1, <2>2, <3>1, <3>2 DEF QInHand, Q!ConsumersRegistered
  <2> QED
    BY <2>3, <2>4 DEF QInv
<1> QED
  BY <1>2, <1>3

\* The tag struck off was cancelled before: no consumer is left without the registry.
LEMMA QUnregisterInv ==
  ASSUME QInv, NEW r \in Req, Q!Unregister(r) PROVE QInv'
<1>1. /\ rreq[r].at = "unregister" /\ open /\ registry' = None /\ UNCHANGED <<consumers, open, tags>>
      /\ crossed' = (crossed \/ registry # rreq[r].tag)
  BY DEF Q!Unregister, Q!At
<1>2. PICK new \in QRow : new.at \notin {"register", "unregister"} /\ rreq' = [rreq EXCEPT ![r] = new]
  <2>1. Q!AfterCancel(r)
    BY DEF Q!Unregister
  <2> QED
    BY <2>1, QGoesOrReturns DEF Q!AfterCancel, QAt
<1>3. rreq'[r] = new /\ (\A q \in Req \ {r} : rreq'[q] = rreq[q]) /\ rreq' \in [Req -> QRow]
  BY <1>2 DEF QInv, QTyped
<1>4. QTyped'
  BY <1>1, <1>2, <1>3 DEF QInv, QTyped
<1>5. QInHand' /\ Q!ConsumersRegistered'
  <2> SUFFICES ASSUME ~crossed, registry = rreq[r].tag PROVE QInHand' /\ Q!ConsumersRegistered'
    BY <1>1 DEF QInHand, Q!ConsumersRegistered
  <2>1. registry \notin consumers
    BY <1>1 DEF QInv, QInHand
  <2>2. QInHand'
    BY <1>1, <1>2, <1>3 DEF QInv, QInHand
  <2>3. \A t \in consumers : \E q \in Req \ {r} : rreq[q].at = "register" /\ rreq[q].tag = t
    BY <1>1, <2>1 DEF QInv, Q!ConsumersRegistered
  <2>4. Q!ConsumersRegistered'
    BY <1>1, <1>3, <2>3 DEF Q!ConsumersRegistered
  <2> QED
    BY <2>2, <2>4
<1> QED
  BY <1>4, <1>5 DEF QInv

\* Deliveries leave the consumers alone; a deleted queue has none.
LEMMA QDeleteInv ==
  ASSUME QInv, NEW r \in Req, Q!DeleteQueue(r) PROVE QInv'
<1>1. /\ rreq[r].at = "deleteQueue" /\ consumers' = {} /\ UNCHANGED <<registry, open, tags>>
      /\ crossed' = (crossed \/ consumers # {}) /\ rreq' = [rreq EXCEPT ![r] = Q!Idle]
  BY DEF Q!DeleteQueue, Q!At, Q!Return
<1>2. Q!Idle \in QRow /\ Q!Idle.at = "idle"
  BY QRows
<1>3. rreq'[r] = Q!Idle /\ (\A q \in Req \ {r} : rreq'[q] = rreq[q]) /\ rreq' \in [Req -> QRow]
  BY <1>1, <1>2 DEF QInv, QTyped
<1>4. QTyped' /\ QInHand'
  BY <1>1, <1>2, <1>3 DEF QInv, QTyped, QInHand
<1>5. Q!ConsumersRegistered'
  BY <1>1, <1>2, <1>3 DEF QInv, Q!ConsumersRegistered
<1> QED
  BY <1>4, <1>5 DEF QInv

\* A delivery takes a message and changes nothing the invariant tells of.
LEMMA QDeliverInv == QInv /\ (Q!Deliver \/ UNCHANGED Q!vars) => QInv'
<1> SUFFICES ASSUME QInv, Q!Deliver \/ UNCHANGED Q!vars PROVE QInv'
  OBVIOUS
<1>1. UNCHANGED <<consumers, registry, open, tags, rreq, crossed>>
  BY DEF Q!Deliver, Q!vars, Q!queue
<1> QED
  BY <1>1 DEF QInv, QTyped, QInHand, Q!ConsumersRegistered

\* Every step keeps the invariant.
LEMMA QNextInv == QInv /\ [Q!Next]_Q!vars => QInv'
  BY QRequestInv, QLeavesInv, QConsumeInv, QRegisterInv, QCancelInv, QUnregisterInv, QDeleteInv, QDeliverInv
  DEF Q!Next

\* RabbitMQ's consumers and the registry agree, whatever requests cross each other
\* but those the property names.
THEOREM QKept == Q!Spec => []Q!ConsumersRegistered
<1>1. QInv => Q!ConsumersRegistered
  BY DEF QInv
<1> QED
  BY <1>1, QInitInv, QNextInv, PTL DEF Q!Spec

-----------------------------------------------------------------------------
(* Redis stream: RInv                                                      *)

\* What the assumption says of the entries.
LEMMA RBounds == None \notin Nat /\ BatchSize \in Nat /\ MaxEntries \in Nat
  BY ServicesAssumption

RAt    == {"off", "read", "handle", "ack"}
RTyped ==
  /\ top \in Nat /\ top <= MaxEntries /\ entries \subseteq 1..top
  /\ group \in Nat \cup {None} /\ (group # None => group <= top) /\ since \in Nat
  /\ handled \in [R!Entry -> Nat] /\ loop \in [Loop -> [at : RAt, batch : Seq(R!Entry)]]
\* A loop that handles a message has a batch, in order; the others have none.
RBatches ==
  \A l \in Loop : /\ loop[l].batch = <<>> <=> loop[l].at \in {"off", "read"}
                  /\ R!Rising(loop[l].batch)
\* The loops have different messages in hand.
RApart == \A l, m \in Loop : l # m => R!Items(loop[l].batch) \cap R!Items(loop[m].batch) = {}
\* What a loop has still to handle nobody has handled.
RTodo ==
  \A l \in Loop : \A i \in DOMAIN loop[l].batch :
    loop[l].at = "handle" \/ i > 1 => handled[loop[l].batch[i]] = 0
\* What was handled, or is in hand, will not be delivered to the group again.
RPast ==
  \A e \in R!Entry : handled[e] > 0 \/ e \in R!InHand =>
    e <= top /\ (e \notin entries \/ (group # None /\ e <= group))
RInv == RTyped /\ RBatches /\ RApart /\ RTodo /\ RPast /\ R!StreamAccounts

-----------------------------------------------------------------------------
\* Entries are numbers.
LEMMA REntries == R!Entry \subseteq Nat
  BY RBounds DEF R!Entry

\* The rest of a batch holds what is behind its head.
LEMMA RTail ==
  ASSUME NEW q \in Seq(R!Entry), q # <<>>, R!Rising(q)
  PROVE  /\ Tail(q) \in Seq(R!Entry) /\ R!Rising(Tail(q)) /\ Len(Tail(q)) = Len(q) - 1
         /\ Head(q) \in R!Entry /\ Head(q) = q[1] /\ 1 \in DOMAIN q
         /\ R!Items(q) = {Head(q)} \cup R!Items(Tail(q)) /\ Head(q) \notin R!Items(Tail(q))
         /\ \A i \in DOMAIN Tail(q) : Tail(q)[i] = q[i + 1] /\ i + 1 \in DOMAIN q /\ i + 1 > 1
         /\ Tail(q) = <<>> <=> Len(q) = 1
<1>1. /\ Tail(q) \in Seq(R!Entry) /\ Len(Tail(q)) = Len(q) - 1 /\ Len(q) \in Nat \ {0} /\ DOMAIN q = 1..Len(q)
      /\ DOMAIN Tail(q) = 1..(Len(q) - 1) /\ \A i \in 1..(Len(q) - 1) : Tail(q)[i] = q[i + 1]
  OBVIOUS
<1>2. Head(q) = q[1] /\ Head(q) \in R!Entry
  BY <1>1
<1>3. \A i \in 1..Len(q) : q[i] \in Nat
  <2>1. \A i \in 1..Len(q) : q[i] \in R!Entry
    BY <1>1
  <2> QED
    BY <2>1, REntries
<1>4. R!Rising(Tail(q))
  BY <1>1, <1>3 DEF R!Rising
<1>5. R!Items(q) = {Head(q)} \cup R!Items(Tail(q))
  <2>1. ASSUME NEW i \in 1..Len(q) PROVE q[i] \in {Head(q)} \cup R!Items(Tail(q))
    <3>1. CASE i = 1
      BY <1>2, <3>1
    <3>2. CASE i # 1
      <4>1. i - 1 \in 1..(Len(q) - 1) /\ Tail(q)[i - 1] = q[i]
        BY <1>1, <3>2
      <4> QED
        BY <1>1, <4>1 DEF R!Items
    <3> QED
      BY <3>1, <3>2
  <2>2. \A i \in 1..(Len(q) - 1) : Tail(q)[i] \in R!Items(q)
    BY <1>1 DEF R!Items
  <2> QED
    BY <1>1, <1>2, <2>1, <2>2 DEF R!Items
<1>6. Head(q) \notin R!Items(Tail(q))
  <2>1. \A i \in 1..(Len(q) - 1) : q[1] < q[i + 1]
    BY <1>1 DEF R!Rising
  <2> QED
    BY <1>1, <1>2, <1>3, <2>1 DEF R!Items
<1>7. Tail(q) = <<>> <=> Len(q) = 1
  BY <1>1
<1>8. /\ \A i \in DOMAIN Tail(q) : Tail(q)[i] = q[i + 1] /\ i + 1 \in DOMAIN q /\ i + 1 > 1
      /\ 1 \in DOMAIN q
  BY <1>1
<1> QED
  BY <1>1, <1>2, <1>4, <1>5, <1>6, <1>7, <1>8

\* What is delivered to the group: new entries, in order, none left out.
LEMMA RFirst ==
  ASSUME NEW E \in SUBSET R!Entry, NEW q \in R!FirstOf(E, BatchSize)
  PROVE  /\ q \in Seq(R!Entry) /\ q # <<>> /\ R!Rising(q) /\ R!Items(q) \subseteq E
         /\ q[Len(q)] \in E
         /\ \A e \in E : e <= q[Len(q)] => e \in R!Items(q)
         /\ \A e \in R!Items(q) : e <= q[Len(q)]
<1>1. PICK k \in 1..BatchSize : q \in [1..k -> E]
  BY DEF R!FirstOf
<1>2. q \in Seq(E) /\ Len(q) = k /\ DOMAIN q = 1..k /\ k \in Nat \ {0} /\ R!Rising(q)
  BY <1>1, RBounds DEF R!FirstOf
<1>3. q \in Seq(R!Entry) /\ q # <<>> /\ R!Items(q) \subseteq E /\ q[Len(q)] \in E
  BY <1>1, <1>2 DEF R!Items
<1>4. ASSUME NEW e \in E, e \notin R!Items(q) PROVE ~(e <= q[Len(q)])
  <2>1. Len(q) = BatchSize /\ q[BatchSize] < e
    BY <1>4 DEF R!FirstOf
  <2>2. q[Len(q)] \in Nat /\ e \in Nat
    BY <1>3, REntries
  <2> QED
    BY <2>1, <2>2
<1>5. \A i \in 1..k : q[i] <= q[k]
  <2>1. \A i \in 1..k : q[i] \in Nat
    BY <1>1, REntries
  <2> QED
    BY <1>2, <2>1 DEF R!Rising
<1> QED
  BY <1>2, <1>3, <1>4, <1>5 DEF R!Items

\* An empty stream, no loop.
LEMMA RInitInv == R!Init => RInv
<1> SUFFICES ASSUME R!Init PROVE RInv
  OBVIOUS
<1> USE DEF R!Init
<1>1. RTyped
  BY RBounds DEF RTyped, R!Off, RAt, R!Entry
<1>2. RBatches /\ RApart /\ RTodo
  BY DEF RBatches, R!Rising, RApart, RTodo, R!Off, R!Items
<1>3. R!InHand = {}
  BY DEF R!InHand, R!Items, R!Off
<1>4. RPast /\ R!StreamAccounts
  BY <1>3 DEF RPast, R!StreamAccounts, R!Entry
<1> QED
  BY <1>1, <1>2, <1>4 DEF RInv

\* The steps that leave the loops and what they handled alone.
LEMMA RStreamInv ==
  ASSUME RInv, R!AddMessage \/ R!TrimStream \/ R!DeleteStream \/ \E start \in {0, top} : R!CreateConsumerGroup(start)
  PROVE  RInv'
<1>1. loop' = loop /\ handled' = handled /\ acked' = acked /\ failed' = failed /\ given' = given /\ R!InHand' = R!InHand
  BY DEF R!AddMessage, R!TrimStream, R!DeleteStream, R!CreateConsumerGroup, R!InHand
<1>2. RBatches' /\ RApart' /\ RTodo'
  BY <1>1 DEF RInv, RBatches, RApart, RTodo
<1>3. CASE R!AddMessage
  <2>1. top' = top + 1 /\ top < MaxEntries /\ entries' = entries \cup {top + 1} /\ UNCHANGED <<group, since, unhandled>>
    BY <1>3 DEF R!AddMessage
  <2>2. PICK t \in Nat : t = top
    BY DEF RInv, RTyped
  <2>3. RTyped'
    BY <1>1, <2>1, <2>2, RBounds DEF RInv, RTyped
  <2>4. RPast'
    BY <1>1, <2>1, <2>2, REntries DEF RInv, RPast
  <2>5. R!StreamAccounts'
    <3>1. group # None => ~(t + 1 <= group)
      BY <2>2 DEF RInv, RTyped
    <3> QED
      BY <1>1, <2>1, <2>2, <3>1 DEF RInv, R!StreamAccounts
  <2> QED
    BY <1>2, <2>3, <2>4, <2>5 DEF RInv
<1>4. CASE R!TrimStream
  BY <1>1, <1>2, <1>4 DEF R!TrimStream, RInv, RTyped, RPast, R!StreamAccounts
<1>5. CASE R!DeleteStream
  BY <1>1, <1>2, <1>5 DEF R!DeleteStream, RInv, RTyped, RPast, R!StreamAccounts
<1>6. ASSUME NEW start \in {0, top}, R!CreateConsumerGroup(start) PROVE RInv'
  <2>1. /\ group = None /\ group' = start /\ since' = start /\ UNCHANGED <<entries, top, unhandled>>
        /\ start \in Nat /\ start <= top
    BY <1>6 DEF R!CreateConsumerGroup, R!Group, RInv, RTyped
  <2>2. RTyped' /\ RPast'
    BY <1>1, <2>1 DEF RInv, RTyped, RPast
  <2>3. R!StreamAccounts'
    BY <1>1, <2>1 DEF RInv, RTyped, R!StreamAccounts
  <2> QED
    BY <1>2, <2>2, <2>3 DEF RInv
<1> QED
  BY <1>3, <1>4, <1>5, <1>6
\* Where a loop is changes and nothing else.
LEMMA RFlagInv ==
  ASSUME RInv, R!StopConsumer \/ (\E l \in Loop : R!LoopEnds(l)) \/ R!ClaimTimer
               \/ (\E e \in R!Entry : R!ClaimStuckMessages(e) \/ R!ClientAcknowledges(e)) \/ UNCHANGED R!vars
  PROVE  RInv'
<1>1. CASE R!StopConsumer \/ UNCHANGED R!vars
  <2>1. UNCHANGED <<R!redis, loop, given, handled, acked, failed>>
    BY <1>1 DEF R!StopConsumer, R!vars
  <2>2. R!InHand' = R!InHand
    BY <2>1 DEF R!InHand
  <2> QED
    BY <2>1, <2>2 DEF R!redis, RInv, RTyped, RBatches, RApart, RTodo, RPast, R!StreamAccounts
<1>2. ASSUME NEW l \in Loop, R!LoopEnds(l) PROVE RInv'
  <2>1. /\ loop[l].at = "read" /\ loop' = [loop EXCEPT ![l] = R!Off]
        /\ UNCHANGED <<R!redis, given, handled, acked, failed>>
    BY <1>2 DEF R!LoopEnds
  <2>2. /\ R!Off \in [at : RAt, batch : Seq(R!Entry)] /\ R!Off.at = "off" /\ R!Off.batch = <<>>
    BY DEF R!Off, RAt
  <2>3. /\ loop' \in [Loop -> [at : RAt, batch : Seq(R!Entry)]] /\ loop[l].batch = <<>>
        /\ loop'[l] = R!Off /\ \A m \in Loop \ {l} : loop'[m] = loop[m]
    BY <2>1, <2>2 DEF RInv, RTyped, RBatches
  <2>4. \A m \in Loop : loop'[m].batch = loop[m].batch
    BY <2>2, <2>3
  <2>5. R!InHand' = R!InHand
    BY <2>4 DEF R!InHand
  <2>6. RTyped' /\ RBatches' /\ RApart'
    BY <2>1, <2>2, <2>3, <2>4 DEF R!redis, RInv, RTyped, RBatches, RApart
  <2>7. RTodo'
    BY <2>1, <2>2, <2>3 DEF RInv, RTodo
  <2>8. RPast' /\ R!StreamAccounts'
    BY <2>1, <2>5 DEF R!redis, RInv, RPast, R!StreamAccounts
  <2> QED
    BY <2>6, <2>7, <2>8 DEF RInv
<1>3. CASE R!ClaimTimer
  <2>1. /\ UNCHANGED <<entries, top, group, since, loop, given, handled, acked, failed>>
        /\ \E e \in unhandled \ entries : unhandled' = unhandled \ {e}
    BY <1>3 DEF R!ClaimTimer
  <2>2. R!InHand' = R!InHand
    BY <2>1 DEF R!InHand
  <2> QED
    BY <2>1, <2>2 DEF RInv, RTyped, RBatches, RApart, RTodo, RPast, R!StreamAccounts
<1>4. ASSUME NEW e \in R!Entry, R!ClaimStuckMessages(e) \/ R!ClientAcknowledges(e) PROVE RInv'
  <2>1. /\ UNCHANGED <<entries, top, group, since, loop, handled, failed>>
        /\ \/ unhandled' = unhandled \ {e} /\ acked' = acked \cup {e} /\ given' = given
           \/ given' = given \cup {e} /\ UNCHANGED <<unhandled, acked>>
    BY <1>4 DEF R!ClaimStuckMessages, R!ClientAcknowledges, R!redis
  <2>2. R!InHand' = R!InHand
    BY <2>1 DEF R!InHand
  <2> QED
    BY <2>1, <2>2 DEF RInv, RTyped, RBatches, RApart, RTodo, RPast, R!StreamAccounts
<1> QED
  BY <1>1, <1>2, <1>3, <1>4

\* A loop starts with no batch; the group is made at the end of the stream.
LEMMA RStartInv ==
  ASSUME RInv, NEW l \in Loop, R!StartConsumer(l) PROVE RInv'
<1>1. /\ loop[l] = R!Off /\ R!Group(top) /\ loop' = [loop EXCEPT ![l].at = "read"]
      /\ UNCHANGED <<entries, top, unhandled, given, handled, acked, failed>>
  BY DEF R!StartConsumer
<1>2. loop[l].at = "off" /\ loop[l].batch = <<>>
  BY <1>1 DEF R!Off
<1>3. /\ loop' \in [Loop -> [at : RAt, batch : Seq(R!Entry)]] /\ loop'[l].at = "read"
      /\ \A m \in Loop \ {l} : loop'[m] = loop[m]
      /\ \A m \in Loop : loop'[m].batch = loop[m].batch
  BY <1>1 DEF RInv, RTyped, RAt
<1>4. R!InHand' = R!InHand
  BY <1>3 DEF R!InHand
<1>5. RBatches' /\ RApart' /\ RTodo'
  <2>1. RBatches'
    BY <1>2, <1>3 DEF RInv, RBatches
  <2>2. RApart'
    BY <1>3 DEF RInv, RApart
  <2>3. RTodo'
    BY <1>1, <1>2, <1>3 DEF RInv, RTodo
  <2> QED
    BY <2>1, <2>2, <2>3
<1>6. \/ group = None /\ group' = top /\ since' = top
      \/ group # None /\ UNCHANGED <<group, since>>
  BY <1>1 DEF R!Group
<1>7. RTyped' /\ RPast'
  BY <1>1, <1>3, <1>4, <1>6 DEF RInv, RTyped, RPast
<1>8. R!StreamAccounts'
  BY <1>1, <1>4, <1>6 DEF RInv, RTyped, R!StreamAccounts
<1> QED
  BY <1>5, <1>7, <1>8 DEF RInv

\* What is new to the group is in nobody's hand and was never handled.
LEMMA RFresh ==
  ASSUME RInv, group # None
  PROVE  R!Fresh \in SUBSET R!Entry /\ \A e \in R!Fresh : handled[e] = 0 /\ e \notin R!InHand /\ e <= top /\ group < e
<1>1. group \in Nat /\ top \in Nat /\ R!Fresh \subseteq entries /\ entries \subseteq 1..top /\ top <= MaxEntries
  BY DEF RInv, RTyped, R!Fresh
<1>2. R!Fresh \subseteq R!Entry
  BY <1>1, RBounds DEF R!Entry
<1>3. ASSUME NEW e \in R!Fresh PROVE handled[e] = 0 /\ e \notin R!InHand /\ e <= top /\ group < e
  <2>1. e \in entries /\ e \in Nat /\ ~(e <= group) /\ e <= top /\ e \in R!Entry
    BY <1>1, <1>2, REntries DEF R!Fresh
  <2>2. handled[e] \in Nat
    BY <2>1 DEF RInv, RTyped
  <2> QED
    BY <1>1, <2>1, <2>2 DEF RInv, RPast, R!Fresh
<1> QED
  BY <1>2, <1>3

\* What a delivery to the group does to the promises.
LEMMA RDelivery ==
  ASSUME RInv, group # None, NEW q \in R!FirstOf(R!Fresh, BatchSize), R!Deliver(q),
         UNCHANGED <<entries, top, since, acked>>
  PROVE  /\ group' \in Nat /\ group' <= top /\ group < group'
         /\ \A e \in R!Items(q) : e <= group' /\ e <= top
         /\ \A e \in entries : since < e /\ e <= group' => e \in unhandled' \cup acked
<1>1. /\ q \in Seq(R!Entry) /\ q # <<>> /\ R!Rising(q) /\ R!Items(q) \subseteq R!Fresh /\ q[Len(q)] \in R!Fresh
      /\ \A e \in R!Fresh : e <= q[Len(q)] => e \in R!Items(q)
      /\ \A e \in R!Items(q) : e <= q[Len(q)]
  BY RFresh, RFirst
<1>2. group' = q[Len(q)] /\ unhandled' = unhandled \cup R!Items(q)
  BY DEF R!Deliver
<1>3. group' \in Nat /\ group' <= top /\ group < group'
  BY <1>1, <1>2, RFresh, REntries
<1>4. \A e \in entries : since < e /\ e <= group' => e \in unhandled' \cup acked
  <2> SUFFICES ASSUME NEW e \in entries, since < e, e <= group' PROVE e \in unhandled' \cup acked
    OBVIOUS
  <2>1. e \in Nat /\ group \in Nat
    BY DEF RInv, RTyped
  <2>2. CASE e <= group
    BY <1>2, <2>2 DEF RInv, R!StreamAccounts
  <2>3. CASE ~(e <= group)
    BY <1>1, <1>2, <2>1, <2>3 DEF R!Fresh
  <2> QED
    BY <2>2, <2>3
<1> QED
  BY <1>1, <1>2, <1>3, <1>4, RFresh

\* A client is given what is new to the group.
LEMMA RConsumeInv ==
  ASSUME RInv, R!ConsumeFromGroup PROVE RInv'
<1>1. group # None /\ UNCHANGED <<entries, top, since, loop, handled, acked, failed>>
  BY DEF R!ConsumeFromGroup
<1>2. PICK q \in R!FirstOf(R!Fresh, BatchSize) : R!Deliver(q) /\ given' = given \cup R!Items(q)
  BY DEF R!ConsumeFromGroup
<1>3. /\ group' \in Nat /\ group' <= top /\ group < group'
      /\ \A e \in entries : since < e /\ e <= group' => e \in unhandled' \cup acked
  BY <1>1, <1>2, RDelivery
<1>4. R!InHand' = R!InHand /\ unhandled' = unhandled \cup R!Items(q)
  BY <1>1, <1>2 DEF R!InHand, R!Deliver
<1>5. RBatches' /\ RApart' /\ RTodo'
  BY <1>1 DEF RInv, RBatches, RApart, RTodo
<1>6. RTyped'
  BY <1>1, <1>3 DEF RInv, RTyped
<1>7. RPast'
  BY <1>1, <1>3, <1>4, REntries, RBounds DEF RInv, RTyped, RPast
<1>8. R!StreamAccounts'
  BY <1>1, <1>2, <1>3, <1>4 DEF RInv, R!StreamAccounts
<1> QED
  BY <1>5, <1>6, <1>7, <1>8 DEF RInv

\* A loop is given what is new to the group: nobody has it in hand.
LEMMA RReadInv ==
  ASSUME RInv, NEW l \in Loop, R!ReadFromGroup(l) PROVE RInv'
<1>1. /\ loop[l].at = "read" /\ group # None
      /\ UNCHANGED <<entries, top, since, given, handled, acked, failed>>
  BY DEF R!ReadFromGroup
<1>2. PICK q \in R!FirstOf(R!Fresh, BatchSize) : R!Deliver(q) /\ loop' = [loop EXCEPT ![l] = [at |-> "handle", batch |-> q]]
  BY DEF R!ReadFromGroup
<1>3. /\ group' \in Nat /\ group' <= top /\ group < group'
      /\ \A e \in R!Items(q) : e <= group' /\ e <= top
      /\ \A e \in entries : since < e /\ e <= group' => e \in unhandled' \cup acked
  BY <1>1, <1>2, RDelivery
<1>4. /\ q \in Seq(R!Entry) /\ q # <<>> /\ R!Rising(q) /\ R!Items(q) \subseteq R!Fresh
      /\ \A e \in R!Items(q) : handled[e] = 0 /\ e \notin R!InHand
  BY <1>1, <1>2, RFresh, RFirst
<1>5. /\ loop' \in [Loop -> [at : RAt, batch : Seq(R!Entry)]] /\ loop[l].batch = <<>>
      /\ loop'[l].at = "handle" /\ loop'[l].batch = q /\ \A m \in Loop \ {l} : loop'[m] = loop[m]
  BY <1>1, <1>2, <1>4 DEF RInv, RTyped, RBatches, RAt
<1>6. R!InHand' = R!InHand \cup R!Items(q)
  <2>1. R!Items(loop[l].batch) = {}
    BY <1>5 DEF R!Items
  <2> QED
    BY <1>5, <2>1 DEF R!InHand
<1>7. RTyped' /\ RBatches'
  BY <1>1, <1>3, <1>4, <1>5 DEF RInv, RTyped, RBatches
<1>8. RApart'
  <2>1. \A m \in Loop : R!Items(loop[m].batch) \subseteq R!InHand
    BY DEF R!InHand
  <2>2. \A m \in Loop : R!Items(loop[m].batch) \cap R!Items(q) = {}
    BY <1>4, <2>1
  <2> QED
    BY <1>5, <2>2 DEF RInv, RApart
<1>9. RTodo'
  BY <1>1, <1>4, <1>5 DEF RInv, RTodo, R!Items
<1>10. RPast'
  <2> SUFFICES ASSUME NEW e \in R!Entry, handled'[e] > 0 \/ e \in R!InHand'
               PROVE  e <= top' /\ (e \notin entries' \/ (group' # None /\ e <= group'))
    BY DEF RPast
  <2>1. e \in Nat /\ group \in Nat /\ group' # None
    BY <1>1, <1>3, REntries, RBounds DEF RInv, RTyped
  <2>2. CASE e \in R!Items(q)
    BY <1>1, <1>3, <2>1, <2>2
  <2>3. CASE e \notin R!Items(q)
    BY <1>1, <1>3, <1>6, <2>1, <2>3 DEF RInv, RPast
  <2> QED
    BY <2>2, <2>3
<1>11. R!StreamAccounts'
  <2>1. unhandled' = unhandled \cup R!Items(q)
    BY <1>2 DEF R!Deliver
  <2> QED
    BY <1>1, <1>3, <1>6, <2>1 DEF RInv, R!StreamAccounts
<1> QED
  BY <1>7, <1>8, <1>9, <1>10, <1>11 DEF RInv

\* A handler is called: with a message that nobody had handled.
LEMMA RHandled ==
  ASSUME RInv, NEW l \in Loop, R!Handled(l)
  PROVE  LET q == loop[l].batch IN
         /\ loop[l].at = "handle" /\ q \in Seq(R!Entry) /\ q # <<>> /\ R!Rising(q)
         /\ handled[Head(q)] = 0 /\ handled' \in [R!Entry -> Nat] /\ handled'[Head(q)] = 1
         /\ \A e \in R!Entry \ {Head(q)} : handled'[e] = handled[e]
         /\ Head(q) \in R!InHand /\ Head(q) \notin R!Items(Tail(q))
         /\ \A m \in Loop \ {l} : Head(q) \notin R!Items(loop[m].batch)
         /\ UNCHANGED <<entries, top, group, since, unhandled, given, acked>>
<1> DEFINE q == loop[l].batch
<1>1. /\ loop[l].at = "handle" /\ handled' = [handled EXCEPT ![Head(q)] = @ + 1]
      /\ UNCHANGED <<entries, top, group, since, unhandled, given, acked>>
  BY DEF R!Handled, R!redis
<1>2. q \in Seq(R!Entry) /\ q # <<>> /\ R!Rising(q)
  BY <1>1 DEF RInv, RTyped, RBatches
<1>3. /\ Head(q) \in R!Entry /\ Head(q) = q[1] /\ 1 \in DOMAIN q /\ Head(q) \in R!Items(q)
      /\ Head(q) \notin R!Items(Tail(q))
  BY <1>2, RTail
<1>4. handled[Head(q)] = 0
  BY <1>1, <1>3 DEF RInv, RTodo
<1>5. handled' \in [R!Entry -> Nat] /\ handled'[Head(q)] = 1 /\ \A e \in R!Entry \ {Head(q)} : handled'[e] = handled[e]
  BY <1>1, <1>3, <1>4 DEF RInv, RTyped
<1>6. Head(q) \in R!InHand /\ \A m \in Loop \ {l} : Head(q) \notin R!Items(loop[m].batch)
  BY <1>3 DEF RInv, RApart, R!InHand
<1> QED
  BY <1>1, <1>2, <1>3, <1>4, <1>5, <1>6

\* The handler returns: its message was handled this once.
LEMMA RReturnsInv ==
  ASSUME RInv, NEW l \in Loop, R!HandlerReturns(l) PROVE RInv'
<1> DEFINE q == loop[l].batch
<1>1. /\ loop[l].at = "handle" /\ q \in Seq(R!Entry) /\ q # <<>> /\ R!Rising(q)
      /\ handled[Head(q)] = 0 /\ handled' \in [R!Entry -> Nat] /\ handled'[Head(q)] = 1
      /\ \A e \in R!Entry \ {Head(q)} : handled'[e] = handled[e]
      /\ Head(q) \in R!InHand /\ Head(q) \notin R!Items(Tail(q))
      /\ \A m \in Loop \ {l} : Head(q) \notin R!Items(loop[m].batch)
      /\ UNCHANGED <<entries, top, group, since, unhandled, given, acked>>
  BY RHandled DEF R!HandlerReturns
<1>2. loop' = [loop EXCEPT ![l].at = "ack"] /\ failed' = failed
  BY DEF R!HandlerReturns
<1>3. /\ loop' \in [Loop -> [at : RAt, batch : Seq(R!Entry)]] /\ loop'[l].at = "ack"
      /\ \A m \in Loop \ {l} : loop'[m] = loop[m]
      /\ \A m \in Loop : loop'[m].batch = loop[m].batch
  BY <1>2 DEF RInv, RTyped, RAt
<1>4. R!InHand' = R!InHand
  BY <1>3 DEF R!InHand
<1>5. RTyped' /\ RBatches' /\ RApart'
  <2>1. RTyped'
    BY <1>1, <1>3 DEF RInv, RTyped
  <2>2. RBatches'
    BY <1>1, <1>3 DEF RInv, RBatches
  <2>3. RApart'
    BY <1>3 DEF RInv, RApart
  <2> QED
    BY <2>1, <2>2, <2>3
<1>6. RTodo'
  <2> SUFFICES ASSUME NEW m \in Loop, NEW i \in DOMAIN loop'[m].batch, loop'[m].at = "handle" \/ i > 1
               PROVE  handled'[loop'[m].batch[i]] = 0
    BY DEF RTodo
  <2>0. i \in DOMAIN loop[m].batch /\ loop'[m].batch[i] = loop[m].batch[i]
    BY <1>3
  <2>1. loop[m].batch[i] \in R!Entry
    BY <2>0 DEF RInv, RTyped
  <2>2. CASE m = l
    <3>1. i > 1 /\ loop[l].batch[i] # Head(q)
      <4>1. i > 1 /\ i \in DOMAIN q /\ 1 \in DOMAIN q /\ Head(q) = q[1]
        BY <1>1, <1>3, <2>0, <2>2, RTail
      <4>2. q[1] < q[i] /\ q[1] \in Nat
        <5>1. q[1] \in Nat
          <6>1. q[1] \in R!Entry
            BY <1>1, <4>1, RTail
          <6> QED
            BY <6>1, REntries
        <5>2. q[1] < q[i]
          BY <1>1, <4>1 DEF R!Rising
        <5> QED
          BY <5>1, <5>2
      <4> QED
        BY <4>1, <4>2, <2>2
    <3> QED
      BY <1>1, <2>0, <2>1, <2>2, <3>1 DEF RInv, RTodo
  <2>3. CASE m # l
    <3>1. loop[m].batch[i] # Head(q)
      BY <1>1, <2>0, <2>3 DEF R!Items
    <3>2. loop[m].at = "handle" \/ i > 1
      BY <1>3, <2>3
    <3>3. handled[loop[m].batch[i]] = 0
      BY <2>0, <3>2 DEF RInv, RTodo
    <3> QED
      BY <1>1, <2>0, <2>1, <3>1, <3>3
  <2> QED
    BY <2>2, <2>3
<1>7. RPast'
  BY <1>1, <1>4 DEF RInv, RPast
<1>8. R!StreamAccounts'
  BY <1>1, <1>2, <1>4 DEF RInv, R!StreamAccounts
<1> QED
  BY <1>5, <1>6, <1>7, <1>8 DEF RInv

\* A loop goes on to the rest of its batch.
LEMMA RGoesOn ==
  ASSUME RInv, NEW l \in Loop, loop[l].at \in {"handle", "ack"}, loop' = [loop EXCEPT ![l] = R!Rest(loop[l].batch)],
         UNCHANGED <<entries, top, group, since>>, handled' \in [R!Entry -> Nat],
         \A e \in R!Entry \ {Head(loop[l].batch)} : handled'[e] = handled[e]
  PROVE  /\ RTyped' /\ RBatches' /\ RApart' /\ RTodo' /\ RPast'
         /\ R!InHand \subseteq R!InHand' \cup {Head(loop[l].batch)} /\ Head(loop[l].batch) \in R!Entry
<1> DEFINE q == loop[l].batch
<1>1. q \in Seq(R!Entry) /\ q # <<>> /\ R!Rising(q)
  BY DEF RInv, RTyped, RBatches
<1>2. /\ Tail(q) \in Seq(R!Entry) /\ R!Rising(Tail(q)) /\ Head(q) \in R!Entry
      /\ R!Items(q) = {Head(q)} \cup R!Items(Tail(q)) /\ Head(q) \notin R!Items(Tail(q))
      /\ \A i \in DOMAIN Tail(q) : Tail(q)[i] = q[i + 1] /\ i + 1 \in DOMAIN q /\ i + 1 > 1
      /\ (Tail(q) = <<>> <=> Len(q) = 1)
  BY <1>1, RTail
<1>3. /\ R!Rest(q) \in [at : RAt, batch : Seq(R!Entry)] /\ R!Rest(q).batch = Tail(q)
      /\ R!Rest(q).at \in {"read", "handle"} /\ (Tail(q) = <<>> <=> R!Rest(q).at = "read")
  BY <1>2 DEF R!Rest, RAt
<1>4. /\ loop' \in [Loop -> [at : RAt, batch : Seq(R!Entry)]] /\ loop'[l] = R!Rest(q)
      /\ \A m \in Loop \ {l} : loop'[m] = loop[m]
  BY <1>3 DEF RInv, RTyped
<1>5. /\ R!InHand \subseteq R!InHand' \cup {Head(q)} /\ R!InHand' \subseteq R!InHand
      /\ Head(q) \in R!InHand
  <2>1. R!Items(loop'[l].batch) = R!Items(Tail(q)) /\ \A m \in Loop \ {l} : R!Items(loop'[m].batch) = R!Items(loop[m].batch)
    BY <1>3, <1>4
  <2>2. Head(q) \in R!Items(q) /\ \A m \in Loop : R!Items(loop'[m].batch) \subseteq R!Items(loop[m].batch)
    BY <1>2, <2>1
  <2>3. \A m \in Loop : R!Items(loop[m].batch) \subseteq R!Items(loop'[m].batch) \cup {Head(q)}
    BY <1>2, <2>1
  <2> QED
    BY <2>2, <2>3 DEF R!InHand
<1>6. RTyped' /\ RBatches'
  BY <1>2, <1>3, <1>4 DEF RInv, RTyped, RBatches
<1>7. RApart'
  BY <1>2, <1>3, <1>4 DEF RInv, RApart
<1>8. \A m \in Loop \ {l} : Head(q) \notin R!Items(loop[m].batch)
  BY <1>2 DEF RInv, RApart
<1>9. RTodo'
  <2> SUFFICES ASSUME NEW m \in Loop, NEW i \in DOMAIN loop'[m].batch, loop'[m].at = "handle" \/ i > 1
               PROVE  handled'[loop'[m].batch[i]] = 0
    BY DEF RTodo
  <2>1. CASE m = l
    <3>1. Tail(q)[i] = q[i + 1] /\ i + 1 \in DOMAIN q /\ i + 1 > 1 /\ Tail(q)[i] \in R!Items(Tail(q))
      BY <1>2, <1>3, <1>4, <2>1 DEF R!Items
    <3>2. handled[q[i + 1]] = 0 /\ Tail(q)[i] \in R!Entry /\ Tail(q)[i] # Head(q)
      <4>1. handled[q[i + 1]] = 0
        BY <2>1, <3>1 DEF RInv, RTodo
      <4>2. Tail(q)[i] \in R!Entry
        <5>1. i \in DOMAIN Tail(q)
          BY <1>3, <1>4, <2>1
        <5> QED
          BY <1>2, <5>1
      <4>3. Tail(q)[i] # Head(q)
        BY <1>2, <3>1
      <4> QED
        BY <4>1, <4>2, <4>3
    <3>3. loop'[m].batch[i] = Tail(q)[i]
      BY <1>3, <1>4, <2>1
    <3>4. handled'[Tail(q)[i]] = handled[q[i + 1]]
      BY <3>1, <3>2
    <3> QED
      BY <3>2, <3>3, <3>4
  <2>2. CASE m # l
    <3>1. loop'[m] = loop[m] /\ loop[m].batch[i] \in R!Entry /\ loop[m].batch[i] # Head(q)
      BY <1>4, <1>8, <2>2 DEF RInv, RTyped, R!Items
    <3> QED
      BY <3>1, <2>2 DEF RInv, RTodo
  <2> QED
    BY <2>1, <2>2
<1>10. RPast'
  BY <1>5 DEF RInv, RPast
<1> QED
  BY <1>2, <1>5, <1>6, <1>7, <1>9, <1>10

\* The handler throws: its message failed and the loop goes on.
LEMMA RThrowsInv ==
  ASSUME RInv, NEW l \in Loop, R!HandlerThrows(l) PROVE RInv'
<1> DEFINE q == loop[l].batch
<1>1. /\ loop[l].at = "handle" /\ q \in Seq(R!Entry) /\ q # <<>> /\ R!Rising(q)
      /\ handled[Head(q)] = 0 /\ handled' \in [R!Entry -> Nat] /\ handled'[Head(q)] = 1
      /\ \A e \in R!Entry \ {Head(q)} : handled'[e] = handled[e]
      /\ UNCHANGED <<entries, top, group, since, unhandled, given, acked>>
  BY RHandled DEF R!HandlerThrows
<1>2. loop' = [loop EXCEPT ![l] = R!Rest(loop[l].batch)] /\ failed' = failed \cup {Head(q)}
  BY DEF R!HandlerThrows
<1>3. /\ RTyped' /\ RBatches' /\ RApart' /\ RTodo' /\ RPast'
      /\ R!InHand \subseteq R!InHand' \cup {Head(q)}
  BY <1>1, <1>2, RGoesOn
<1>4. R!StreamAccounts'
  <2>1. \A e \in R!Entry : handled'[e] <= 1
    BY <1>1 DEF RInv, R!StreamAccounts
  <2> QED
    BY <1>1, <1>2, <1>3, <2>1 DEF RInv, R!StreamAccounts
<1> QED
  BY <1>3, <1>4 DEF RInv

\* The message is acknowledged and leaves the pending list.
LEMMA RAckInv ==
  ASSUME RInv, NEW l \in Loop, R!Acknowledge(l) PROVE RInv'
<1> DEFINE q == loop[l].batch
<1>1. /\ loop[l].at = "ack" /\ unhandled' = unhandled \ {Head(q)} /\ acked' = acked \cup {Head(q)}
      /\ loop' = [loop EXCEPT ![l] = R!Rest(loop[l].batch)]
      /\ UNCHANGED <<entries, top, group, since, given, handled, failed>>
  BY DEF R!Acknowledge
<1>2. handled' \in [R!Entry -> Nat]
  BY <1>1 DEF RInv, RTyped
<1>3. /\ RTyped' /\ RBatches' /\ RApart' /\ RTodo' /\ RPast'
      /\ R!InHand \subseteq R!InHand' \cup {Head(q)}
  BY <1>1, <1>2, RGoesOn
<1>4. R!StreamAccounts'
  BY <1>1, <1>3 DEF RInv, R!StreamAccounts
<1> QED
  BY <1>3, <1>4 DEF RInv

\* An exit: what was in hand has failed.
LEMMA RCrashInv ==
  ASSUME RInv, R!Crash PROVE RInv'
<1>1. /\ failed' = failed \cup R!InHand /\ loop' = [l \in Loop |-> R!Off]
      /\ UNCHANGED <<entries, top, group, since, unhandled, given, handled, acked>>
  BY DEF R!Crash, R!redis
<1>2. /\ R!Off \in [at : RAt, batch : Seq(R!Entry)] /\ R!Off.at = "off" /\ R!Off.batch = <<>> /\ R!Items(R!Off.batch) = {}
  BY DEF R!Off, RAt, R!Items
<1>3. R!InHand' = {}
  BY <1>1, <1>2 DEF R!InHand
<1>4. RTyped' /\ RApart' /\ RTodo'
  BY <1>1, <1>2 DEF RInv, RTyped, RApart, RTodo
<1>5. RBatches'
  BY <1>1, <1>2 DEF RBatches, R!Rising
<1>6. RPast' /\ R!StreamAccounts'
  BY <1>1, <1>3 DEF RInv, RPast, R!StreamAccounts
<1> QED
  BY <1>4, <1>5, <1>6 DEF RInv

\* Every step keeps the invariant.
LEMMA RNextInv == RInv /\ [R!Next]_R!vars => RInv'
  BY RStreamInv, RFlagInv, RStartInv, RReadInv, RReturnsInv, RThrowsInv, RAckInv, RConsumeInv, RCrashInv
  DEF R!Next, R!Runs

\* No entry is handled twice, and what the group was given is owed or acknowledged
\* and in somebody's hand, for any number of loops, clients and faults.
THEOREM RKept == R!Init /\ [][R!Next]_R!vars => []R!StreamAccounts
<1>1. RInv => R!StreamAccounts
  BY DEF RInv
<1> QED
  BY <1>1, RInitInv, RNextInv, PTL

-----------------------------------------------------------------------------
(* Feature flag: FInv                                                      *)

FRow  == [enabled : BOOLEAN, type : F!FlagType, percentage : 0..Full, userIds : SUBSET User]

\* What the assumption says of the flag.
LEMMA FNone == None \notin FRow /\ Full \in Nat
  BY ServicesAssumption DEF FRow

FOp   == {"create", "createSpaced", "put", "delete", "enable", "disable", "toggle", None}
FAt   == {"idle", "find", "write", "broadcast"}
FReq  == [op : FOp, at : FAt, value : BOOLEAN, last : BOOLEAN]
FOn    == flag # None /\ flag.enabled
FTyped ==
  /\ flag \in FRow \cup {None} /\ bucket \in [User -> 1..Full] /\ freq \in [Req -> FReq]
  /\ told \in BOOLEAN /\ silent \in BOOLEAN /\ overtaken \in BOOLEAN
\* Who is about to tell of the last write tells what the flag is.
FLast == \A r \in Req : freq[r].at = "broadcast" /\ freq[r].last => freq[r].value = FOn
\* When nobody is about to tell, the room was told.
FToldOf == (\A r \in Req : freq[r].at # "broadcast") => told = FOn \/ silent \/ overtaken
FInv == FTyped /\ FLast /\ FToldOf

\* No flag, no request.
LEMMA FInitInv == F!Init => FInv
<1> SUFFICES ASSUME F!Init PROVE FInv
  OBVIOUS
<1>1. F!Idle \in FReq /\ F!Idle.at = "idle"
  BY DEF F!Idle, FReq, FOp, FAt
<1> QED
  BY <1>1 DEF F!Init, FInv, FTyped, FLast, FToldOf, FOn

\* A request moves on without a word or a write.
LEMMA FMovesInv ==
  ASSUME FInv, NEW r \in Req, NEW new \in FReq, new.at # "broadcast", freq[r].at # "broadcast",
         freq' = [freq EXCEPT ![r] = new], UNCHANGED <<flag, bucket, told, silent, overtaken>>
  PROVE  FInv'
<1>1. freq' \in [Req -> FReq] /\ freq'[r] = new /\ \A q \in Req \ {r} : freq'[q] = freq[q]
  BY DEF FInv, FTyped
<1>2. FTyped' /\ FOn' = FOn
  BY <1>1 DEF FInv, FTyped, FOn
<1>3. FLast'
  BY <1>1, <1>2 DEF FInv, FLast
<1>4. FToldOf'
  BY <1>1, <1>2 DEF FInv, FToldOf
<1> QED
  BY <1>2, <1>3, <1>4 DEF FInv

\* The requests and the flag, field by field.
LEMMA FRows ==
  ASSUME FInv, NEW r \in Req
  PROVE  /\ F!Idle \in FReq /\ F!Idle.at = "idle" /\ freq[r] \in FReq
         /\ \A l \in FAt : [freq[r] EXCEPT !.at = l] \in FReq /\ [freq[r] EXCEPT !.at = l].at = l
         /\ flag # None => flag \in FRow /\ flag.enabled \in BOOLEAN
  BY DEF FInv, FTyped, FReq, FAt, FOp, F!Idle, FRow

\* The steps that only look, and new requests.
LEMMA FLooksInv ==
  ASSUME FInv, NEW r \in Req,
         F!FindForCreate(r) \/ F!FindForToggle(r)
           \/ \E what \in {"create", "createSpaced", "put", "delete", "enable", "disable", "toggle"} : F!Request(r, what)
  PROVE  FInv'
<1>1. CASE F!FindForCreate(r)
  <2>1. PICK new \in FReq : new.at # "broadcast" /\ freq' = [freq EXCEPT ![r] = new]
    BY <1>1, FRows DEF F!FindForCreate, F!Set, FAt
  <2> QED
    BY <1>1, <2>1, FMovesInv DEF F!FindForCreate
<1>2. CASE F!FindForToggle(r)
  <2>1. CASE flag = None
    BY <1>2, <2>1, FRows, FMovesInv DEF F!FindForToggle, F!Set
  <2>2. CASE flag # None
    <3> DEFINE new == [freq[r] EXCEPT !.at = "write", !.value = ~flag.enabled]
    <3>1. new \in FReq /\ new.at = "write"
      BY <2>2, FRows DEF FReq, FAt
    <3>2. freq' = [freq EXCEPT ![r] = new]
      BY <1>2, <2>2 DEF F!FindForToggle, F!Set
    <3> HIDE DEF new
    <3> QED
      BY <1>2, <3>1, <3>2, FMovesInv DEF F!FindForToggle
  <2> QED
    BY <2>1, <2>2
<1>3. ASSUME NEW what \in {"create", "createSpaced", "put", "delete", "enable", "disable", "toggle"}, F!Request(r, what)
      PROVE  FInv'
  <2> DEFINE new == [F!Idle EXCEPT !.op = what, !.at = IF what \in {"toggle", "create", "createSpaced"} THEN "find" ELSE "write"]
  <2>1. new \in FReq /\ new.at # "broadcast"
    BY DEF F!Idle, FReq, FOp, FAt
  <2>2. freq' = [freq EXCEPT ![r] = new]
    BY <1>3 DEF F!Request, F!Set
  <2> HIDE DEF new
  <2> QED
    BY <1>3, <2>1, <2>2, FMovesInv DEF F!Request
<1> QED
  BY <1>1, <1>2, <1>3

\* A write that tells nobody.
LEMMA FSilentInv ==
  ASSUME FInv, NEW r \in Req, freq[r].at = "write", F!WroteSilently(r), flag' \in FRow \cup {None},
         silent' = (silent \/ FOn' # FOn) \/ (silent' = (silent \/ told) /\ FOn' = FALSE), silent' \in BOOLEAN,
         UNCHANGED <<bucket, told, overtaken>>
  PROVE  FInv'
<1>1. /\ freq' \in [Req -> FReq] /\ freq'[r] = F!Idle
      /\ \A q \in Req \ {r} : freq'[q].at = freq[q].at /\ freq'[q].last = FALSE
  <2>1. \A q \in Req : [freq[q] EXCEPT !.last = FALSE] \in FReq /\ F!Idle \in FReq
    BY FRows DEF FReq
  <2>2. freq' = [x \in Req |-> IF x = r THEN F!Idle ELSE [freq[x] EXCEPT !.last = FALSE]]
    BY DEF F!WroteSilently
  <2>3. freq' \in [Req -> FReq]
    BY <2>1, <2>2
  <2>4. \A q \in Req \ {r} : freq'[q].at = freq[q].at /\ freq'[q].last = FALSE
    BY <2>2, FRows DEF FReq
  <2> QED
    BY <2>2, <2>3, <2>4
<1>2. FTyped'
  BY <1>1 DEF FInv, FTyped
<1>3. FLast'
  BY <1>1 DEF FLast, F!Idle
<1>4. FToldOf'
  <2> SUFFICES ASSUME \A q \in Req : freq'[q].at # "broadcast" PROVE told' = FOn' \/ silent' \/ overtaken'
    BY DEF FToldOf
  <2>1. \A q \in Req : freq[q].at # "broadcast"
    BY <1>1
  <2>2. told = FOn \/ silent \/ overtaken
    BY <2>1 DEF FInv, FToldOf
  <2>3. FOn \in BOOLEAN /\ FOn' \in BOOLEAN /\ told \in BOOLEAN
    BY DEF FOn, FInv, FTyped, FRow
  <2> QED
    BY <2>2, <2>3
<1> QED
  BY <1>2, <1>3, <1>4 DEF FInv

\* A write that will be told.
LEMMA FWroteInv ==
  ASSUME FInv, NEW r \in Req, NEW v \in BOOLEAN, F!Wrote(r, v), flag # None, flag' = [flag EXCEPT !.enabled = v],
         UNCHANGED <<bucket, told, silent, overtaken>>
  PROVE  FInv'
<1>1. flag' \in FRow /\ flag'.enabled = v /\ flag' # None
  BY FRows, FNone DEF FRow
<1>2. /\ freq' \in [Req -> FReq] /\ freq'[r].at = "broadcast" /\ freq'[r].value = v
      /\ \A q \in Req \ {r} : freq'[q].last = FALSE
  BY FRows DEF F!Wrote, FInv, FTyped, FReq, FAt
<1>3. FTyped' /\ FLast' /\ FToldOf'
  BY <1>1, <1>2 DEF FInv, FTyped, FLast, FToldOf, FOn
<1> QED
  BY <1>3 DEF FInv

\* The steps that write the flag.
LEMMA FWritesInv ==
  ASSUME FInv, NEW r \in Req, F!Create(r) \/ F!Update(r) \/ F!Delete(r) \/ F!EnableOrDisable(r) \/ F!Toggle(r)
  PROVE  FInv'
<1>1. CASE F!Create(r)
  <2>1. CASE flag # None
    BY <1>1, <2>1, FRows, FMovesInv DEF F!Create, F!Set
  <2>2. CASE flag = None
    <3>1. flag' \in F!NewFlag /\ F!WroteSilently(r) /\ silent' = (silent \/ told)
      BY <1>1, <2>2 DEF F!Create
    <3>2. flag' \in FRow /\ ~flag'.enabled /\ silent' \in BOOLEAN
      BY <3>1 DEF F!NewFlag, FRow, FInv, FTyped
    <3> QED
      BY <1>1, <3>1, <3>2, FSilentInv DEF F!Create, FOn
  <2> QED
    BY <2>1, <2>2
<1>2. CASE F!Update(r)
  <2>1. CASE flag = None
    BY <1>2, <2>1, FRows, FMovesInv DEF F!Update, F!Set
  <2>2. CASE flag # None
    <3>1. /\ \E v \in BOOLEAN, p \in {flag.percentage, Full} : flag' = [flag EXCEPT !.enabled = v, !.percentage = p]
          /\ F!WroteSilently(r) /\ silent' = (silent \/ flag'.enabled # flag.enabled)
      BY <1>2, <2>2 DEF F!Update
    <3>2. flag' \in FRow /\ flag' # None /\ silent' \in BOOLEAN
      <4>1. PICK v \in BOOLEAN, p \in 0..Full : flag' = [flag EXCEPT !.enabled = v, !.percentage = p]
        <5>1. flag.percentage \in 0..Full /\ Full \in 0..Full
          BY <2>2, FRows, FNone DEF FRow
        <5> QED
          BY <3>1, <5>1
      <4>2. flag' \in FRow /\ flag'.enabled = v
        BY <2>2, <4>1, FRows DEF FRow
      <4> QED
        BY <2>2, <3>1, <4>2, FRows, FNone DEF FInv, FTyped
    <3>3. silent' = (silent \/ FOn' # FOn)
      BY <2>2, <3>1, <3>2, FRows DEF FOn, FRow
    <3> QED
      BY <1>2, <3>1, <3>2, <3>3, FSilentInv DEF F!Update
  <2> QED
    BY <2>1, <2>2
<1>3. CASE F!Delete(r)
  <2>1. flag' = None /\ F!WroteSilently(r) /\ silent' = (silent \/ FOn)
    BY <1>3 DEF F!Delete, FOn
  <2>2. FOn' = FALSE /\ FOn \in BOOLEAN /\ silent' \in BOOLEAN
    BY <2>1, FRows DEF FOn, FInv, FTyped
  <2> QED
    BY <1>3, <2>1, <2>2, FSilentInv DEF F!Delete
<1>4. CASE F!EnableOrDisable(r)
  <2>1. CASE flag = None
    BY <1>4, <2>1, FRows, FMovesInv DEF F!EnableOrDisable, F!Set
  <2>2. CASE flag # None
    BY <1>4, <2>2, FWroteInv DEF F!EnableOrDisable
  <2> QED
    BY <2>1, <2>2
<1>5. CASE F!Toggle(r)
  <2>1. CASE flag = None
    BY <1>5, <2>1, FRows, FMovesInv DEF F!Toggle, F!Set
  <2>2. CASE flag # None
    <3>1. freq[r].value \in BOOLEAN
      BY FRows DEF FReq
    <3> QED
      BY <1>5, <2>2, <3>1, FWroteInv DEF F!Toggle
  <2> QED
    BY <2>1, <2>2
<1> QED
  BY <1>1, <1>2, <1>3, <1>4, <1>5

\* A broadcast: the room is told, of the last write or of an older one.
LEMMA FBroadcastInv ==
  ASSUME FInv, NEW r \in Req, F!BroadcastToRoom(r) PROVE FInv'
<1>1. /\ freq[r].at = "broadcast" /\ told' = freq[r].value /\ silent' = (silent /\ ~freq[r].last)
      /\ overtaken' = ~freq[r].last /\ freq' = [freq EXCEPT ![r] = F!Idle] /\ UNCHANGED <<flag, bucket>>
  BY DEF F!BroadcastToRoom, F!Set
<1>2. freq' \in [Req -> FReq] /\ freq'[r] = F!Idle /\ \A q \in Req \ {r} : freq'[q] = freq[q]
  BY <1>1, FRows DEF FInv, FTyped
<1>3. freq[r].value \in BOOLEAN /\ freq[r].last \in BOOLEAN /\ FOn' = FOn /\ F!Idle.at = "idle"
  BY <1>1, FRows DEF FReq, FOn
<1>4. FTyped'
  BY <1>1, <1>2, <1>3 DEF FInv, FTyped
<1>5. FLast'
  BY <1>2, <1>3 DEF FInv, FLast
<1>6. FToldOf'
  BY <1>1, <1>3 DEF FInv, FLast, FToldOf
<1> QED
  BY <1>4, <1>5, <1>6 DEF FInv

\* Every step keeps the invariant.
LEMMA FNextInv == FInv /\ [F!Next]_F!vars => FInv'
<1>1. ASSUME FInv, UNCHANGED F!vars PROVE FInv'
  BY <1>1 DEF F!vars, FInv, FTyped, FLast, FToldOf, FOn
<1> QED
  BY <1>1, FLooksInv, FWritesInv, FBroadcastInv DEF F!Next, F!Step

\* The buckets are 1 to Full, so a percentage takes those up to it.
LEMMA FRollout == FTyped => F!RolloutBounds
<1> SUFFICES ASSUME FTyped, flag # None, flag.type = "percentage"
             PROVE  LET At(p) == {u \in User : F!Evaluate([flag EXCEPT !.enabled = TRUE, !.percentage = p], u)}
                    IN At(0) = {} /\ At(Full) = User /\ \A p, q \in 0..Full : p <= q => At(p) \subseteq At(q)
  BY DEF F!RolloutBounds
<1>1. \A u \in User : bucket[u] \in 1..Full
  BY DEF FTyped
<1>2. ASSUME NEW u \in User, NEW p \in 0..Full
      PROVE  F!Evaluate([flag EXCEPT !.enabled = TRUE, !.percentage = p], u) <=> bucket[u] <= p
  <2> DEFINE f == [flag EXCEPT !.enabled = TRUE, !.percentage = p]
  <2>1. f \in FRow /\ f.enabled = TRUE /\ f.type = "percentage" /\ f.percentage = p
    BY DEF FTyped, FRow
  <2>2. f # None
    BY <2>1, FNone
  <2> HIDE DEF f
  <2>3. F!Evaluate(f, u) <=> bucket[u] <= p
    BY <2>1, <2>2 DEF F!Evaluate
  <2> QED
    BY <2>3 DEF f
<1> DEFINE At(p) == {u \in User : F!Evaluate([flag EXCEPT !.enabled = TRUE, !.percentage = p], u)}
<1>3. \A p \in 0..Full : At(p) = {u \in User : bucket[u] <= p}
  BY <1>2
<1> HIDE DEF At
<1>4. At(0) = {} /\ At(Full) = User
  <2>1. 0 \in 0..Full /\ Full \in 0..Full /\ \A u \in User : ~(bucket[u] <= 0) /\ bucket[u] <= Full
    BY <1>1, FNone
  <2>2. At(0) = {u \in User : bucket[u] <= 0} /\ At(Full) = {u \in User : bucket[u] <= Full}
    BY <1>3, <2>1
  <2> QED
    BY <2>1, <2>2
<1>5. ASSUME NEW p \in 0..Full, NEW q \in 0..Full, p <= q PROVE At(p) \subseteq At(q)
  <2>1. \A u \in User : bucket[u] <= p => bucket[u] <= q
    BY <1>1, <1>5, FNone
  <2> QED
    BY <1>3, <2>1
<1> QED
  BY <1>4, <1>5 DEF At

\* The room is told what the flag is, and a rollout grows with its percentage.
THEOREM FKept == F!Spec => []F!FlagRules
<1>1. FInv => F!FlagRules
  <2> SUFFICES ASSUME FInv PROVE F!FlagRules
    OBVIOUS
  <2>1. F!RoomIsTold
    BY DEF FInv, FToldOf, F!RoomIsTold, FOn
  <2> QED
    BY <2>1, FRollout DEF FInv, F!FlagRules
<1> QED
  BY <1>1, FInitInv, FNextInv, PTL DEF F!Spec

-----------------------------------------------------------------------------
(* Presence of a user: PInv                                                *)

PTyped ==
  /\ session \in [Socket -> [state : P!State, on : Instance \cup {None}]] /\ op \in [Socket -> P!Op]
  /\ crashes \in Nat /\ sockets \subseteq Socket
  /\ online \in BOOLEAN /\ announced \in BOOLEAN /\ lapsed \in BOOLEAN /\ raced \in BOOLEAN /\ met \in BOOLEAN
\* A socket is added while its session is there, and taken out when it is gone.
PPlaces ==
  \A s \in Socket : /\ op[s] \in {"add", "isFirst"} => s \in P!Sessions
                    /\ op[s] \in {"remove", "isLast", "leave", "refresh"} => session[s].state = "gone"
\* The key holds the sessions that were added, unless it lapsed, and whoever has still to be removed.
PKey ==
  /\ \A s \in Socket : s \in sockets => s \in P!Sessions \/ op[s] = "remove"
  /\ ~lapsed => \A s \in Socket : s \in P!Sessions /\ op[s] # "add" => s \in sockets
\* The user is online while a session is there that was added, and is about to
\* leave when none is there.
POnline ==
  /\ ~lapsed /\ ~raced => \A s \in Socket : s \in P!Sessions /\ op[s] # "add" => online
  /\ ~lapsed /\ ~raced => \A s, t \in Socket : s \in P!Sessions /\ op[t] = "leave" => op[s] = "add"
  /\ online => P!Sessions # {} \/ \E t \in Socket : op[t] \in {"remove", "isLast", "leave"}
\* Without overlap the status told follows presence:online.
PAgreed == announced = online /\ (~online => sockets = {})
PTold ==
  ~met =>
    /\ \A s, t \in P!Busy : s = t
    /\ ~lapsed =>
         /\ (\A s \in Socket : op[s] \in {"none", "add", "refresh"}) => PAgreed
         /\ \A s \in Socket :
              /\ op[s] = "isFirst" => online /\ (announced \/ sockets = {s})
              /\ op[s] = "remove" => PAgreed \/ sockets \subseteq {s}
              /\ op[s] = "isLast" => PAgreed \/ sockets = {}
              /\ op[s] = "leave" => sockets = {}
PInv == PTyped /\ (crashes = 0 => PPlaces /\ PKey /\ POnline /\ PTold)

\* Nobody is there.
LEMMA PInitInv == P!Init => PInv
<1> SUFFICES ASSUME P!Init PROVE PInv
  OBVIOUS
<1>1. P!Sessions = {} /\ P!Busy = {}
  BY DEF P!Init, P!Sessions, P!In, P!Busy
<1> QED
  BY <1>1 DEF P!Init, PInv, PTyped, PPlaces, PKey, POnline, PTold, PAgreed, P!State, P!Op

\* With no call under way the invariant is the property.
LEMMA PTruthful == PInv => P!PresenceTruthful
<1> SUFFICES ASSUME PInv, P!Busy = {}, crashes = 0
             PROVE  /\ online = (P!Sessions # {}) \/ lapsed \/ raced
                    /\ announced = online \/ lapsed \/ met
  BY DEF P!PresenceTruthful
<1>1. \A s \in Socket : op[s] = "none"
  BY DEF P!Busy
<1>2. online = (P!Sessions # {}) \/ lapsed \/ raced
  <2> SUFFICES ASSUME ~lapsed, ~raced PROVE online = (P!Sessions # {})
    OBVIOUS
  <2>1. P!Sessions # {} => online
    BY <1>1 DEF PInv, POnline, P!Sessions, P!In
  <2>2. online => P!Sessions # {}
    BY <1>1 DEF PInv, POnline
  <2> QED
    BY <2>1, <2>2 DEF PInv, PTyped
<1>3. announced = online \/ lapsed \/ met
  BY <1>1 DEF PInv, PTold, PAgreed
<1> QED
  BY <1>2, <1>3

\* The steps of a call: the sessions stay, the socket's call goes on to o.
LEMMA PThen ==
  ASSUME PInv, NEW s \in Socket, NEW o \in P!Op, P!Then(s, o), UNCHANGED session
  PROVE  /\ op' \in [Socket -> P!Op] /\ op'[s] = o /\ \A t \in Socket \ {s} : op'[t] = op[t]
         /\ P!Sessions' = P!Sessions /\ met' = met
  BY DEF PInv, PTyped, P!Then, P!Sessions, P!In

\* sadd: the session is in the key, the user online.
LEMMA PAddInv ==
  ASSUME PInv, NEW s \in Socket, P!PresenceAdd(s) PROVE PInv'
<1>1. /\ op[s] = "add" /\ sockets' = sockets \cup {s} /\ online' = TRUE /\ raced' = (\E t \in Socket : op[t] = "leave")
      /\ UNCHANGED <<session, announced, crashes, lapsed>>
  BY DEF P!PresenceAdd
<1>2. /\ op' \in [Socket -> P!Op] /\ op'[s] = "isFirst" /\ \A t \in Socket \ {s} : op'[t] = op[t]
      /\ P!Sessions' = P!Sessions /\ met' = met
  BY <1>1, PThen DEF P!PresenceAdd, P!Op
<1>3. PTyped'
  BY <1>1, <1>2 DEF PInv, PTyped
<1> SUFFICES ASSUME crashes = 0 PROVE PPlaces' /\ PKey' /\ POnline' /\ PTold'
  BY <1>1, <1>3 DEF PInv
<1>4. PPlaces' /\ s \in P!Sessions
  BY <1>1, <1>2 DEF PInv, PPlaces
<1>5. PKey'
  BY <1>1, <1>2, <1>4 DEF PInv, PKey
<1>6. POnline'
  BY <1>1, <1>2, <1>4 DEF PInv, POnline
<1>7. PTold'
  <2> SUFFICES ASSUME ~met PROVE PTold'
    BY <1>2 DEF PTold
  <2>1. \A t \in Socket \ {s} : op[t] = "none"
    BY <1>1 DEF PInv, PTold, P!Busy
  <2>2. \A t, u \in P!Busy' : t = u
    BY <1>2, <2>1 DEF P!Busy
  <2>3. ~lapsed => PAgreed
    BY <1>1, <2>1 DEF PInv, PTold
  <2>4. ~lapsed => announced \/ sockets' = {s}
    <3>1. announced \in BOOLEAN /\ online \in BOOLEAN
      BY DEF PInv, PTyped
    <3> QED
      BY <1>1, <2>3, <3>1 DEF PAgreed
  <2>5. \A t \in Socket : op'[t] = IF t = s THEN "isFirst" ELSE "none"
    BY <1>2, <2>1
  <2> QED
    BY <1>1, <2>2, <2>4, <2>5 DEF PTold
<1> QED
  BY <1>4, <1>5, <1>6, <1>7

\* The instance counts as the module of finite sets does.
LEMMA PCounts == \A T : P!Cardinality(T) = Cardinality(T)
  BY DEF P!Cardinality, Cardinality

\* The first socket is counted as one.
LEMMA PSingleton == \A s \in Socket : sockets = {s} => P!Cardinality(sockets) = 1
  BY FS_Singleton, PCounts

\* scard after sadd: the user is announced with the first socket.
LEMMA PFirstInv ==
  ASSUME PInv, NEW s \in Socket, P!IsFirst(s) PROVE PInv'
<1>1. /\ op[s] = "isFirst" /\ announced' = (announced \/ P!Cardinality(sockets) = 1)
      /\ UNCHANGED <<session, sockets, online, crashes, lapsed, raced>>
  BY DEF P!IsFirst
<1>2. /\ op' \in [Socket -> P!Op] /\ op'[s] = "none" /\ \A t \in Socket \ {s} : op'[t] = op[t]
      /\ P!Sessions' = P!Sessions /\ met' = met
  BY <1>1, PThen DEF P!IsFirst, P!Op
<1>3. PTyped'
  BY <1>1, <1>2 DEF PInv, PTyped
<1> SUFFICES ASSUME crashes = 0 PROVE PPlaces' /\ PKey' /\ POnline' /\ PTold'
  BY <1>1, <1>3 DEF PInv
<1>4. PPlaces' /\ PKey' /\ POnline'
  BY <1>1, <1>2 DEF PInv, PPlaces, PKey, POnline
<1>5. PTold'
  <2> SUFFICES ASSUME ~met PROVE PTold'
    BY <1>2 DEF PTold
  <2>1. \A t \in Socket \ {s} : op[t] = "none"
    BY <1>1 DEF PInv, PTold, P!Busy
  <2>2. \A t \in Socket : op'[t] = "none"
    BY <1>2, <2>1
  <2>3. ~lapsed => online /\ announced'
    BY <1>1, PSingleton DEF PInv, PTold
  <2> QED
    BY <1>1, <2>2, <2>3 DEF PTold, PAgreed, P!Busy
<1> QED
  BY <1>4, <1>5

\* srem of a session that is gone.
LEMMA PRemoveInv ==
  ASSUME PInv, NEW s \in Socket, P!PresenceRemove(s) PROVE PInv'
<1>1. /\ op[s] = "remove" /\ sockets' = sockets \ {s}
      /\ UNCHANGED <<session, announced, online, crashes, lapsed, raced>>
  BY DEF P!PresenceRemove
<1>2. /\ op' \in [Socket -> P!Op] /\ op'[s] = "isLast" /\ \A t \in Socket \ {s} : op'[t] = op[t]
      /\ P!Sessions' = P!Sessions /\ met' = met
  BY <1>1, PThen DEF P!PresenceRemove, P!Op
<1>3. PTyped'
  BY <1>1, <1>2 DEF PInv, PTyped
<1> SUFFICES ASSUME crashes = 0 PROVE PPlaces' /\ PKey' /\ POnline' /\ PTold'
  BY <1>1, <1>3 DEF PInv
<1>4. PPlaces' /\ s \notin P!Sessions
  BY <1>1, <1>2 DEF PInv, PPlaces, P!Sessions, P!In
<1>5. PKey' /\ POnline'
  BY <1>1, <1>2, <1>4 DEF PInv, PKey, POnline
<1>6. PTold'
  <2> SUFFICES ASSUME ~met PROVE PTold'
    BY <1>2 DEF PTold
  <2>1. \A t \in Socket \ {s} : op[t] = "none"
    BY <1>1 DEF PInv, PTold, P!Busy
  <2>2. ~lapsed => PAgreed' \/ sockets' = {}
    BY <1>1 DEF PInv, PTold, PAgreed
  <2> QED
    BY <1>1, <1>2, <2>1, <2>2 DEF PTold, PAgreed, P!Busy
<1> QED
  BY <1>4, <1>5, <1>6

\* scard after srem: none left, or another session is there.
LEMMA PLastInv ==
  ASSUME PInv, NEW s \in Socket, P!IsLast(s) PROVE PInv'
<1> DEFINE o == IF sockets = {} THEN "leave" ELSE "refresh"
<1>1. /\ op[s] = "isLast" /\ UNCHANGED <<session, sockets, announced, online, crashes, lapsed, raced>>
  BY DEF P!IsLast
<1>2. /\ op' \in [Socket -> P!Op] /\ op'[s] = o /\ \A t \in Socket \ {s} : op'[t] = op[t]
      /\ P!Sessions' = P!Sessions /\ met' = met
  BY <1>1, PThen DEF P!IsLast, P!Op
<1>3. PTyped'
  BY <1>1, <1>2 DEF PInv, PTyped
<1> SUFFICES ASSUME crashes = 0 PROVE PPlaces' /\ PKey' /\ POnline' /\ PTold'
  BY <1>1, <1>3 DEF PInv
<1>4. PPlaces' /\ s \notin P!Sessions
  BY <1>1, <1>2 DEF PInv, PPlaces, P!Sessions, P!In
<1>5. PKey'
  BY <1>1, <1>2, <1>4 DEF PInv, PKey
<1>6. POnline'
  <2>1. CASE sockets = {}
    BY <1>1, <1>2, <1>4, <2>1 DEF PInv, PKey, POnline
  <2>2. CASE sockets # {}
    <3>1. PICK t \in Socket : t \in sockets /\ (t \in P!Sessions \/ op[t] = "remove")
      BY <2>2 DEF PInv, PKey, PTyped
    <3>2. t \in Socket /\ t # s
      BY <1>1, <1>4, <3>1 DEF PInv, PTyped
    <3> QED
      BY <1>1, <1>2, <1>4, <2>2, <3>1, <3>2 DEF PInv, POnline
  <2> QED
    BY <2>1, <2>2
<1>7. PTold'
  <2> SUFFICES ASSUME ~met PROVE PTold'
    BY <1>2 DEF PTold
  <2>1. \A t \in Socket \ {s} : op[t] = "none"
    BY <1>1 DEF PInv, PTold, P!Busy
  <2>2. ~lapsed => PAgreed \/ sockets = {}
    BY <1>1 DEF PInv, PTold
  <2> QED
    BY <1>1, <1>2, <2>1, <2>2 DEF PTold, PAgreed, P!Busy
<1> QED
  BY <1>4, <1>5, <1>6, <1>7

\* The user leaves presence:online and is announced offline.
LEMMA PLeaveInv ==
  ASSUME PInv, NEW s \in Socket, P!LeaveOnline(s) \/ P!Refresh(s) PROVE PInv'
<1>1. /\ UNCHANGED <<session, sockets, crashes, lapsed, raced>>
      /\ \/ op[s] = "leave" /\ online' = FALSE /\ announced' = FALSE
         \/ op[s] = "refresh" /\ UNCHANGED <<online, announced>>
  BY DEF P!LeaveOnline, P!Refresh
<1>2. /\ op' \in [Socket -> P!Op] /\ op'[s] = "none" /\ \A t \in Socket \ {s} : op'[t] = op[t]
      /\ P!Sessions' = P!Sessions /\ met' = met
  BY <1>1, PThen DEF P!LeaveOnline, P!Refresh, P!Op
<1>3. PTyped'
  BY <1>1, <1>2 DEF PInv, PTyped
<1> SUFFICES ASSUME crashes = 0 PROVE PPlaces' /\ PKey' /\ POnline' /\ PTold'
  BY <1>1, <1>3 DEF PInv
<1>4. PPlaces' /\ s \notin P!Sessions
  BY <1>1, <1>2 DEF PInv, PPlaces, P!Sessions, P!In
<1>5. PKey'
  BY <1>1, <1>2, <1>4 DEF PInv, PKey
<1>6. POnline'
  BY <1>1, <1>2, <1>4 DEF PInv, POnline
<1>7. PTold'
  <2> SUFFICES ASSUME ~met PROVE PTold'
    BY <1>2 DEF PTold
  <2>1. \A t \in Socket \ {s} : op[t] = "none"
    BY <1>1 DEF PInv, PTold, P!Busy
  <2>2. ~lapsed => PAgreed'
    BY <1>1, <2>1 DEF PInv, PTold, PAgreed
  <2>3. \A t \in Socket : op'[t] = "none"
    BY <1>2, <2>1
  <2> QED
    BY <1>1, <2>2, <2>3 DEF PTold, P!Busy
<1> QED
  BY <1>4, <1>5, <1>6, <1>7

\* A socket connects: its session is there and not yet in the key.
LEMMA PConnectInv ==
  ASSUME PInv, NEW s \in Socket, NEW i \in Instance, P!HandleConnection(s, i) PROVE PInv'
<1> DEFINE new == [state |-> "connected", on |-> i]
<1>1. /\ session[s].state = "unopened" /\ session' = [session EXCEPT ![s] = new]
      /\ op' = [op EXCEPT ![s] = "add"] /\ met' = (P!Busy # {} \/ (met /\ (P!Sessions # {} \/ announced # online)))
      /\ UNCHANGED <<sockets, online, announced, crashes, lapsed, raced>>
  BY DEF P!HandleConnection, P!Begin
<1>2. new \in [state : P!State, on : Instance \cup {None}] /\ new.state = "connected"
  BY DEF P!State
<1> HIDE DEF new
<1>3. /\ session' \in [Socket -> [state : P!State, on : Instance \cup {None}]]
      /\ op' \in [Socket -> P!Op] /\ op'[s] = "add" /\ session'[s] = new
      /\ \A t \in Socket \ {s} : session'[t] = session[t] /\ op'[t] = op[t]
  BY <1>1, <1>2 DEF PInv, PTyped, P!Op
<1>4. P!Sessions' = P!Sessions \cup {s} /\ s \notin P!Sessions
  BY <1>1, <1>2, <1>3 DEF P!Sessions, P!In
<1>5. PTyped'
  BY <1>1, <1>3 DEF PInv, PTyped
<1> SUFFICES ASSUME crashes = 0 PROVE PPlaces' /\ PKey' /\ POnline' /\ PTold'
  BY <1>1, <1>5 DEF PInv
<1>6. PPlaces' /\ op[s] \notin {"remove", "isLast", "leave", "refresh"} /\ op[s] \notin {"add", "isFirst"}
  BY <1>1, <1>3, <1>4 DEF PInv, PPlaces
<1>7. PKey' /\ POnline'
  BY <1>1, <1>3, <1>4, <1>6 DEF PInv, PKey, POnline
<1>8. PTold'
  <2> SUFFICES ASSUME P!Busy = {}, ~met \/ (P!Sessions = {} /\ announced = online) PROVE PTold'
    BY <1>1 DEF PTold
  <2>1. \A t \in Socket \ {s} : op'[t] = "none"
    BY <1>3 DEF P!Busy
  <2>2. \A t \in Socket : op[t] = "none"
    BY DEF P!Busy
  <2>3. ~lapsed => PAgreed
    <3>1. CASE ~met
      BY <2>2, <3>1 DEF PInv, PTold
    <3>2. CASE P!Sessions = {} /\ announced = online
      BY <2>2, <3>2 DEF PInv, PKey, PAgreed, PTyped
    <3> QED
      BY <3>1, <3>2
  <2> QED
    BY <1>1, <1>3, <2>1, <2>3 DEF PTold, PAgreed, P!Busy
<1> QED
  BY <1>6, <1>7, <1>8

\* The timer runs: the session is gone, its removal begins.
LEMMA PCleanUpInv ==
  ASSUME PInv, NEW s \in Socket, P!CleanUp(s) PROVE PInv'
<1> DEFINE new == [session[s] EXCEPT !.state = "gone"]
<1>1. /\ session[s].state = "due" /\ op[s] \notin {"add", "isFirst"}
      /\ session' = [session EXCEPT ![s] = [state |-> "gone", on |-> session[s].on]] /\ lapsed' = (lapsed /\ P!Sessions # {s})
      /\ op' = [op EXCEPT ![s] = "remove"] /\ met' = (P!Busy # {} \/ (met /\ (P!Sessions # {} \/ announced # online)))
      /\ UNCHANGED <<sockets, online, announced, crashes, raced>>
  BY DEF P!CleanUp, P!Begin
<1>2. /\ session' \in [Socket -> [state : P!State, on : Instance \cup {None}]]
      /\ op' \in [Socket -> P!Op] /\ op'[s] = "remove" /\ session'[s].state = "gone"
      /\ \A t \in Socket \ {s} : session'[t] = session[t] /\ op'[t] = op[t]
  BY <1>1 DEF PInv, PTyped, P!Op, P!State
<1>3. P!Sessions' = P!Sessions \ {s} /\ s \in P!Sessions
  BY <1>1, <1>2 DEF P!Sessions, P!In
<1>4. PTyped'
  BY <1>1, <1>2 DEF PInv, PTyped
<1> SUFFICES ASSUME crashes = 0 PROVE PPlaces' /\ PKey' /\ POnline' /\ PTold'
  BY <1>1, <1>4 DEF PInv
<1>5. PPlaces' /\ op[s] \notin {"remove", "isLast", "leave", "refresh"}
  BY <1>1, <1>2, <1>3 DEF PInv, PPlaces
<1>6. PKey'
  BY <1>1, <1>2, <1>3, <1>5 DEF PInv, PKey
<1>7. POnline'
  BY <1>1, <1>2, <1>3, <1>5 DEF PInv, POnline
<1>8. PTold'
  <2> SUFFICES ASSUME P!Busy = {}, ~met PROVE PTold'
    BY <1>1, <1>3 DEF PTold
  <2>1. \A t \in Socket \ {s} : op'[t] = "none"
    BY <1>2 DEF P!Busy
  <2>2. \A t \in Socket : op[t] = "none"
    BY DEF P!Busy
  <2>3. ~lapsed' => PAgreed \/ sockets \subseteq {s}
    <3>1. CASE ~lapsed
      BY <2>2, <3>1 DEF PInv, PTold
    <3>2. CASE P!Sessions = {s}
      BY <2>2, <3>2 DEF PInv, PKey, PTyped
    <3> QED
      BY <1>1, <3>1, <3>2
  <2> QED
    BY <1>1, <1>2, <2>1, <2>3 DEF PTold, PAgreed, P!Busy
<1> QED
  BY <1>5, <1>6, <1>7, <1>8

\* Steps that change no call: who is there stays, and the key at most lapses.
LEMMA PQuietInv ==
  ASSUME PInv, (\E s \in Socket : P!HandleDisconnect(s)) \/ P!Tick \/ UNCHANGED P!vars PROVE PInv'
<1>1. /\ UNCHANGED <<online, announced, op, crashes, raced, met>>
      /\ \/ UNCHANGED <<sockets, lapsed>>
         \/ sockets' = {} /\ lapsed' = (lapsed \/ P!Sessions # {})
  BY DEF P!HandleDisconnect, P!Tick, P!vars
<1>2. /\ session' \in [Socket -> [state : P!State, on : Instance \cup {None}]]
      /\ \A s \in Socket : \/ session'[s].state = session[s].state
                           \/ {session[s].state, session'[s].state} \subseteq {"connected", "waiting", "due"}
  <2>1. ASSUME NEW s \in Socket, P!HandleDisconnect(s)
        PROVE  /\ session' \in [Socket -> [state : P!State, on : Instance \cup {None}]]
               /\ \A t \in Socket : \/ session'[t].state = session[t].state
                                    \/ {session[t].state, session'[t].state} \subseteq {"connected", "waiting", "due"}
    BY <2>1 DEF P!HandleDisconnect, PInv, PTyped, P!State
  <2>2. CASE P!Tick
    BY <2>2 DEF P!Tick, PInv, PTyped, P!State
  <2>3. CASE UNCHANGED P!vars
    BY <2>3 DEF P!vars, PInv, PTyped
  <2> QED
    BY <2>1, <2>2, <2>3
<1>3. P!Sessions' = P!Sessions /\ P!Busy' = P!Busy
  BY <1>1, <1>2 DEF P!Sessions, P!In, P!Busy
<1>4. PTyped'
  BY <1>1, <1>2 DEF PInv, PTyped
<1> SUFFICES ASSUME crashes = 0 PROVE PPlaces' /\ PKey' /\ POnline' /\ PTold'
  BY <1>1, <1>4 DEF PInv
<1>5. PPlaces'
  BY <1>1, <1>2, <1>3 DEF PInv, PPlaces
<1>6. PKey' /\ POnline'
  BY <1>1, <1>3 DEF PInv, PKey, POnline, PTyped
<1>7. PTold'
  <2>1. CASE UNCHANGED <<sockets, lapsed>>
    BY <1>1, <1>3, <2>1 DEF PInv, PTold, PAgreed
  <2>2. CASE sockets' = {} /\ lapsed' = (lapsed \/ P!Sessions # {})
    <3>1. ~lapsed' => ~lapsed /\ \A s \in Socket : op[s] # "isFirst"
      BY <2>2 DEF PInv, PPlaces
    <3> QED
      BY <1>1, <1>3, <2>2, <3>1 DEF PInv, PTold, PAgreed
  <2> QED
    BY <1>1, <2>1, <2>2
<1> QED
  BY <1>5, <1>6, <1>7

\* An exit: the promise ends.
LEMMA PCrashInv ==
  ASSUME PInv, NEW i \in Instance, P!Crash(i) PROVE PInv'
<1>1. crashes' \in Nat /\ crashes' # 0
  BY DEF P!Crash, PInv, PTyped
<1>2. session' \in [Socket -> [state : P!State, on : Instance \cup {None}]] /\ op' \in [Socket -> P!Op]
  <2>1. [state |-> "gone", on |-> None] \in [state : P!State, on : Instance \cup {None}] /\ "none" \in P!Op
    BY DEF P!State, P!Op
  <2> QED
    BY <2>1 DEF P!Crash, PInv, PTyped
<1> QED
  BY <1>1, <1>2 DEF P!Crash, PInv, PTyped

\* Every step keeps the invariant.
LEMMA PNextInv == PInv /\ [P!Next]_P!vars => PInv'
  BY PConnectInv, PAddInv, PFirstInv, PCleanUpInv, PRemoveInv, PLastInv, PLeaveInv, PQuietInv, PCrashInv
  DEF P!Next, P!Calls

\* Once the calls are done the user is online if and only if a session is there, and the
\* clients were told so, but for the overlaps the property names and after an exit.
THEOREM PKept == P!Spec => []P!PresenceTruthful
  BY PTruthful, PInitInv, PNextInv, PTL DEF P!Spec

-----------------------------------------------------------------------------
(* Room of sockets: WInv                                                   *)

WEvent == [event : {"userJoinedRoom", "userLeftRoom"}, user : Socket]
WOf(e, t) == [event |-> e, user |-> t]
WState == {"unopened", "open", "closed", "gone"}
WTyped ==
  /\ places \in [Socket -> WState] /\ on \in [Socket -> Instance \cup {None}]
  /\ roster \in [Socket -> SUBSET Socket] /\ missed \in [Socket -> SUBSET Socket]
  /\ events \in [Instance -> Seq(WEvent)] /\ rooms \subseteq Socket
\* Who is in the room has connected and not exited; an event comes from another instance.
WKnown ==
  /\ \A s \in Socket : places[s] \in {"open", "closed"} => on[s] \in Instance
  /\ \A s \in Socket : s \in rooms => places[s] \in {"open", "closed"}
  /\ \A s \in Socket : s \in exited => places[s] = "gone"
  /\ \A s \in Socket : places[s] = "unopened" =>
       /\ \A x \in Socket : s \notin roster[x]
       /\ \A i \in Instance : \A k \in DOMAIN events[i] : events[i][k].user # s
  /\ \A i \in Instance : \A k \in DOMAIN events[i] : on[events[i][k].user] # i
\* The last event about t on a wire is e.
WLast(w, t, e) == \A k \in DOMAIN w : w[k].user = t => \E m \in DOMAIN w : k <= m /\ w[m] = WOf(e, t)
WIn(w, t, e)   == \E k \in DOMAIN w : w[k] = WOf(e, t)
\* What is said last of a socket is true.
WTrue ==
  \A i \in Instance, t \in Socket : t \notin exited /\ on[t] # i =>
    WLast(events[i], t, IF t \in rooms THEN "userJoinedRoom" ELSE "userLeftRoom")
WInv == WTyped /\ WKnown /\ WTrue /\ W!RostersAreTold

\* What an appended event changes.
LEMMA WAppended ==
  ASSUME NEW w \in Seq(WEvent), NEW e \in {"userJoinedRoom", "userLeftRoom"}, NEW t \in Socket
  PROVE  LET v == Append(w, WOf(e, t)) IN
         /\ v \in Seq(WEvent) /\ WLast(v, t, e) /\ WIn(v, t, e)
         /\ \A u \in Socket, x \in {"userJoinedRoom", "userLeftRoom"} :
              /\ u # t /\ WLast(w, u, x) => WLast(v, u, x)
              /\ WIn(w, u, x) => WIn(v, u, x)
         /\ \A k \in DOMAIN v : v[k].user = t \/ \E j \in DOMAIN w : v[k] = w[j]
<1> DEFINE v == Append(w, WOf(e, t))
<1>1. WOf(e, t) \in WEvent /\ WOf(e, t).user = t
  BY DEF WOf, WEvent
<1>2. /\ v \in Seq(WEvent) /\ DOMAIN v = 1..(Len(w) + 1) /\ DOMAIN w = 1..Len(w) /\ Len(w) \in Nat
      /\ v[Len(w) + 1] = WOf(e, t) /\ \A k \in 1..Len(w) : v[k] = w[k]
  BY <1>1
<1> HIDE DEF v
<1>3. WLast(v, t, e) /\ WIn(v, t, e)
  BY <1>2 DEF WLast, WIn
<1>4. ASSUME NEW u \in Socket, NEW x \in {"userJoinedRoom", "userLeftRoom"}, u # t, WLast(w, u, x) PROVE WLast(v, u, x)
  <2> SUFFICES ASSUME NEW k \in DOMAIN v, v[k].user = u PROVE \E m \in DOMAIN v : k <= m /\ v[m] = WOf(x, u)
    BY DEF WLast
  <2>1. k \in DOMAIN w /\ w[k].user = u
    BY <1>1, <1>2, <1>4
  <2>2. PICK m \in DOMAIN w : k <= m /\ w[m] = WOf(x, u)
    BY <1>4, <2>1 DEF WLast
  <2> QED
    BY <1>2, <2>2
<1>5. ASSUME NEW u \in Socket, NEW x \in {"userJoinedRoom", "userLeftRoom"}, WIn(w, u, x) PROVE WIn(v, u, x)
  BY <1>2, <1>5 DEF WIn
<1>6. \A k \in DOMAIN v : v[k].user = t \/ \E j \in DOMAIN w : v[k] = w[j]
  BY <1>1, <1>2
<1> QED
  BY <1>2, <1>3, <1>4, <1>5, <1>6 DEF v

\* What is left of a wire when its first event is delivered.
LEMMA WTail ==
  ASSUME NEW w \in Seq(WEvent), w # <<>>
  PROVE  /\ Tail(w) \in Seq(WEvent) /\ Head(w) \in WEvent /\ \E j \in DOMAIN w : Head(w) = w[j]
         /\ \A k \in DOMAIN Tail(w) : \E j \in DOMAIN w : Tail(w)[k] = w[j]
         /\ \A u \in Socket, x \in {"userJoinedRoom", "userLeftRoom"} :
              /\ WLast(w, u, x) => WLast(Tail(w), u, x)
              /\ WLast(w, u, x) /\ Head(w).user = u => Head(w).event = x \/ WIn(Tail(w), u, x)
              /\ WIn(w, u, x) /\ Head(w).user # u => WIn(Tail(w), u, x)
<1>1. /\ Tail(w) \in Seq(WEvent) /\ Len(w) \in Nat \ {0} /\ DOMAIN w = 1..Len(w) /\ DOMAIN Tail(w) = 1..(Len(w) - 1)
      /\ Head(w) = w[1] /\ Head(w) \in WEvent /\ \A k \in 1..(Len(w) - 1) : Tail(w)[k] = w[k + 1]
  OBVIOUS
<1>2. ASSUME NEW m \in 1..Len(w), m # 1 PROVE m - 1 \in DOMAIN Tail(w) /\ Tail(w)[m - 1] = w[m]
  BY <1>1, <1>2
<1>3. ASSUME NEW u \in Socket, NEW x \in {"userJoinedRoom", "userLeftRoom"}, WLast(w, u, x)
      PROVE  WLast(Tail(w), u, x)
  <2> SUFFICES ASSUME NEW k \in DOMAIN Tail(w), Tail(w)[k].user = u
               PROVE  \E m \in DOMAIN Tail(w) : k <= m /\ Tail(w)[m] = WOf(x, u)
    BY DEF WLast
  <2>1. k + 1 \in DOMAIN w /\ w[k + 1].user = u
    BY <1>1
  <2>2. PICK m \in DOMAIN w : k + 1 <= m /\ w[m] = WOf(x, u)
    BY <1>3, <2>1 DEF WLast
  <2>3. m \in 1..Len(w) /\ m # 1 /\ k <= m - 1
    BY <1>1, <2>2
  <2> QED
    BY <1>2, <2>2, <2>3
<1>4. ASSUME NEW u \in Socket, NEW x \in {"userJoinedRoom", "userLeftRoom"}, WLast(w, u, x), Head(w).user = u
      PROVE  Head(w).event = x \/ WIn(Tail(w), u, x)
  <2>1. PICK m \in DOMAIN w : w[m] = WOf(x, u)
    BY <1>1, <1>4 DEF WLast
  <2>2. CASE m = 1
    BY <1>1, <2>1, <2>2 DEF WOf
  <2>3. CASE m # 1
    BY <1>1, <1>2, <2>1, <2>3 DEF WIn
  <2> QED
    BY <2>2, <2>3
<1>5. ASSUME NEW u \in Socket, NEW x \in {"userJoinedRoom", "userLeftRoom"}, WIn(w, u, x), Head(w).user # u
      PROVE  WIn(Tail(w), u, x)
  <2>1. PICK m \in DOMAIN w : w[m] = WOf(x, u)
    BY <1>5 DEF WIn
  <2>2. m # 1
    BY <1>1, <1>5, <2>1 DEF WOf
  <2> QED
    BY <1>1, <1>2, <2>1, <2>2 DEF WIn
<1>6. \A k \in DOMAIN Tail(w) : \E j \in DOMAIN w : Tail(w)[k] = w[j]
  BY <1>1
<1>7. \E j \in DOMAIN w : Head(w) = w[j]
  BY <1>1
<1> QED
  BY <1>1, <1>3, <1>4, <1>5, <1>6, <1>7

\* RostersAreTold in the words of WIn.
LEMMA WTold ==
  W!RostersAreTold <=>
    \A s \in W!Joined, t \in Socket :
      /\ t \in rooms \ roster[s] => on[t] # on[s] /\ (t \in missed[s] \/ WIn(events[on[s]], t, "userJoinedRoom"))
      /\ t \in roster[s] \ rooms => t \in exited \/ (on[t] # on[s] /\ WIn(events[on[s]], t, "userLeftRoom"))
  BY DEF W!RostersAreTold, W!OnTheWay, WIn, WOf

\* Nobody is in the room.
LEMMA WInitInv == W!Init => WInv
<1> SUFFICES ASSUME W!Init PROVE WInv
  OBVIOUS
<1> USE DEF W!Init
<1>1. WTyped
  BY DEF WTyped, WState
<1>2. WKnown /\ WTrue
  BY DEF WKnown, WTrue, WLast
<1>3. W!RostersAreTold
  BY DEF W!RostersAreTold, W!Joined
<1> QED
  BY <1>1, <1>2, <1>3 DEF WInv

\* An event about a socket that becomes or ceases to be in the room.
WSpread(s, e, known, members) ==
  /\ events' \in [Instance -> Seq(WEvent)] /\ roster' \in [Socket -> SUBSET Socket] /\ WTrue'
  /\ \A x \in Socket : roster'[x] = IF x \notin members THEN known[x]
                                    ELSE IF e = "userJoinedRoom" THEN known[x] \cup {s} ELSE known[x] \ {s}
  /\ \A i \in Instance, u \in Socket, x \in {"userJoinedRoom", "userLeftRoom"} :
       WIn(events[i], u, x) => WIn(events'[i], u, x)
  /\ \A i \in Instance : i # on[s] => WIn(events'[i], s, e)
  /\ \A i \in Instance : \A k \in DOMAIN events'[i] :
       (i # on[s] /\ events'[i][k].user = s) \/ \E j \in DOMAIN events[i] : events'[i][k] = events[i][j]
\* An event about a socket that comes to be in the room, or ceases to be.
LEMMA WEmitted ==
  ASSUME WInv, NEW s \in Socket, NEW e \in {"userJoinedRoom", "userLeftRoom"}, NEW known \in [Socket -> SUBSET Socket],
         NEW members, on[s] \in Instance, W!Emit(on[s], e, s, known, members),
         e = "userJoinedRoom" => rooms' = rooms \cup {s}, e = "userLeftRoom" => rooms' = rooms \ {s},
         UNCHANGED <<on, exited>>
  PROVE  WSpread(s, e, known, members)
<1>1. /\ events' = [j \in Instance |-> IF j = on[s] THEN events[j] ELSE Append(events[j], WOf(e, s))]
      /\ roster' = [x \in Socket |-> IF x \notin members THEN known[x]
                                     ELSE IF e = "userJoinedRoom" THEN known[x] \cup {s} ELSE known[x] \ {s}]
  BY DEF W!Emit, W!Told, WOf
<1>2. \A i \in Instance : events[i] \in Seq(WEvent)
  BY DEF WInv, WTyped
<1>3. events' \in [Instance -> Seq(WEvent)] /\ roster' \in [Socket -> SUBSET Socket]
  <2>1. \A i \in Instance : Append(events[i], WOf(e, s)) \in Seq(WEvent)
    BY <1>2, WAppended
  <2> QED
    BY <1>1, <1>2, <2>1
<1>4. \A i \in Instance, u \in Socket, x \in {"userJoinedRoom", "userLeftRoom"} : WIn(events[i], u, x) => WIn(events'[i], u, x)
  BY <1>1, <1>2, WAppended
<1>5. \A i \in Instance : i # on[s] => WIn(events'[i], s, e)
  BY <1>1, <1>2, WAppended
<1>6. \A i \in Instance : \A k \in DOMAIN events'[i] :
        (i # on[s] /\ events'[i][k].user = s) \/ \E j \in DOMAIN events[i] : events'[i][k] = events[i][j]
  BY <1>1, <1>2, WAppended
<1>7. WTrue'
  <2> SUFFICES ASSUME NEW i \in Instance, NEW t \in Socket, t \notin exited, on[t] # i
               PROVE  WLast(events'[i], t, IF t \in rooms' THEN "userJoinedRoom" ELSE "userLeftRoom")
    BY DEF WTrue
  <2>1. CASE t = s
    <3>1. WLast(events'[i], s, e)
      BY <1>1, <1>2, <2>1, WAppended
    <3>2. s \in rooms' <=> e = "userJoinedRoom"
      OBVIOUS
    <3> QED
      BY <2>1, <3>1, <3>2
  <2>2. CASE t # s
    <3> DEFINE x == IF t \in rooms THEN "userJoinedRoom" ELSE "userLeftRoom"
    <3>1. x \in {"userJoinedRoom", "userLeftRoom"} /\ WLast(events[i], t, x) /\ (t \in rooms' <=> t \in rooms)
      BY <2>2 DEF WInv, WTrue
    <3>2. WLast(events'[i], t, x)
      BY <1>1, <1>2, <2>2, <3>1, WAppended
    <3> QED
      BY <3>1, <3>2
  <2> QED
    BY <2>1, <2>2
<1> QED
  BY <1>1, <1>3, <1>4, <1>5, <1>6, <1>7 DEF WSpread

\* A roster is as true as before for whoever a step leaves alone.
LEMMA WSame ==
  ASSUME WInv, NEW x \in W!Joined, NEW t \in Socket, x \in Socket, on'[x] = on[x], on'[t] = on[t],
         t \in roster'[x] <=> t \in roster[x], t \in rooms' <=> t \in rooms, t \in missed[x] => t \in missed'[x],
         t \in exited => t \in exited',
         \A e \in {"userJoinedRoom", "userLeftRoom"} : WIn(events[on[x]], t, e) => WIn(events'[on[x]], t, e)
  PROVE  /\ t \in rooms' \ roster'[x] =>
              on'[t] # on'[x] /\ (t \in missed'[x] \/ WIn(events'[on'[x]], t, "userJoinedRoom"))
         /\ t \in roster'[x] \ rooms' =>
              t \in exited' \/ (on'[t] # on'[x] /\ WIn(events'[on'[x]], t, "userLeftRoom"))
<1>1. /\ t \in rooms \ roster[x] => on[t] # on[x] /\ (t \in missed[x] \/ WIn(events[on[x]], t, "userJoinedRoom"))
      /\ t \in roster[x] \ rooms => t \in exited \/ (on[t] # on[x] /\ WIn(events[on[x]], t, "userLeftRoom"))
  BY WTold DEF WInv
<1> QED
  BY <1>1

\* WTold of the next state.
LEMMA WToldNext ==
  ASSUME \A x \in Socket, t \in Socket : x \in W!Joined' =>
      /\ t \in rooms' \ roster'[x] => on'[t] # on'[x] /\ (t \in missed'[x] \/ WIn(events'[on'[x]], t, "userJoinedRoom"))
      /\ t \in roster'[x] \ rooms' => t \in exited' \/ (on'[t] # on'[x] /\ WIn(events'[on'[x]], t, "userLeftRoom"))
  , rooms' \subseteq Socket
  PROVE W!RostersAreTold'
<1>1. W!Joined' \subseteq Socket
  BY DEF W!Joined
<1>2. W!RostersAreTold' <=>
    \A x \in W!Joined', t \in Socket :
      /\ t \in rooms' \ roster'[x] => on'[t] # on'[x] /\ (t \in missed'[x] \/ WIn(events'[on'[x]], t, "userJoinedRoom"))
      /\ t \in roster'[x] \ rooms' => t \in exited' \/ (on'[t] # on'[x] /\ WIn(events'[on'[x]], t, "userLeftRoom"))
  BY DEF W!RostersAreTold, W!OnTheWay, WIn, WOf
<1> QED
  BY <1>1, <1>2

\* A socket connects: nobody has heard of it.
LEMMA WConnects ==
  ASSUME WInv, NEW s \in Socket, NEW i \in Instance, W!HandleConnection(s, i)
  PROVE  WInv'
<1> USE DEF WInv
<1>1. /\ places[s] = "unopened" /\ places' = [places EXCEPT ![s] = "open"] /\ on' = [on EXCEPT ![s] = i]
      /\ UNCHANGED <<rooms, roster, events, missed, exited>>
  BY DEF W!HandleConnection
<1>2. /\ places'[s] = "open" /\ on'[s] = i
      /\ \A x \in Socket : x # s => places'[x] = places[x] /\ on'[x] = on[x]
  BY <1>1 DEF WTyped
<1>3. s \notin rooms /\ s \notin exited
  BY <1>1 DEF WKnown
<1>4. WTyped'
  BY <1>1 DEF WTyped, WState
<1>5. WKnown'
  <2>1. \A j \in Instance : \A k \in DOMAIN events'[j] : on'[events'[j][k].user] # j
    <3> SUFFICES ASSUME NEW j \in Instance, NEW k \in DOMAIN events[j] PROVE on'[events[j][k].user] # j
      BY <1>1
    <3>1. events[j][k].user # s /\ on[events[j][k].user] # j
      BY <1>1 DEF WKnown
    <3>2. events[j] \in Seq(WEvent)
      BY DEF WTyped
    <3>3. events[j][k].user \in Socket
      <4>1. events[j][k] \in WEvent
        BY <3>2
      <4> QED
        BY <4>1 DEF WEvent
    <3> QED
      BY <1>2, <3>1, <3>3
  <2>2. \A x \in Socket : x \in rooms' => places'[x] \in {"open", "closed"}
    BY <1>1, <1>2 DEF WKnown
  <2>3. \A x \in Socket : x \in exited' => places'[x] = "gone"
    BY <1>1, <1>2, <1>3 DEF WKnown
  <2>4. \A x \in Socket : places'[x] \in {"open", "closed"} => on'[x] \in Instance
    BY <1>2 DEF WKnown
  <2>5. \A x \in Socket : places'[x] = "unopened" =>
          /\ \A y \in Socket : x \notin roster'[y]
          /\ \A j \in Instance : \A k \in DOMAIN events'[j] : events'[j][k].user # x
    BY <1>1, <1>2 DEF WKnown
  <2> QED
    BY <2>1, <2>2, <2>3, <2>4, <2>5 DEF WKnown
<1>6. WTrue'
  <2> SUFFICES ASSUME NEW j \in Instance, NEW t \in Socket, t \notin exited, on'[t] # j
               PROVE  WLast(events[j], t, IF t \in rooms THEN "userJoinedRoom" ELSE "userLeftRoom")
    BY <1>1 DEF WTrue
  <2>1. CASE t = s
    BY <1>1, <2>1 DEF WKnown, WLast
  <2>2. CASE t # s
    BY <1>2, <2>2 DEF WTrue
  <2> QED
    BY <2>1, <2>2
<1>7. W!RostersAreTold'
  <2>1. rooms' \subseteq Socket
    BY <1>1 DEF WTyped
  <2> SUFFICES ASSUME NEW x \in Socket, NEW t \in Socket, x \in W!Joined' PROVE
      /\ t \in rooms' \ roster'[x] => on'[t] # on'[x] /\ (t \in missed'[x] \/ WIn(events'[on'[x]], t, "userJoinedRoom"))
      /\ t \in roster'[x] \ rooms' => t \in exited' \/ (on'[t] # on'[x] /\ WIn(events'[on'[x]], t, "userLeftRoom"))
    BY <2>1, WToldNext
  <2>2. x # s /\ x \in W!Joined
    BY <1>1, <1>2, <1>3 DEF W!Joined
  <2>3. CASE t = s
    BY <1>1, <1>3, <2>3 DEF WKnown
  <2>4. CASE t # s
    BY <1>1, <1>2, <2>2, <2>4, WSame
  <2> QED
    BY <2>3, <2>4
<1> QED
  BY <1>4, <1>5, <1>6, <1>7

\* WKnown after an event about s, whose session goes on or ends.
LEMMA WKnownEmitted ==
  ASSUME WInv, NEW s \in Socket, places[s] \in {"open", "closed"},
         \A i \in Instance : \A k \in DOMAIN events'[i] :
              (i # on[s] /\ events'[i][k].user = s) \/ \E j \in DOMAIN events[i] : events'[i][k] = events[i][j],
         \A x \in Socket : roster'[x] \subseteq roster[x] \cup rooms \cup {s},
         \A x \in Socket : x # s => places'[x] = places[x],
         places'[s] \in {"open", "closed", "gone"},
         rooms' \subseteq rooms \cup {s}, places'[s] = "gone" => s \notin rooms',
         UNCHANGED <<on, exited>>
  PROVE  WKnown'
<1> USE DEF WInv
<1>1. s \notin exited
  BY DEF WKnown
<1>2. \A x \in Socket : places'[x] \in {"open", "closed"} => on'[x] \in Instance
  BY DEF WKnown
<1>3. \A x \in Socket : x \in rooms' => places'[x] \in {"open", "closed"}
  BY DEF WKnown
<1>4. \A x \in Socket : x \in exited' => places'[x] = "gone"
  BY <1>1 DEF WKnown
<1>5. ASSUME NEW x \in Socket, places'[x] = "unopened"
      PROVE  /\ \A y \in Socket : x \notin roster'[y]
             /\ \A j \in Instance : \A k \in DOMAIN events'[j] : events'[j][k].user # x
  <2>1. x # s /\ places[x] = "unopened"
    BY <1>5
  <2> QED
    BY <2>1 DEF WKnown
<1>6. \A i \in Instance : \A k \in DOMAIN events'[i] : on'[events'[i][k].user] # i
  BY DEF WKnown
<1> QED
  BY <1>2, <1>3, <1>4, <1>5, <1>6 DEF WKnown

\* A socket joins: it lists its own instance, its own are told, the others will be.
LEMMA WJoins ==
  ASSUME WInv, NEW s \in Socket, W!HandleJoinRoom(s)
  PROVE  WInv'
<1> USE DEF WInv
<1> DEFINE known == [roster EXCEPT ![s] = W!Of(on[s], rooms)]
           members == W!Of(on[s], W!Joined \cup {s})
<1>1. /\ places[s] = "open" /\ rooms' = rooms \cup {s} /\ W!Emit(on[s], "userJoinedRoom", s, known, members)
      /\ missed' = [missed EXCEPT ![s] = rooms \ W!Of(on[s], rooms)]
      /\ UNCHANGED <<places, on, exited>>
  BY DEF W!HandleJoinRoom, W!GetRoomMembers
<1>2. /\ known \in [Socket -> SUBSET Socket] /\ known[s] = W!Of(on[s], rooms)
      /\ \A x \in Socket : x # s => known[x] = roster[x]
  BY DEF WTyped, W!Of
<1>3. on[s] \in Instance /\ s \notin exited
  BY <1>1 DEF WKnown
<1>4. \A x \in Socket : x \in members <=> on[x] = on[s] /\ (x = s \/ x \in W!Joined)
  BY DEF W!Of
<1> HIDE DEF known, members
<1>5. /\ events' \in [Instance -> Seq(WEvent)] /\ roster' \in [Socket -> SUBSET Socket] /\ WTrue'
      /\ \A x \in Socket : roster'[x] = IF x \notin members THEN known[x] ELSE known[x] \cup {s}
      /\ \A i \in Instance, u \in Socket, x \in {"userJoinedRoom", "userLeftRoom"} :
           WIn(events[i], u, x) => WIn(events'[i], u, x)
      /\ \A i \in Instance : i # on[s] => WIn(events'[i], s, "userJoinedRoom")
      /\ \A i \in Instance : \A k \in DOMAIN events'[i] :
           (i # on[s] /\ events'[i][k].user = s) \/ \E j \in DOMAIN events[i] : events'[i][k] = events[i][j]
  <2>1. rooms' = rooms \cup {s} /\ places[s] # "unopened" /\ UNCHANGED <<on, exited>>
    BY <1>1
  <2>2. W!Emit(on[s], "userJoinedRoom", s, known, members) /\ known \in [Socket -> SUBSET Socket] /\ on[s] \in Instance
    BY <1>1, <1>2, <1>3
  <2>3. WSpread(s, "userJoinedRoom", known, members)
    BY <2>1, <2>2, WEmitted
  <2> QED
    BY <2>3 DEF WSpread
<1>6. WTyped'
  BY <1>1, <1>5 DEF WTyped
<1>7. WKnown'
  <2>1. \A x \in Socket : roster'[x] \subseteq roster[x] \cup rooms \cup {s}
    BY <1>2, <1>5 DEF W!Of
  <2> QED
    BY <1>1, <1>5, <2>1, WKnownEmitted
<1>8. W!RostersAreTold'
  <2>1. rooms' \subseteq Socket
    BY <1>6 DEF WTyped
  <2> SUFFICES ASSUME NEW x \in Socket, NEW t \in Socket, x \in W!Joined' PROVE
      /\ t \in rooms' \ roster'[x] => on'[t] # on'[x] /\ (t \in missed'[x] \/ WIn(events'[on'[x]], t, "userJoinedRoom"))
      /\ t \in roster'[x] \ rooms' => t \in exited' \/ (on'[t] # on'[x] /\ WIn(events'[on'[x]], t, "userLeftRoom"))
    BY <2>1, WToldNext
  <2>2. CASE x = s
    <3>1. roster'[s] = W!Of(on[s], rooms) \cup {s} /\ missed'[s] = rooms \ W!Of(on[s], rooms)
      BY <1>1, <1>2, <1>4, <1>5 DEF WTyped
    <3> QED
      BY <1>1, <2>2, <3>1 DEF W!Of
  <2>3. CASE x # s
    <3>1. x \in W!Joined /\ on[x] \in Instance /\ missed'[x] = missed[x]
      BY <1>1, <2>3 DEF W!Joined, WKnown, WTyped
    <3>2. CASE t = s
      <4>1. CASE on[x] = on[s]
        BY <1>1, <1>4, <1>5, <3>1, <3>2, <4>1
      <4>2. CASE on[x] # on[s]
        BY <1>1, <1>5, <3>1, <3>2, <4>2
      <4> QED
        BY <4>1, <4>2
    <3>3. CASE t # s
      BY <1>1, <1>2, <1>5, <2>3, <3>1, <3>3, WSame
    <3> QED
      BY <3>2, <3>3
  <2> QED
    BY <2>2, <2>3
<1> QED
  BY <1>5, <1>6, <1>7, <1>8

\* The room loses s and the sockets of its instance are told at once.
LEMMA WLeft ==
  ASSUME WInv, NEW s \in Socket, NEW known \in [Socket -> SUBSET Socket], places[s] \in {"open", "closed"},
         W!Emit(on[s], "userLeftRoom", s, known, W!Of(on[s], W!Joined \ {s})), rooms' = rooms \ {s},
         places' \in [Socket -> WState], missed' \in [Socket -> SUBSET Socket],
         \A x \in Socket : x # s => places'[x] = places[x] /\ known[x] = roster[x] /\ missed'[x] = missed[x],
         known[s] \subseteq roster[s],
         places'[s] \in {"open", "closed", "gone"}, UNCHANGED <<on, exited>>
  PROVE  WInv'
<1> USE DEF WInv
<1> DEFINE members == W!Of(on[s], W!Joined \ {s})
<1>3. on[s] \in Instance /\ s \notin exited
  BY DEF WKnown
<1>4. \A x \in Socket : x \in members <=> on[x] = on[s] /\ x # s /\ x \in W!Joined
  BY DEF W!Of
<1>0. W!Emit(on[s], "userLeftRoom", s, known, members)
  OBVIOUS
<1> HIDE DEF members
<1>5. /\ events' \in [Instance -> Seq(WEvent)] /\ roster' \in [Socket -> SUBSET Socket] /\ WTrue'
      /\ \A x \in Socket : roster'[x] = IF x \notin members THEN known[x] ELSE known[x] \ {s}
      /\ \A i \in Instance, u \in Socket, x \in {"userJoinedRoom", "userLeftRoom"} :
           WIn(events[i], u, x) => WIn(events'[i], u, x)
      /\ \A i \in Instance : i # on[s] => WIn(events'[i], s, "userLeftRoom")
      /\ \A i \in Instance : \A k \in DOMAIN events'[i] :
           (i # on[s] /\ events'[i][k].user = s) \/ \E j \in DOMAIN events[i] : events'[i][k] = events[i][j]
  <2>1. rooms' = rooms \ {s} /\ places[s] # "unopened" /\ UNCHANGED <<on, exited>>
    OBVIOUS
  <2>2. WSpread(s, "userLeftRoom", known, members)
    BY <1>0, <1>3, <2>1, WEmitted
  <2> QED
    BY <2>2 DEF WSpread
<1>6. WTyped'
  BY <1>5 DEF WTyped
<1>7. WKnown'
  <2>1. \A x \in Socket : roster'[x] \subseteq roster[x] \cup rooms \cup {s}
    BY <1>5
  <2> QED
    BY <1>5, <2>1, WKnownEmitted
<1>8. W!RostersAreTold'
  <2>1. rooms' \subseteq Socket
    BY <1>6 DEF WTyped
  <2> SUFFICES ASSUME NEW x \in Socket, NEW t \in Socket, x \in W!Joined' PROVE
      /\ t \in rooms' \ roster'[x] => on'[t] # on'[x] /\ (t \in missed'[x] \/ WIn(events'[on'[x]], t, "userJoinedRoom"))
      /\ t \in roster'[x] \ rooms' => t \in exited' \/ (on'[t] # on'[x] /\ WIn(events'[on'[x]], t, "userLeftRoom"))
    BY <2>1, WToldNext
  <2>2. x # s /\ x \in W!Joined /\ on[x] \in Instance
    BY DEF W!Joined, WKnown
  <2>3. CASE t = s
    BY <1>4, <1>5, <2>2, <2>3
  <2>4. CASE t # s
    BY <1>5, <2>2, <2>4, WSame
  <2> QED
    BY <2>3, <2>4
<1> QED
  BY <1>5, <1>6, <1>7, <1>8

\* A socket leaves the room.
LEMMA WLeaves ==
  ASSUME WInv, NEW s \in Socket, W!HandleLeaveRoom(s)
  PROVE  WInv'
<1> DEFINE known == [roster EXCEPT ![s] = {}]
<1>1. /\ places[s] = "open" /\ rooms' = rooms \ {s} /\ W!Emit(on[s], "userLeftRoom", s, known, W!Of(on[s], W!Joined \ {s}))
      /\ missed' = [missed EXCEPT ![s] = {}]
      /\ UNCHANGED <<places, on, exited>>
  BY DEF W!HandleLeaveRoom
<1>2. /\ known \in [Socket -> SUBSET Socket] /\ known[s] = {}
      /\ \A x \in Socket : x # s => known[x] = roster[x] /\ missed'[x] = missed[x]
      /\ missed' \in [Socket -> SUBSET Socket] /\ places' \in [Socket -> WState]
  BY <1>1 DEF WInv, WTyped
<1>3. W!Emit(on[s], "userLeftRoom", s, known, W!Of(on[s], W!Joined \ {s}))
  BY <1>1
<1> HIDE DEF known
<1>4. \A x \in Socket : x # s => places'[x] = places[x] /\ known[x] = roster[x] /\ missed'[x] = missed[x]
  BY <1>1, <1>2
<1>5. /\ places[s] \in {"open", "closed"} /\ places'[s] \in {"open", "closed", "gone"}
      /\ known[s] \subseteq roster[s] /\ rooms' = rooms \ {s} /\ UNCHANGED <<on, exited>>
  BY <1>1, <1>2
<1>6. /\ known \in [Socket -> SUBSET Socket] /\ places' \in [Socket -> WState]
      /\ missed' \in [Socket -> SUBSET Socket]
  BY <1>2
<1> QED
  BY <1>3, <1>4, <1>5, <1>6, WLeft

\* A socket closes: it is no longer told anything.
LEMMA WDisconnects ==
  ASSUME WInv, NEW s \in Socket, W!HandleDisconnect(s)
  PROVE  WInv'
<1> USE DEF WInv
<1>1. /\ places[s] = "open" /\ places' = [places EXCEPT ![s] = "closed"]
      /\ roster' = [roster EXCEPT ![s] = {}] /\ missed' = [missed EXCEPT ![s] = {}]
      /\ UNCHANGED <<on, rooms, events, exited>>
  BY DEF W!HandleDisconnect
<1>2. WTyped'
  BY <1>1 DEF WTyped, WState
<1>3. /\ places'[s] = "closed" /\ roster'[s] = {}
      /\ \A x \in Socket : x # s => places'[x] = places[x] /\ roster'[x] = roster[x] /\ missed'[x] = missed[x]
  BY <1>1 DEF WTyped
<1>4. WKnown'
  BY <1>1, <1>3 DEF WKnown
<1>5. WTrue'
  BY <1>1 DEF WTrue
<1>6. W!RostersAreTold'
  <2>1. rooms' \subseteq Socket
    BY <1>2 DEF WTyped
  <2> SUFFICES ASSUME NEW x \in Socket, NEW t \in Socket, x \in W!Joined' PROVE
      /\ t \in rooms' \ roster'[x] => on'[t] # on'[x] /\ (t \in missed'[x] \/ WIn(events'[on'[x]], t, "userJoinedRoom"))
      /\ t \in roster'[x] \ rooms' => t \in exited' \/ (on'[t] # on'[x] /\ WIn(events'[on'[x]], t, "userLeftRoom"))
    BY <2>1, WToldNext
  <2>2. x # s /\ x \in W!Joined
    BY <1>1, <1>3 DEF W!Joined
  <2> QED
    BY <1>1, <1>3, <2>2, WSame
<1> QED
  BY <1>2, <1>4, <1>5, <1>6

\* The timer of a closed socket: the room is told that it left.
LEMMA WCleansUp ==
  ASSUME WInv, NEW s \in Socket, W!CleanUp(s)
  PROVE  WInv'
<1>1. /\ places[s] = "closed" /\ places' = [places EXCEPT ![s] = "gone"] /\ rooms' = rooms \ {s}
      /\ UNCHANGED <<on, missed, exited>>
      /\ IF s \in rooms THEN W!Emit(on[s], "userLeftRoom", s, roster, W!Of(on[s], W!Joined)) ELSE UNCHANGED <<roster, events>>
  BY DEF W!CleanUp
<1>2. /\ places' \in [Socket -> WState] /\ places'[s] = "gone"
      /\ \A x \in Socket : x # s => places'[x] = places[x]
  BY <1>1 DEF WInv, WTyped, WState
<1>3. W!Joined \ {s} = W!Joined
  BY <1>1 DEF W!Joined
<1>4. CASE s \in rooms
  <2>1. roster \in [Socket -> SUBSET Socket] /\ missed' \in [Socket -> SUBSET Socket]
    BY <1>1 DEF WInv, WTyped
  <2>2. W!Emit(on[s], "userLeftRoom", s, roster, W!Of(on[s], W!Joined \ {s}))
    BY <1>1, <1>3, <1>4
  <2> QED
    BY <1>1, <1>2, <2>1, <2>2, WLeft
<1>5. CASE s \notin rooms
  <2> USE DEF WInv
  <2>0. rooms' = rooms /\ UNCHANGED <<roster, events>>
    BY <1>1, <1>5
  <2>1. WTyped' /\ WTrue'
    BY <1>1, <1>2, <2>0 DEF WTyped, WTrue
  <2>2. WKnown'
    BY <1>1, <1>2, <1>5, <2>0 DEF WKnown
  <2>3. W!RostersAreTold'
    <3>1. rooms' \subseteq Socket
      BY <2>1 DEF WTyped
    <3> SUFFICES ASSUME NEW x \in Socket, NEW t \in Socket, x \in W!Joined' PROVE
        /\ t \in rooms' \ roster'[x] => on'[t] # on'[x] /\ (t \in missed'[x] \/ WIn(events'[on'[x]], t, "userJoinedRoom"))
        /\ t \in roster'[x] \ rooms' => t \in exited' \/ (on'[t] # on'[x] /\ WIn(events'[on'[x]], t, "userLeftRoom"))
      BY <3>1, WToldNext
    <3>2. x \in W!Joined
      BY <1>1, <1>2, <1>5, <2>0 DEF W!Joined
    <3> QED
      BY <1>1, <2>0, <3>2, WSame
  <2> QED
    BY <2>1, <2>2, <2>3
<1> QED
  BY <1>4, <1>5

\* The first event on the wire is the last about its user, or a later one is on the way.
LEMMA WDelivers ==
  ASSUME WInv, NEW i \in Instance, W!Deliver(i)
  PROVE  WInv'
<1> USE DEF WInv
<1> DEFINE e == Head(events[i])
           members == W!Of(i, W!Joined)
<1>1. /\ events[i] # <<>> /\ events' = [events EXCEPT ![i] = Tail(@)]
      /\ roster' = [x \in Socket |-> IF x \notin members THEN roster[x]
                       ELSE IF e.event = "userJoinedRoom" THEN roster[x] \cup {e.user} ELSE roster[x] \ {e.user}]
      /\ missed' = [x \in Socket |-> IF x \in members THEN missed[x] \ {e.user} ELSE missed[x]]
      /\ UNCHANGED <<places, on, rooms, exited>>
  BY DEF W!Deliver, W!Told
<1>2. \A x \in Socket : x \in members <=> on[x] = i /\ x \in W!Joined
  BY DEF W!Of
<1>3. events[i] \in Seq(WEvent)
  BY DEF WTyped
<1>4. /\ events'[i] = Tail(events[i]) /\ \A j \in Instance : j # i => events'[j] = events[j]
  BY <1>1 DEF WTyped
<1>5. /\ events'[i] \in Seq(WEvent) /\ e \in WEvent /\ \E j \in DOMAIN events[i] : e = events[i][j]
      /\ \A k \in DOMAIN events'[i] : \E j \in DOMAIN events[i] : events'[i][k] = events[i][j]
  BY <1>1, <1>3, <1>4, WTail
<1>6. \A u \in Socket, x \in {"userJoinedRoom", "userLeftRoom"} :
              /\ WLast(events[i], u, x) => WLast(events'[i], u, x)
              /\ WLast(events[i], u, x) /\ e.user = u => e.event = x \/ WIn(events'[i], u, x)
              /\ WIn(events[i], u, x) /\ e.user # u => WIn(events'[i], u, x)
  BY <1>1, <1>3, <1>4, WTail
<1>7. e.user \in Socket /\ e.event \in {"userJoinedRoom", "userLeftRoom"} /\ on[e.user] # i /\ places[e.user] # "unopened"
  BY <1>5 DEF WEvent, WKnown
<1>0. \A x \in Socket :
        /\ x \notin members => roster'[x] = roster[x] /\ missed'[x] = missed[x]
        /\ x \in members => /\ missed'[x] = missed[x] \ {e.user}
                            /\ roster'[x] = IF e.event = "userJoinedRoom" THEN roster[x] \cup {e.user} ELSE roster[x] \ {e.user}
  BY <1>1
<1> HIDE DEF e, members
<1>8. WTyped'
  <2>1. events' \in [Instance -> Seq(WEvent)]
    BY <1>1, <1>4, <1>5 DEF WTyped
  <2>2. roster' \in [Socket -> SUBSET Socket] /\ missed' \in [Socket -> SUBSET Socket]
    BY <1>1, <1>7 DEF WTyped
  <2> QED
    BY <1>1, <2>1, <2>2 DEF WTyped
<1>9. WKnown'
  <2>1. \A j \in Instance : \A k \in DOMAIN events'[j] : \E m \in DOMAIN events[j] : events'[j][k] = events[j][m]
    BY <1>4, <1>5
  <2>2. \A x \in Socket : places'[x] = "unopened" => \A y \in Socket : x \notin roster'[y]
    BY <1>0, <1>1, <1>7 DEF WKnown
  <2> QED
    BY <1>1, <2>1, <2>2 DEF WKnown
<1>10. WTrue'
  <2> SUFFICES ASSUME NEW j \in Instance, NEW t \in Socket, t \notin exited, on[t] # j
               PROVE  WLast(events'[j], t, IF t \in rooms THEN "userJoinedRoom" ELSE "userLeftRoom")
    BY <1>1 DEF WTrue
  <2>1. WLast(events[j], t, IF t \in rooms THEN "userJoinedRoom" ELSE "userLeftRoom")
    BY DEF WTrue
  <2> QED
    BY <1>4, <1>6, <2>1
<1>11. W!RostersAreTold'
  <2>1. rooms' \subseteq Socket
    BY <1>8 DEF WTyped
  <2> SUFFICES ASSUME NEW x \in Socket, NEW t \in Socket, x \in W!Joined' PROVE
      /\ t \in rooms' \ roster'[x] => on'[t] # on'[x] /\ (t \in missed'[x] \/ WIn(events'[on'[x]], t, "userJoinedRoom"))
      /\ t \in roster'[x] \ rooms' => t \in exited' \/ (on'[t] # on'[x] /\ WIn(events'[on'[x]], t, "userLeftRoom"))
    BY <2>1, WToldNext
  <2>2. x \in W!Joined /\ on[x] \in Instance
    BY <1>1 DEF W!Joined, WKnown
  <2>3. CASE on[x] # i
    BY <1>0, <1>1, <1>2, <1>4, <2>2, <2>3, WSame
  <2>4. CASE on[x] = i /\ t # e.user
    <3>1. x \in members
      BY <1>2, <2>2, <2>4
    <3>2. (t \in roster'[x] <=> t \in roster[x]) /\ (t \in missed[x] => t \in missed'[x])
      BY <1>0, <2>4, <3>1
    <3>3. \A y \in {"userJoinedRoom", "userLeftRoom"} : WIn(events[on[x]], t, y) => WIn(events'[on[x]], t, y)
      BY <1>6, <2>4
    <3> QED
      BY <1>1, <2>2, <3>2, <3>3, WSame
  <2>5. CASE on[x] = i /\ t = e.user
    <3>1. x \in members /\ on'[t] # on'[x] /\ on'[x] = i
      BY <1>1, <1>2, <1>7, <2>2, <2>5
    <3>2. roster'[x] = IF e.event = "userJoinedRoom" THEN roster[x] \cup {e.user} ELSE roster[x] \ {e.user}
      BY <1>0, <3>1
    <3>3. t \notin exited => WLast(events[i], t, IF t \in rooms THEN "userJoinedRoom" ELSE "userLeftRoom")
      BY <1>1, <3>1 DEF WTrue
    <3>4. t \in rooms => t \notin exited
      BY DEF WKnown
    <3>5. CASE t \in rooms
      <4>1. WLast(events[i], t, "userJoinedRoom")
        BY <3>3, <3>4, <3>5
      <4>2. e.event = "userJoinedRoom" \/ WIn(events'[i], t, "userJoinedRoom")
        BY <1>6, <2>5, <4>1
      <4> QED
        BY <1>1, <2>5, <3>1, <3>2, <3>5, <4>2
    <3>6. CASE t \notin rooms
      <4>1. t \notin exited => e.event = "userLeftRoom" \/ WIn(events'[i], t, "userLeftRoom")
        BY <1>6, <2>5, <3>3, <3>6
      <4> QED
        BY <1>1, <2>5, <3>1, <3>2, <3>6, <4>1
    <3> QED
      BY <3>5, <3>6
  <2> QED
    BY <2>3, <2>4, <2>5
<1> QED
  BY <1>8, <1>9, <1>10, <1>11

\* An exit: its sessions are gone, and what was on the way to it.
LEMMA WCrashes ==
  ASSUME WInv, NEW i \in Instance, W!Crash(i)
  PROVE  WInv'
<1> USE DEF WInv
<1>1. /\ places' = [x \in Socket |-> IF on[x] = i THEN "gone" ELSE places[x]]
      /\ exited' = exited \cup W!Of(i, rooms) /\ rooms' = rooms \ W!Of(i, rooms)
      /\ roster' = [x \in Socket |-> IF on[x] = i THEN {} ELSE roster[x]]
      /\ events' = [events EXCEPT ![i] = <<>>]
      /\ UNCHANGED <<on, missed>>
  BY DEF W!Crash
<1>2. \A x \in Socket :
        /\ on[x] = i => places'[x] = "gone" /\ roster'[x] = {}
        /\ on[x] # i => places'[x] = places[x] /\ roster'[x] = roster[x]
  BY <1>1
<1>3. events'[i] = <<>> /\ \A j \in Instance : j # i => events'[j] = events[j]
  BY <1>1 DEF WTyped
<1>4. \A x \in Socket : x \in W!Of(i, rooms) <=> on[x] = i /\ x \in rooms
  BY DEF W!Of
<1>5. WTyped'
  <2>1. events' \in [Instance -> Seq(WEvent)]
    <3>1. <<>> \in Seq(WEvent)
      OBVIOUS
    <3> QED
      BY <1>1, <3>1 DEF WTyped
  <2> QED
    BY <1>1, <2>1 DEF WTyped, WState
<1>6. WKnown'
  <2>1. \A j \in Instance : \A k \in DOMAIN events'[j] : j # i /\ k \in DOMAIN events[j] /\ events'[j][k] = events[j][k]
    BY <1>3
  <2>2. \A x \in Socket : x \in rooms' => places'[x] \in {"open", "closed"}
    BY <1>1, <1>2, <1>4 DEF WKnown
  <2>3. \A x \in Socket : x \in exited' => places'[x] = "gone"
    BY <1>1, <1>2, <1>4 DEF WKnown
  <2>4. \A x \in Socket : places'[x] \in {"open", "closed"} => on'[x] \in Instance
    BY <1>1, <1>2 DEF WKnown
  <2>5. \A x \in Socket : places'[x] = "unopened" =>
          /\ \A y \in Socket : x \notin roster'[y]
          /\ \A j \in Instance : \A k \in DOMAIN events'[j] : events'[j][k].user # x
    BY <1>2, <2>1 DEF WKnown
  <2>6. \A j \in Instance : \A k \in DOMAIN events'[j] : on'[events'[j][k].user] # j
    BY <1>1, <2>1 DEF WKnown
  <2> QED
    BY <2>2, <2>3, <2>4, <2>5, <2>6 DEF WKnown
<1>7. WTrue'
  <2> SUFFICES ASSUME NEW j \in Instance, NEW t \in Socket, t \notin exited', on[t] # j
               PROVE  WLast(events'[j], t, IF t \in rooms' THEN "userJoinedRoom" ELSE "userLeftRoom")
    BY <1>1 DEF WTrue
  <2>1. CASE j = i
    BY <1>3, <2>1 DEF WLast
  <2>2. CASE j # i
    <3>1. t \notin exited /\ (t \in rooms' <=> t \in rooms)
      BY <1>1
    <3>2. WLast(events[j], t, IF t \in rooms THEN "userJoinedRoom" ELSE "userLeftRoom")
      BY <3>1 DEF WTrue
    <3> QED
      BY <1>3, <2>2, <3>1, <3>2
  <2> QED
    BY <2>1, <2>2
<1>8. W!RostersAreTold'
  <2>1. rooms' \subseteq Socket
    BY <1>5 DEF WTyped
  <2> SUFFICES ASSUME NEW x \in Socket, NEW t \in Socket, x \in W!Joined' PROVE
      /\ t \in rooms' \ roster'[x] => on'[t] # on'[x] /\ (t \in missed'[x] \/ WIn(events'[on'[x]], t, "userJoinedRoom"))
      /\ t \in roster'[x] \ rooms' => t \in exited' \/ (on'[t] # on'[x] /\ WIn(events'[on'[x]], t, "userLeftRoom"))
    BY <2>1, WToldNext
  <2>2. on[x] # i /\ x \in W!Joined
    BY <1>1, <1>2 DEF W!Joined
  <2>3. on[x] \in Instance /\ events'[on[x]] = events[on[x]] /\ roster'[x] = roster[x]
    BY <1>2, <1>3, <2>2 DEF W!Joined, WKnown
  <2>4. CASE t \in W!Of(i, rooms)
    BY <1>1, <2>4
  <2>5. CASE t \notin W!Of(i, rooms)
    BY <1>1, <2>2, <2>3, <2>5, WSame
  <2> QED
    BY <2>4, <2>5
<1> QED
  BY <1>5, <1>6, <1>7, <1>8

\* Every step keeps the invariant.
LEMMA WNextInv == WInv /\ [W!Next]_W!vars => WInv'
<1> SUFFICES ASSUME WInv, [W!Next]_W!vars PROVE WInv'
  OBVIOUS
<1>1. ASSUME UNCHANGED W!vars PROVE WInv'
  <2>1. UNCHANGED <<places, on, rooms, roster, events, missed, exited>>
    BY <1>1 DEF W!vars
  <2>2. WTyped' /\ WTrue'
    BY <2>1 DEF WInv, WTyped, WTrue
  <2>3. WKnown'
    BY <2>1 DEF WInv, WKnown
  <2>4. W!RostersAreTold'
    BY <2>1 DEF WInv, W!RostersAreTold, W!Joined, W!OnTheWay
  <2> QED
    BY <2>2, <2>3, <2>4 DEF WInv
<1>2. ASSUME NEW s \in Socket, W!HandleJoinRoom(s) PROVE WInv'
  BY <1>2, WJoins
<1>3. ASSUME NEW s \in Socket, W!HandleLeaveRoom(s) PROVE WInv'
  BY <1>3, WLeaves
<1>4. ASSUME NEW s \in Socket, W!HandleDisconnect(s) PROVE WInv'
  BY <1>4, WDisconnects
<1>5. ASSUME NEW s \in Socket, W!CleanUp(s) PROVE WInv'
  BY <1>5, WCleansUp
<1>6. ASSUME NEW s \in Socket, NEW i \in Instance, W!HandleConnection(s, i) PROVE WInv'
  BY <1>6, WConnects
<1>7. ASSUME NEW i \in Instance, W!Deliver(i) PROVE WInv'
  BY <1>7, WDelivers
<1>8. ASSUME NEW i \in Instance, W!Crash(i) PROVE WInv'
  BY <1>8, WCrashes
<1> QED
  BY <1>1, <1>2, <1>3, <1>4, <1>5, <1>6, <1>7, <1>8 DEF W!Next

\* The list each client keeps is the room's, but for what is on the way, for any number
\* of sockets, instances and exits.
THEOREM WKept == W!Spec => []W!RostersAreTold
<1>1. WInv => W!RostersAreTold
  BY DEF WInv
<1> QED
  BY <1>1, WInitInv, WNextInv, PTL DEF W!Spec

-----------------------------------------------------------------------------
(* Saga: SInv                                                              *)

\* There is a step.
SHasSteps == N \in Nat \ {0}

SForward == at \in {"idle", "send", "delay"}
SBack    == at \in {"undo", "undone"}

STyped ==
  /\ at \in {"idle", "send", "delay", "undo", "undone", "done"}
  /\ step \in 0..N
  /\ status \in {"running", "failed", "completed", "compensated"}
  /\ commands \in Seq(S!Steps) /\ compensations \in Seq(S!Steps)
  /\ compensationStatus \in [S!Steps -> {"none", "running", "completed", "failed"}]

SSettled(i) == S!Undone(i) \/ compensationStatus[i] = "failed" \/ i \notin Compensable
SInReverse  == \A j, k \in DOMAIN compensations : j < k => compensations[j] > compensations[k]

SOutAt ==
  SForward =>
    /\ status = "running" /\ step \in S!Steps /\ compensations = <<>>
    /\ \A i \in S!Steps : i < step => S!Sent(i)
    /\ at = "delay" => S!Sent(step)
SBackAt ==
  SBack =>
    /\ status = "failed" /\ failedAtStep \in S!Steps /\ step < failedAtStep
    /\ at = "undone" => step \in S!Steps /\ S!Undone(step)
    /\ \A i \in S!Steps : i < failedAtStep => S!Sent(i)
    /\ \A i \in S!Steps : S!Sent(i) => i <= failedAtStep
    /\ \A i \in S!Steps : step < i /\ i < failedAtStep => SSettled(i)
    /\ \A k \in DOMAIN compensations :
         compensations[k] < failedAtStep /\ (IF at = "undone" THEN step <= compensations[k] ELSE step < compensations[k])
SSentBefore == SForward => \A i \in S!Steps : S!Sent(i) => i < step \/ (at = "delay" /\ i = step)
SEnded ==
  at = "done" =>
    \/ status = "completed" /\ (\A i \in S!Steps : S!Sent(i)) /\ compensations = <<>>
    \/ /\ status = "compensated" /\ failedAtStep \in S!Steps
       /\ \A i \in S!Steps : i < failedAtStep => S!Sent(i)
       /\ \A i \in S!Steps : S!Sent(i) => i <= failedAtStep
       /\ \A i \in S!Steps : i < failedAtStep => SSettled(i)
       /\ \A k \in DOMAIN compensations : compensations[k] < failedAtStep

SInv == STyped /\ SOutAt /\ SSentBefore /\ SBackAt /\ SEnded /\ SInReverse

\* What is in a sequence after an element was appended.
LEMMA SAppended ==
  ASSUME NEW s \in Seq(S!Steps), NEW x \in S!Steps
  PROVE  /\ Append(s, x) \in Seq(S!Steps)
         /\ DOMAIN Append(s, x) = DOMAIN s \cup {Len(s) + 1}
         /\ Append(s, x)[Len(s) + 1] = x
         /\ \A k \in DOMAIN s : Append(s, x)[k] = s[k] /\ k < Len(s) + 1
  BY DEF S!Steps

\* The initial state has sent nothing.
LEMMA SInitInv == SHasSteps /\ S!Init => SInv
<1> SUFFICES ASSUME SHasSteps, S!Init PROVE SInv
  OBVIOUS
<1> USE DEF SHasSteps, S!Init
<1>1. STyped
  BY DEF STyped, S!Steps
<1>2. SOutAt /\ SSentBefore
  BY DEF SOutAt, SSentBefore, SForward, S!Sent, S!Steps
<1>3. SBackAt /\ SEnded /\ SInReverse
  BY DEF SBackAt, SEnded, SBack, SInReverse
<1> QED
  BY <1>1, <1>2, <1>3 DEF SInv

\* Sending a command: what was sent stays, and the step's own is sent.
LEMMA SSendInv == SHasSteps /\ SInv /\ S!Send => SInv'
<1> SUFFICES ASSUME SHasSteps, SInv, S!Send PROVE SInv'
  OBVIOUS
<1> USE DEF SHasSteps, S!Send
<1>1. step \in S!Steps /\ status = "running" /\ compensations = <<>> /\ commands \in Seq(S!Steps)
  BY DEF SInv, STyped, SOutAt, SForward
<1>2. \A i \in S!Steps : S!Sent(i)' <=> (S!Sent(i) \/ i = step)
  <2>1. commands' = Append(commands, step)
    OBVIOUS
  <2> QED
    BY <1>1, <2>1, SAppended DEF S!Sent
<1>3. commands' \in Seq(S!Steps)
  BY <1>1, SAppended
<1>4. STyped'
  BY <1>3 DEF SInv, STyped
<1>5. SOutAt' /\ SSentBefore'
  BY <1>1, <1>2 DEF SInv, SOutAt, SSentBefore, SForward
<1>6. SBackAt' /\ SEnded' /\ SInReverse'
  BY DEF SInv, SBackAt, SEnded, SBack, SInReverse
<1> QED
  BY <1>4, <1>5, <1>6 DEF SInv

\* A step that fails turns the saga back at the step before it.
LEMMA SFailsInv == SHasSteps /\ SInv /\ S!StepFails => SInv'
<1> SUFFICES ASSUME SHasSteps, SInv, S!StepFails PROVE SInv'
  OBVIOUS
<1> USE DEF SHasSteps, S!StepFails
<1>1. step \in S!Steps /\ compensations = <<>> /\ at \in {"send", "delay"}
  BY DEF SInv, SOutAt, SForward
<1>2. \A i \in S!Steps : (i < step => S!Sent(i)) /\ (S!Sent(i) => i <= step)
  BY <1>1 DEF SInv, SOutAt, SSentBefore, SForward, S!Steps
<1>3. \A i \in S!Steps : S!Sent(i)' <=> S!Sent(i)
  BY DEF S!Sent
<1>4. STyped'
  BY <1>1 DEF SInv, STyped, S!Steps
<1>5. SOutAt' /\ SSentBefore' /\ SEnded' /\ SInReverse'
  BY DEF SInv, SOutAt, SSentBefore, SEnded, SForward, SInReverse
<1>6. SBackAt'
  BY <1>1, <1>2, <1>3 DEF SBackAt, SBack, S!Steps
<1> QED
  BY <1>4, <1>5, <1>6 DEF SInv

\* The last step ends the saga, another moves it on.
LEMMA SCompletesInv == SHasSteps /\ SInv /\ S!StepCompletes => SInv'
<1> SUFFICES ASSUME SHasSteps, SInv, S!StepCompletes PROVE SInv'
  OBVIOUS
<1> USE DEF SHasSteps, S!StepCompletes
<1>1. step \in S!Steps /\ compensations = <<>> /\ status = "running"
  BY DEF SInv, SOutAt, SForward
<1>2. \A i \in S!Steps : S!Sent(i) <=> i <= step
  BY <1>1 DEF SInv, SOutAt, SSentBefore, SForward, S!Steps
<1>3. \A i \in S!Steps : S!Sent(i)' <=> S!Sent(i)
  BY DEF S!Sent
<1>4. STyped'
  BY <1>1 DEF SInv, STyped, S!Steps
<1>5. SBackAt' /\ SInReverse'
  BY DEF SInv, SBackAt, SBack, SInReverse
<1>6. CASE step = N
  BY <1>1, <1>2, <1>3, <1>4, <1>5, <1>6 DEF SInv, SOutAt, SSentBefore, SEnded, SForward, S!Steps
<1>7. CASE step # N
  BY <1>1, <1>2, <1>3, <1>4, <1>5, <1>7 DEF SInv, SOutAt, SSentBefore, SEnded, SForward, S!Steps
<1> QED
  BY <1>6, <1>7

\* A compensation is sent: all that were sent before belong to later steps.
LEMMA SUndoInv == SHasSteps /\ SInv /\ S!Undo => SInv'
<1> SUFFICES ASSUME SHasSteps, SInv, S!Undo PROVE SInv'
  OBVIOUS
<1> USE DEF SHasSteps, S!Undo
<1>1. step \in S!Steps /\ failedAtStep \in S!Steps /\ step < failedAtStep /\ status = "failed"
      /\ compensations \in Seq(S!Steps)
  BY DEF SInv, STyped, SBackAt, SBack, S!Steps
<1>2. compensations' = Append(compensations, step)
  OBVIOUS
<1>3. \A k \in DOMAIN compensations : step < compensations[k] /\ compensations[k] < failedAtStep
  BY DEF SInv, SBackAt, SBack
<1>4. /\ compensations' \in Seq(S!Steps)
      /\ DOMAIN compensations' = DOMAIN compensations \cup {Len(compensations) + 1}
      /\ compensations'[Len(compensations) + 1] = step
      /\ \A k \in DOMAIN compensations : compensations'[k] = compensations[k] /\ k < Len(compensations) + 1
  BY <1>1, <1>2, SAppended
<1>5. \A i \in S!Steps : (S!Sent(i)' <=> S!Sent(i)) /\ (S!Undone(i) => S!Undone(i)') /\ S!Undone(step)'
  BY <1>1, <1>4 DEF S!Sent, S!Undone
<1>6. STyped'
  BY <1>1, <1>4 DEF SInv, STyped, S!Steps
<1>7. SOutAt' /\ SSentBefore' /\ SEnded'
  BY DEF SOutAt, SSentBefore, SEnded, SForward
<1>8. SBackAt'
  <2>1. \A i \in S!Steps : step < i /\ i < failedAtStep => SSettled(i)'
    <3> SUFFICES ASSUME NEW i \in S!Steps, step < i, i < failedAtStep PROVE SSettled(i)'
      OBVIOUS
    <3>1. SSettled(i)
      BY DEF SInv, SBackAt, SBack
    <3>2. compensationStatus'[i] = compensationStatus[i]
      BY <1>1 DEF SInv, STyped, S!Steps
    <3> QED
      BY <1>5, <3>1, <3>2 DEF SSettled
  <2>2. \A i \in S!Steps : (i < failedAtStep => S!Sent(i)') /\ (S!Sent(i)' => i <= failedAtStep)
    BY <1>5 DEF SInv, SBackAt, SBack
  <2>3. \A k \in DOMAIN compensations' : compensations'[k] < failedAtStep /\ step <= compensations'[k]
    BY <1>1, <1>3, <1>4 DEF S!Steps
  <2> QED
    BY <1>1, <1>5, <2>1, <2>2, <2>3 DEF SBackAt, SBack
<1>9. SInReverse'
  <2> SUFFICES ASSUME NEW j \in DOMAIN compensations', NEW k \in DOMAIN compensations', j < k
               PROVE  compensations'[j] > compensations'[k]
    BY DEF SInReverse
  <2>1. j \in DOMAIN compensations
    BY <1>1, <1>4
  <2>2. CASE k \in DOMAIN compensations
    BY <1>4, <2>1, <2>2 DEF SInv, SInReverse
  <2>3. CASE k = Len(compensations) + 1
    BY <1>1, <1>3, <1>4, <2>1, <2>3 DEF S!Steps
  <2> QED
    BY <1>4, <2>2, <2>3
<1> QED
  BY <1>6, <1>7, <1>8, <1>9 DEF SInv

\* A step of the way back settles the step it leaves.
SBackSettles == \A i \in S!Steps : i = step => SSettled(i)'

\* The way back goes one step on when that step is settled.
LEMMA SBackOne ==
  ASSUME SHasSteps, SInv, SBack, step \in S!Steps,
         at' = "undo", step' = step - 1, SBackSettles,
         \A i \in S!Steps \ {step} : compensationStatus'[i] = compensationStatus[i],
         compensationStatus' \in [S!Steps -> {"none", "running", "completed", "failed"}],
         UNCHANGED <<status, failedAtStep, commands, compensations>>
  PROVE  SInv'
<1> USE DEF SHasSteps
<1>1. \A i \in S!Steps : (S!Sent(i)' <=> S!Sent(i)) /\ (S!Undone(i)' <=> S!Undone(i))
  BY DEF S!Sent, S!Undone
<1>2. STyped'
  BY DEF SInv, STyped, S!Steps
<1>3. SOutAt' /\ SSentBefore' /\ SEnded' /\ SInReverse'
  BY DEF SInv, SOutAt, SSentBefore, SEnded, SForward, SInReverse
<1>4. SBackAt'
  <2>1. \A i \in S!Steps : step' < i /\ i < failedAtStep' => SSettled(i)'
    <3> SUFFICES ASSUME NEW i \in S!Steps, step' < i, i < failedAtStep PROVE SSettled(i)'
      OBVIOUS
    <3>1. CASE i = step
      BY <3>1 DEF SBackSettles
    <3>2. CASE i # step
      <4>1. step < i
        <5>1. step' = step - 1 /\ step \in Nat /\ i \in Nat
          BY DEF S!Steps
        <5> QED
          BY <3>2, <5>1
      <4>2. SSettled(i)
        BY <4>1 DEF SInv, SBackAt
      <4> QED
        BY <1>1, <3>2, <4>2 DEF SSettled
    <3> QED
      BY <3>1, <3>2
  <2>2. \A k \in DOMAIN compensations : compensations[k] < failedAtStep /\ step - 1 < compensations[k]
    <3> SUFFICES ASSUME NEW k \in DOMAIN compensations
                 PROVE  compensations[k] < failedAtStep /\ step - 1 < compensations[k]
      OBVIOUS
    <3>1. compensations[k] \in S!Steps
      BY DEF SInv, STyped
    <3>2. compensations[k] < failedAtStep /\ step <= compensations[k]
      BY <3>1 DEF SInv, SBackAt, SBack, S!Steps
    <3> QED
      BY <3>1, <3>2 DEF S!Steps
  <2>3. failedAtStep \in S!Steps /\ step - 1 < failedAtStep /\ status = "failed"
    BY DEF SInv, SBackAt, S!Steps
  <2>4. \A i \in S!Steps : (i < failedAtStep => S!Sent(i)') /\ (S!Sent(i)' => i <= failedAtStep)
    BY <1>1 DEF SInv, SBackAt
  <2> QED
    BY <2>1, <2>2, <2>3, <2>4 DEF SBackAt
<1> QED
  BY <1>2, <1>3, <1>4 DEF SInv

\* The three ways to settle a step on the way back: its compensation failed, it has
\* none, or its compensation was sent and its delay is over.
LEMMA SWayBackInv == SHasSteps /\ SInv /\ (S!UndoFails \/ S!Skip \/ S!UndoCompletes) => SInv'
<1> SUFFICES ASSUME SHasSteps, SInv, S!UndoFails \/ S!Skip \/ S!UndoCompletes PROVE SInv'
  OBVIOUS
<1>1. STyped
  BY DEF SInv
<1>2. ASSUME S!UndoFails PROVE SInv'
  <2>1. step \in S!Steps /\ SBack
    BY <1>1, <1>2 DEF S!UndoFails, SHasSteps, STyped, SBack, S!Steps
  <2>2. compensationStatus' = [compensationStatus EXCEPT ![step] = "failed"]
    BY <1>2 DEF S!UndoFails
  <2>3. /\ compensationStatus'[step] = "failed"
        /\ \A i \in S!Steps \ {step} : compensationStatus'[i] = compensationStatus[i]
        /\ compensationStatus' \in [S!Steps -> {"none", "running", "completed", "failed"}]
    BY <1>1, <2>1, <2>2 DEF STyped
  <2>4. at' = "undo" /\ step' = step - 1 /\ UNCHANGED <<status, failedAtStep, commands, compensations>>
    BY <1>2 DEF S!UndoFails
  <2>5. \A i \in S!Steps : compensationStatus'[i] = "failed" => SSettled(i)'
    BY DEF SSettled
  <2>6. SBackSettles
    BY <2>1, <2>3, <2>5 DEF SBackSettles
  <2> QED
    BY <2>1, <2>3, <2>4, <2>6, SBackOne
<1>3. ASSUME S!Skip PROVE SInv'
  <2>1. step \in S!Steps /\ SBack
    BY <1>1, <1>3 DEF S!Skip, SHasSteps, STyped, SBack, S!Steps
  <2>2. /\ \A i \in S!Steps \ {step} : compensationStatus'[i] = compensationStatus[i]
        /\ compensationStatus' \in [S!Steps -> {"none", "running", "completed", "failed"}]
    BY <1>1, <1>3 DEF STyped, S!Skip
  <2>3. at' = "undo" /\ step' = step - 1 /\ UNCHANGED <<status, failedAtStep, commands, compensations>>
    BY <1>3 DEF S!Skip
  <2>4. SBackSettles
    BY <1>3, <2>1 DEF SBackSettles, SSettled, S!Skip
  <2> QED
    BY <2>1, <2>2, <2>3, <2>4, SBackOne
<1>4. ASSUME S!UndoCompletes PROVE SInv'
  <2>1. step \in S!Steps /\ SBack /\ S!Undone(step)
    BY <1>4 DEF SInv, SBackAt, S!UndoCompletes, SBack
  <2>2. compensationStatus' = [compensationStatus EXCEPT ![step] = "completed"]
    BY <1>4 DEF S!UndoCompletes
  <2>3. /\ \A i \in S!Steps \ {step} : compensationStatus'[i] = compensationStatus[i]
        /\ compensationStatus' \in [S!Steps -> {"none", "running", "completed", "failed"}]
    BY <1>1, <2>1, <2>2 DEF STyped
  <2>4. at' = "undo" /\ step' = step - 1 /\ UNCHANGED <<status, failedAtStep, commands, compensations>>
    BY <1>4 DEF S!UndoCompletes
  <2>5. SBackSettles
    BY <2>1, <2>4 DEF SBackSettles, SSettled, S!Undone
  <2> QED
    BY <2>1, <2>3, <2>4, <2>5, SBackOne
<1> QED
  BY <1>2, <1>3, <1>4

\* The way back is over at step 0: every step before the failed one is settled.
LEMMA SFinishInv == SHasSteps /\ SInv /\ S!Finish => SInv'
<1> SUFFICES ASSUME SHasSteps, SInv, S!Finish PROVE SInv'
  OBVIOUS
<1> USE DEF SHasSteps, S!Finish
<1>1. STyped' /\ SInReverse'
  BY DEF SInv, STyped, SInReverse
<1>2. SOutAt' /\ SSentBefore' /\ SBackAt'
  BY DEF SOutAt, SSentBefore, SBackAt, SForward, SBack
<1>3. \A i \in S!Steps : (S!Sent(i)' <=> S!Sent(i)) /\ (SSettled(i)' <=> SSettled(i)) /\ 0 < i
  BY DEF S!Sent, SSettled, S!Undone, S!Steps
<1>4. SEnded'
  BY <1>3 DEF SInv, SBackAt, SBack, SEnded
<1> QED
  BY <1>1, <1>2, <1>4 DEF SInv

\* The request, the channel's end and a stutter move nothing the invariant tells of.
LEMMA SOthersInv == SInv /\ (S!Start \/ S!Disconnect \/ UNCHANGED S!vars) => SInv'
<1> SUFFICES ASSUME SInv, S!Start \/ S!Disconnect \/ UNCHANGED S!vars PROVE SInv'
  OBVIOUS
<1>1. UNCHANGED <<step, status, failedAtStep, commands, compensations, compensationStatus>>
  BY DEF S!Start, S!Disconnect, S!vars
<1>2. at' = at \/ (at = "idle" /\ at' = "send")
  BY DEF S!Start, S!Disconnect, S!vars
<1>3. STyped' /\ SInReverse'
  BY <1>1, <1>2 DEF SInv, STyped, SInReverse
<1>4. \A i : (S!Sent(i)' <=> S!Sent(i)) /\ (SSettled(i)' <=> SSettled(i)) /\ (S!Undone(i)' <=> S!Undone(i))
  BY <1>1 DEF S!Sent, SSettled, S!Undone
<1>5. SOutAt' /\ SSentBefore'
  BY <1>1, <1>2, <1>4 DEF SInv, SOutAt, SSentBefore, SForward, S!Sent
<1>6. SBackAt'
  BY <1>1, <1>2, <1>4 DEF SInv, SBackAt, SBack, S!Undone
<1>7. SEnded'
  BY <1>1, <1>2, <1>4 DEF SInv, SEnded
<1> QED
  BY <1>3, <1>5, <1>6, <1>7 DEF SInv

\* Wherever a saga is, it keeps what SagaSettles says.
LEMMA SImplied == SInv => S!SagaSettles
<1> SUFFICES ASSUME SInv PROVE S!SagaSettles
  OBVIOUS
<1>1. status = "completed" => (\A i \in S!Steps : S!Sent(i)) /\ compensations = <<>>
  BY DEF SInv, STyped, SOutAt, SForward, SBackAt, SBack, SEnded
<1>2. status = "compensated" => at = "done"
  BY DEF SInv, STyped, SOutAt, SForward, SBackAt, SBack
<1>3. ASSUME status = "compensated", NEW i \in S!Steps, S!Sent(i), i # failedAtStep
      PROVE  S!Undone(i) \/ compensationStatus[i] = "failed" \/ i \notin Compensable
  <2>1. failedAtStep \in S!Steps /\ i <= failedAtStep /\ (i < failedAtStep => SSettled(i))
    BY <1>2, <1>3 DEF SInv, SEnded
  <2>2. i < failedAtStep
    BY <1>3, <2>1 DEF S!Steps
  <2> QED
    BY <2>1, <2>2 DEF SSettled
<1>4. ASSUME NEW i \in S!Steps, S!Undone(i) PROVE S!Sent(i) /\ i # failedAtStep
  <2>1. compensations # <<>> /\ ~SForward
    BY <1>4 DEF SInv, SOutAt, S!Undone
  <2>2. failedAtStep \in S!Steps /\ (i < failedAtStep => S!Sent(i)) /\ \A k \in DOMAIN compensations : compensations[k] < failedAtStep
    BY <2>1 DEF SInv, STyped, SForward, SBackAt, SBack, SEnded
  <2>3. i < failedAtStep
    BY <1>4, <2>2 DEF S!Undone
  <2> QED
    BY <2>2, <2>3 DEF S!Steps
<1> QED
  BY <1>1, <1>3, <1>4 DEF S!SagaSettles, SInv, SInReverse

\* For any number of steps, compensable or not, wherever the saga fails and whenever the
\* channel closes: a saga that ends has sent everything and compensated nothing, or has
\* settled each step before the failed one, last first.
THEOREM SKept ==
  ASSUME N \in Nat \ {0} PROVE S!Spec => []S!SagaSettles
<1>1. SInv /\ [S!Next]_S!vars => SInv'
  BY SSendInv, SFailsInv, SCompletesInv, SUndoInv, SWayBackInv, SFinishInv, SOthersInv DEF S!Next, S!Run, SHasSteps
<1>2. S!Init => SInv
  BY SInitInv DEF SHasSteps
<1>3. SInv => S!SagaSettles
  BY SImplied
<1> QED
  BY <1>1, <1>2, <1>3, PTL DEF S!Spec

-----------------------------------------------------------------------------
(* Outbox: OInv                                                            *)

OTyped ==
  /\ created \in Nat /\ created <= MaxOrders /\ clock \in Nat /\ createdAt \in [Id -> Nat]
  /\ published \in Seq(Id) /\ wire \in Seq(Id) /\ queue \in Seq(Id)
OCommitted == pending \subseteq 1..created /\ Range(published) \subseteq 1..created
OOnce ==
  /\ IsInjective(published) /\ IsInjective(wire) /\ IsInjective(queue)
  /\ pending \cap Range(published) = {} /\ Range(wire) \cap Range(queue) = {}
  /\ Range(wire) \subseteq Range(published) /\ Range(queue) \subseteq Range(published)
OAscending(s) == \A i, j \in DOMAIN s : i < j => createdAt[s[i]] <= createdAt[s[j]]
OInTime ==
  /\ \A n \in 1..created : createdAt[n] <= clock
  /\ OAscending(published)
  /\ \A m \in Range(published), n \in pending : createdAt[m] <= createdAt[n]

\* The table holds each row once, and what is pending in it is newer than what is not:
\* a poll takes all or nothing.
OTable ==
  /\ outbox \in Seq(Id) /\ Len(outbox) <= OutboxCap /\ IsInjective(outbox)
  /\ Range(outbox) \subseteq 1..created /\ pending \subseteq Range(outbox)
  /\ \A i, j \in DOMAIN outbox : i < j /\ outbox[j] \in pending => outbox[i] \in pending

OInv == OTyped /\ OCommitted /\ OOnce /\ OInTime /\ OTable

-----------------------------------------------------------------------------
\* Two sequences that share nothing, one after the other.
LEMMA OJoined ==
  ASSUME NEW E, NEW s \in Seq(E), NEW t \in Seq(E)
  PROVE  /\ s \o t \in Seq(E)
         /\ Range(s \o t) = Range(s) \cup Range(t)
         /\ IsInjective(s) /\ IsInjective(t) /\ Range(s) \cap Range(t) = {} => IsInjective(s \o t)
<1> DEFINE st == s \o t
<1>1. st \in Seq(E) /\ Len(st) = Len(s) + Len(t) /\ Len(s) \in Nat /\ Len(t) \in Nat
  OBVIOUS
<1>2. /\ DOMAIN st = 1..Len(s) + Len(t) /\ DOMAIN s = 1..Len(s) /\ DOMAIN t = 1..Len(t)
      /\ \A i \in DOMAIN st : st[i] = IF i <= Len(s) THEN s[i] ELSE t[i - Len(s)]
  OBVIOUS
<1> HIDE DEF st
<1>3. \A i \in DOMAIN st : (i \in DOMAIN s /\ st[i] = s[i]) \/ (i - Len(s) \in DOMAIN t /\ st[i] = t[i - Len(s)])
  BY <1>1, <1>2
<1>4. Range(st) = Range(s) \cup Range(t)
  <2>1. \A i \in DOMAIN s : i \in DOMAIN st /\ st[i] = s[i]
    BY <1>1, <1>2
  <2>2. \A i \in DOMAIN t : i + Len(s) \in DOMAIN st /\ st[i + Len(s)] = t[i]
    <3> SUFFICES ASSUME NEW i \in DOMAIN t
                 PROVE  i + Len(s) \in DOMAIN st /\ st[i + Len(s)] = t[i]
      OBVIOUS
    <3>1. i \in Nat /\ 1 <= i /\ i <= Len(t)
      BY <1>1, <1>2
    <3>2. i + Len(s) \in 1..Len(s) + Len(t) /\ ~(i + Len(s) <= Len(s)) /\ (i + Len(s)) - Len(s) = i
      BY <1>1, <3>1
    <3> QED
      BY <1>2, <3>2
  <2> QED
    BY <1>3, <2>1, <2>2 DEF Range
<1>5. ASSUME IsInjective(s), IsInjective(t), Range(s) \cap Range(t) = {},
             NEW i \in DOMAIN st, NEW j \in DOMAIN st, st[i] = st[j]
      PROVE  i = j
  <2>1. CASE i <= Len(s) /\ j <= Len(s)
    BY <1>1, <1>2, <1>5, <2>1 DEF IsInjective
  <2>2. CASE i > Len(s) /\ j > Len(s)
    <3>1. i \in Int /\ j \in Int /\ i - Len(s) \in DOMAIN t /\ j - Len(s) \in DOMAIN t
      BY <1>1, <1>2, <2>2
    <3>2. t[i - Len(s)] = t[j - Len(s)]
      BY <1>1, <1>2, <1>5, <2>2, <3>1
    <3>3. i - Len(s) = j - Len(s)
      BY <1>5, <3>1, <3>2 DEF IsInjective
    <3> QED
      BY <1>1, <3>1, <3>3
  <2>3. CASE i <= Len(s) /\ j > Len(s)
    <3>0. i \in DOMAIN s /\ st[i] = s[i] /\ j - Len(s) \in DOMAIN t /\ st[j] = t[j - Len(s)]
      BY <1>1, <1>2, <2>3
    <3>1. st[i] \in Range(s) /\ st[j] \in Range(t)
      BY <3>0 DEF Range
    <3> QED
      BY <1>5, <3>1
  <2>4. CASE i > Len(s) /\ j <= Len(s)
    <3>0. i - Len(s) \in DOMAIN t /\ st[i] = t[i - Len(s)] /\ j \in DOMAIN s /\ st[j] = s[j]
      BY <1>1, <1>2, <2>4
    <3>1. st[i] \in Range(t) /\ st[j] \in Range(s)
      BY <3>0 DEF Range
    <3> QED
      BY <1>5, <3>1
  <2> QED
    BY <1>1, <1>2, <2>1, <2>2, <2>3, <2>4
<1> QED
  BY <1>1, <1>4, <1>5 DEF IsInjective, st

\* The first of a sequence without repetition is not in the rest.
LEMMA OTaken ==
  ASSUME NEW E, NEW s \in Seq(E), s # <<>>
  PROVE  /\ Tail(s) \in Seq(E) /\ Head(s) \in E /\ Head(s) \in Range(s)
         /\ Range(Tail(s)) \subseteq Range(s)
         /\ IsInjective(s) => IsInjective(Tail(s)) /\ Head(s) \notin Range(Tail(s))
<1> DEFINE t == Tail(s)
<1>1. /\ t \in Seq(E) /\ Len(s) \in Nat \ {0} /\ DOMAIN s = 1..Len(s) /\ DOMAIN t = 1..(Len(s) - 1)
      /\ \A i \in DOMAIN t : t[i] = s[i + 1]
      /\ Head(s) = s[1] /\ s[1] \in E
  OBVIOUS
<1> HIDE DEF t
<1>2. \A i \in DOMAIN t : i \in Nat /\ i + 1 \in DOMAIN s /\ i + 1 # 1
  BY <1>1
<1>3. Head(s) \in Range(s) /\ Range(t) \subseteq Range(s)
  BY <1>1, <1>2 DEF Range
<1>4. ASSUME IsInjective(s) PROVE IsInjective(t) /\ Head(s) \notin Range(t)
  BY <1>1, <1>2, <1>4 DEF IsInjective, Range
<1> QED
  BY <1>1, <1>3, <1>4 DEF t

\* The ids of committed orders.
LEMMA OIds ==
  ASSUME OTyped
  PROVE  /\ 1..created \subseteq Id /\ 1..created \subseteq Nat
         /\ \A n \in 1..created : createdAt[n] \in Nat
<1>1. created \in Nat /\ MaxOrders \in Nat /\ created <= MaxOrders
  BY OutboxAssumption DEF OTyped
<1>2. 1..created \subseteq Id /\ 1..created \subseteq Nat
  BY <1>1 DEF Id
<1> QED
  BY <1>2 DEF OTyped

\* What a poll takes: pending rows, each once, in the order of creation.
LEMMA ODueRows ==
  ASSUME OTyped, OCommitted, NEW due \in Due
  PROVE  /\ due \in Seq(Id) /\ Range(due) \subseteq pending /\ IsInjective(due) /\ OAscending(due)
         /\ due \in [1..Cardinality(pending) -> pending] /\ Range(due) = pending
<1>1. pending \subseteq Nat /\ pending \subseteq Id
  BY OIds DEF OCommitted
<1>2. IsFiniteSet(pending)
  <2>1. IsFiniteSet(1..created)
    BY FS_Interval DEF OTyped
  <2> QED
    BY <2>1, FS_Subset DEF OCommitted
<1>3. Cardinality(pending) \in Nat
  BY <1>2, FS_CardinalityType
<1>4. /\ due \in [1..Cardinality(pending) -> pending]
      /\ \A i, j \in DOMAIN due : i < j =>
           createdAt[due[i]] < createdAt[due[j]] \/ (createdAt[due[i]] = createdAt[due[j]] /\ due[i] > due[j])
  BY DEF Due, Before
<1>5. due \in Seq(Id) /\ Range(due) \subseteq pending
  <2>1. DOMAIN due = 1..Cardinality(pending) /\ \A i \in DOMAIN due : due[i] \in pending /\ due[i] \in Id
    BY <1>1, <1>4
  <2>2. due \in [1..Cardinality(pending) -> Id]
    BY <1>1, <1>4
  <2>3. due \in Seq(Id)
    BY <1>3, <2>2
  <2> QED
    BY <2>1, <2>3 DEF Range
<1>6. \A i, j \in DOMAIN due : i < j => due[i] # due[j] /\ createdAt[due[i]] <= createdAt[due[j]]
  <2> SUFFICES ASSUME NEW i \in DOMAIN due, NEW j \in DOMAIN due, i < j
               PROVE  due[i] # due[j] /\ createdAt[due[i]] <= createdAt[due[j]]
    OBVIOUS
  <2>1. due[i] \in Nat /\ due[j] \in Nat /\ createdAt[due[i]] \in Nat /\ createdAt[due[j]] \in Nat
    BY <1>1, <1>4, OIds DEF OCommitted
  <2> QED
    BY <1>4, <2>1
<1>7. IsInjective(due)
  <2>1. DOMAIN due \subseteq Nat
    BY <1>3, <1>4
  <2> QED
    BY <1>6, <2>1 DEF IsInjective
<1>8. Range(due) = pending
  <2>1. due \in Injection(1..Cardinality(pending), pending)
    BY <1>4, <1>7 DEF Injection
  <2>2. Cardinality(1..Cardinality(pending)) = Cardinality(pending)
    BY <1>3, FS_Interval
  <2>3. due \in Surjection(1..Cardinality(pending), pending)
    BY <1>2, <2>1, <2>2, FS_Injection
  <2>4. DOMAIN due = 1..Cardinality(pending)
    BY <1>4
  <2> QED
    BY <1>5, <2>3, <2>4 DEF Surjection, Range
<1> QED
  BY <1>4, <1>5, <1>6, <1>7, <1>8 DEF OAscending

-----------------------------------------------------------------------------
\* A row in front of the table, which is then cut.
LEMMA OFront ==
  ASSUME OTable, NEW n \in Id, NEW new, new = Newest(<<n>> \o outbox, OutboxCap)
  PROVE  /\ new \in Seq(Id) /\ Len(new) = IF Len(outbox) < OutboxCap THEN Len(outbox) + 1 ELSE OutboxCap
         /\ 1 \in DOMAIN new /\ new[1] = n /\ \A i \in DOMAIN new : i # 1 => i - 1 \in DOMAIN outbox /\ new[i] = outbox[i - 1]
<1> DEFINE whole == <<n>> \o outbox
           m == IF Len(whole) < OutboxCap THEN Len(whole) ELSE OutboxCap
<1>1. outbox \in Seq(Id) /\ Len(outbox) \in Nat /\ OutboxCap \in Nat \ {0} /\ DOMAIN outbox = 1..Len(outbox) /\ Len(outbox) <= OutboxCap
  BY OutboxAssumption DEF OTable
<1>2. /\ whole \in Seq(Id) /\ Len(whole) = Len(outbox) + 1 /\ whole[1] = n
      /\ \A i \in 2..Len(whole) : whole[i] = outbox[i - 1]
  BY <1>1
<1> HIDE DEF whole
<1>3. m \in 1..Len(whole) /\ m = IF Len(outbox) < OutboxCap THEN Len(outbox) + 1 ELSE OutboxCap
  BY <1>1, <1>2
<1>4. new = SubSeq(whole, 1, m)
  BY DEF Newest, whole
<1> HIDE DEF m
<1>5. new \in Seq(Id) /\ Len(new) = m /\ DOMAIN new = 1..m /\ \A i \in 1..m : new[i] = whole[i]
  <2>1. Len(whole) \in Nat /\ m \in Nat /\ 1 <= m /\ m <= Len(whole)
    BY <1>1, <1>2, <1>3
  <2> DEFINE cut == SubSeq(whole, 1, m)
  <2>2. cut = [i \in 1..m |-> whole[i]]
    BY <1>2, <2>1
  <2>3. \A i \in 1..m : whole[i] \in Id
    BY <1>2, <2>1
  <2> HIDE DEF cut
  <2>4. cut \in Seq(Id) /\ Len(cut) = m /\ DOMAIN cut = 1..m /\ \A i \in 1..m : cut[i] = whole[i]
    BY <2>1, <2>2, <2>3
  <2> QED
    BY <1>4, <2>4 DEF cut
<1>6. \A i \in 1..m : i # 1 => i - 1 \in DOMAIN outbox /\ i \in 2..Len(whole)
  BY <1>1, <1>2, <1>3
<1>7. 1 \in 1..m
  BY <1>1, <1>2, <1>3
<1> QED
  BY <1>2, <1>3, <1>5, <1>6, <1>7

\* The new row is the first of the table, and pending.
LEMMA OCreateTable == OInv /\ CreateOrder => OTable'
<1> SUFFICES ASSUME OInv, CreateOrder PROVE OTable'
  OBVIOUS
<1> DEFINE n == created + 1
<1>1. n \in Id /\ n \notin 1..created /\ 1..n = 1..created \cup {n}
  <2>1. created \in Nat /\ MaxOrders \in Nat /\ created < MaxOrders
    BY OutboxAssumption DEF OInv, OTyped, CreateOrder
  <2> QED
    BY <2>1 DEF Id
<1>2. created' = n /\ outbox' = Newest(<<n>> \o outbox, OutboxCap) /\ pending' = (pending \cup {n}) \cap Range(outbox')
  BY DEF CreateOrder
<1> HIDE DEF n
<1>3. /\ outbox' \in Seq(Id) /\ Len(outbox') = IF Len(outbox) < OutboxCap THEN Len(outbox) + 1 ELSE OutboxCap
      /\ 1 \in DOMAIN outbox' /\ outbox'[1] = n
      /\ \A i \in DOMAIN outbox' : i # 1 => i - 1 \in DOMAIN outbox /\ outbox'[i] = outbox[i - 1]
  BY <1>1, <1>2, OFront DEF OInv
<1>4. outbox \in Seq(Id) /\ Len(outbox) \in Nat /\ OutboxCap \in Nat /\ Len(outbox) <= OutboxCap
  BY OutboxAssumption DEF OInv, OTable
<1>5. Len(outbox') <= OutboxCap
  BY <1>3, <1>4
<1>6. \A i \in DOMAIN outbox' : i \in Nat /\ (outbox'[i] = n <=> i = 1) /\ outbox'[i] \in 1..n
  BY <1>1, <1>3 DEF OInv, OTable, Range
<1>7. ASSUME NEW i \in DOMAIN outbox', NEW j \in DOMAIN outbox', outbox'[i] = outbox'[j] PROVE i = j
  BY <1>3, <1>6, <1>7 DEF OInv, OTable, IsInjective
<1>8. ASSUME NEW i \in DOMAIN outbox', NEW j \in DOMAIN outbox', i < j, outbox'[j] \in pending'
      PROVE  outbox'[i] \in pending'
  <2>1. outbox'[i] \in Range(outbox')
    BY DEF Range
  <2>2. CASE i = 1
    BY <1>2, <1>3, <2>1, <2>2
  <2>3. CASE i # 1
    <3>1. i \in Nat /\ j \in Nat /\ j # 1 /\ i - 1 \in DOMAIN outbox /\ j - 1 \in DOMAIN outbox /\ i - 1 < j - 1
      BY <1>3, <1>6, <1>8, <2>3
    <3>2. outbox[j - 1] \in pending
      BY <1>2, <1>3, <1>6, <1>8, <3>1
    <3>3. outbox[i - 1] \in pending
      BY <3>1, <3>2 DEF OInv, OTable
    <3> QED
      BY <1>2, <1>3, <2>1, <2>3, <3>3
  <2> QED
    BY <2>2, <2>3
<1>9. Range(outbox') \subseteq 1..created'
  BY <1>2, <1>6 DEF Range
<1> QED
  BY <1>2, <1>3, <1>5, <1>7, <1>8, <1>9 DEF OTable, IsInjective

\* A row is forgotten only if all rows are pending, and then it is the oldest.
LEMMA OForgets ==
  ASSUME OInv, CreateOrder
  PROVE  IF Cardinality(pending) < OutboxCap THEN pending' = pending \cup {created + 1}
         ELSE \E m \in pending : pending' = (pending \ {m}) \cup {created + 1}
<1> DEFINE n == created + 1
           L == Len(outbox)
<1>1. n \in Id /\ n \notin 1..created
  <2>1. created \in Nat /\ MaxOrders \in Nat /\ created < MaxOrders
    BY OutboxAssumption DEF OInv, OTyped, CreateOrder
  <2> QED
    BY <2>1 DEF Id
<1>2. outbox' = Newest(<<n>> \o outbox, OutboxCap) /\ pending' = (pending \cup {n}) \cap Range(outbox')
  BY DEF CreateOrder
<1> HIDE DEF n
<1>3. /\ outbox' \in Seq(Id) /\ Len(outbox') = IF L < OutboxCap THEN L + 1 ELSE OutboxCap
      /\ 1 \in DOMAIN outbox' /\ outbox'[1] = n
      /\ \A i \in DOMAIN outbox' : i # 1 => i - 1 \in DOMAIN outbox /\ outbox'[i] = outbox[i - 1]
  BY <1>1, <1>2, OFront DEF OInv
<1>4. /\ outbox \in [1..L -> Id] /\ L \in Nat /\ OutboxCap \in Nat \ {0} /\ L <= OutboxCap /\ IsInjective(outbox)
      /\ Range(outbox) \subseteq 1..created /\ pending \subseteq Range(outbox)
  BY OutboxAssumption DEF OInv, OTable
<1>5. DOMAIN outbox = 1..L /\ DOMAIN outbox' = 1..Len(outbox')
  BY <1>3, <1>4
<1> HIDE DEF L
<1>6. n \in Range(outbox') /\ Range(outbox') \subseteq Range(outbox) \cup {n}
  BY <1>3 DEF Range
<1>7. \A i \in 1..L : i < OutboxCap => outbox[i] \in Range(outbox')
  <2> SUFFICES ASSUME NEW i \in 1..L, i < OutboxCap PROVE outbox[i] \in Range(outbox')
    OBVIOUS
  <2>1. i + 1 \in DOMAIN outbox' /\ i + 1 # 1 /\ (i + 1) - 1 = i
    BY <1>3, <1>4, <1>5
  <2>2. outbox'[i + 1] = outbox[i]
    BY <1>3, <2>1
  <2> QED
    BY <2>1, <2>2 DEF Range
<1>8. CASE L = OutboxCap /\ outbox[L] \in pending
  <2>1. L \in 1..L /\ \A i \in 1..L : i = L \/ i < L
    BY <1>4, <1>8
  <2>2. \A i \in 1..L : outbox[i] \in pending
    BY <1>5, <1>8, <2>1 DEF OInv, OTable
  <2>3. Range(outbox) = pending
    BY <1>4, <1>5, <2>2 DEF Range
  <2>4. outbox \in Bijection(1..L, pending)
    <3>1. outbox \in [1..L -> pending]
      BY <1>4, <2>2
    <3>2. \A m \in pending : \E i \in 1..L : outbox[i] = m
      BY <1>5, <2>3 DEF Range
    <3> QED
      BY <1>4, <3>1, <3>2 DEF Bijection, Injection, Surjection
  <2>5. Cardinality(pending) = L
    BY <1>4, <2>4, FS_CountingElements DEF ExistsBijection
  <2>6. ~(Cardinality(pending) < OutboxCap)
    BY <1>4, <1>8, <2>5
  <2>7. outbox[L] # n
    BY <1>1, <1>4, <1>5, <2>1 DEF Range
  <2>8. outbox[L] \notin Range(outbox')
    <3> SUFFICES ASSUME NEW i \in DOMAIN outbox', outbox'[i] = outbox[L] PROVE FALSE
      BY DEF Range
    <3>1. i # 1 /\ i - 1 \in 1..L /\ outbox[i - 1] = outbox[L]
      BY <1>3, <1>5, <2>7
    <3>2. i - 1 = L
      BY <1>4, <1>5, <2>1, <3>1 DEF IsInjective
    <3> QED
      BY <1>3, <1>4, <1>5, <1>8, <3>2
  <2>9. \A m \in pending : m # outbox[L] => m \in Range(outbox')
    <3> SUFFICES ASSUME NEW m \in pending, m # outbox[L] PROVE m \in Range(outbox')
      OBVIOUS
    <3>1. PICK i \in 1..L : outbox[i] = m
      BY <1>5, <2>3 DEF Range
    <3>2. i < OutboxCap
      BY <1>8, <2>1, <3>1
    <3> QED
      BY <1>7, <3>1, <3>2
  <2>10. pending' = (pending \ {outbox[L]}) \cup {n}
    BY <1>2, <1>6, <2>7, <2>8, <2>9
  <2> QED
    BY <1>8, <2>6, <2>10 DEF n
<1>9. CASE ~(L = OutboxCap /\ outbox[L] \in pending)
  <2> DEFINE k == IF L < OutboxCap THEN L ELSE L - 1
             T == {outbox[i] : i \in 1..k}
  <2>1. k \in Nat /\ k < OutboxCap /\ k <= L /\ 1..k \subseteq 1..L /\ \A i \in 1..L : i \in 1..k \/ (i = L /\ L = OutboxCap)
    BY <1>4
  <2> HIDE DEF k
  <2>2. \A m \in pending : \E i \in 1..k : outbox[i] = m
    BY <1>4, <1>5, <1>9, <2>1 DEF Range
  <2>3. pending \subseteq T
    BY <2>2
  <2>4. IsFiniteSet(T) /\ Cardinality(T) <= k
    <3> DEFINE g == [i \in 1..k |-> outbox[i]]
    <3>1. g \in Surjection(1..k, T)
      BY DEF Surjection
    <3>2. ExistsSurjection(1..k, T)
      BY <3>1 DEF ExistsSurjection
    <3> QED
      BY <2>1, <3>2, FS_SurjCardinalityBound, FS_NatSurjection
  <2> HIDE DEF T
  <2>5. Cardinality(pending) <= k /\ Cardinality(pending) \in Nat
    <3>1. IsFiniteSet(pending) /\ Cardinality(pending) <= Cardinality(T)
      BY <2>3, <2>4, FS_Subset
    <3>2. Cardinality(pending) \in Nat /\ Cardinality(T) \in Nat
      BY <2>4, <3>1, FS_CardinalityType
    <3> QED
      BY <2>1, <2>4, <3>1, <3>2
  <2>6. Cardinality(pending) < OutboxCap
    BY <1>4, <2>1, <2>5
  <2>7. pending \subseteq Range(outbox')
    <3> SUFFICES ASSUME NEW m \in pending PROVE m \in Range(outbox')
      OBVIOUS
    <3>1. PICK i \in 1..k : outbox[i] = m
      BY <2>2
    <3>2. i \in 1..L /\ i < OutboxCap
      BY <1>4, <2>1
    <3> QED
      BY <1>7, <3>1, <3>2
  <2>8. pending' = pending \cup {n}
    BY <1>2, <1>6, <2>7
  <2> QED
    BY <2>6, <2>8 DEF n
<1> QED
  BY <1>8, <1>9

\* No order.
LEMMA OInitInv == Init => OInv
  BY OutboxAssumption DEF Init, OInv, OTyped, OCommitted, OOnce, OInTime, OAscending, OTable, Id, Range, IsInjective

\* The next order is created at the current instant, so no earlier than any.
LEMMA OCreateInv == OInv /\ CreateOrder => OInv'
<1> SUFFICES ASSUME OInv, CreateOrder PROVE OInv'
  OBVIOUS
<1> DEFINE n == created + 1
<1>1. /\ created \in Nat /\ MaxOrders \in Nat /\ n \in Id /\ n \notin 1..created
      /\ 1..created \subseteq Id /\ 1..n = 1..created \cup {n}
  <2>1. created \in Nat /\ MaxOrders \in Nat /\ created < MaxOrders
    BY OutboxAssumption DEF OInv, OTyped, CreateOrder
  <2> QED
    BY <2>1 DEF Id
<1>2. /\ created' = n /\ createdAt' = [createdAt EXCEPT ![n] = clock] /\ pending' \subseteq pending \cup {n}
      /\ UNCHANGED <<published, wire, queue, clock>> /\ created < MaxOrders
  BY DEF CreateOrder, broker
<1>3. OTyped'
  BY <1>1, <1>2 DEF OInv, OTyped
<1> HIDE DEF n
<1>4. OCommitted'
  BY <1>1, <1>2 DEF OInv, OCommitted
<1>5. OOnce'
  BY <1>1, <1>2 DEF OInv, OOnce, OCommitted
<1>6. createdAt'[n] = clock /\ \A m \in 1..created : createdAt'[m] = createdAt[m] /\ createdAt[m] <= clock /\ m # n
  BY <1>1, <1>2 DEF OInv, OTyped, OInTime
<1>7. \A m \in 1..n : createdAt'[m] <= clock
  <2>1. clock <= clock
    BY DEF OInv, OTyped
  <2> QED
    BY <1>1, <1>6, <2>1
<1>8. \A i \in DOMAIN published : published[i] \in 1..created
  BY DEF OInv, OCommitted, Range
<1>9. OAscending(published)'
  BY <1>2, <1>6, <1>8 DEF OInv, OInTime, OAscending
<1>10. \A m \in Range(published)', k \in pending' : createdAt'[m] <= createdAt'[k]
  BY <1>2, <1>6 DEF OInv, OInTime, OCommitted
<1> QED
  BY <1>2, <1>3, <1>4, <1>5, <1>7, <1>9, <1>10, OCreateTable DEF OInv, OInTime

\* A poll hands over all that is pending, after what was handed over before.
LEMMA OPollInv == OInv /\ Poll => OInv'
<1> SUFFICES ASSUME OInv, Poll PROVE OInv'
  OBVIOUS
<1>1. PICK due \in Due : wire' = wire \o due /\ published' = published \o due
  BY DEF Poll
<1>2. pending' = {} /\ UNCHANGED <<outbox, createdAt, created, queue, clock>>
  BY DEF Poll
<1>3. due \in Seq(Id) /\ Range(due) \subseteq pending /\ IsInjective(due) /\ OAscending(due)
  BY ODueRows DEF OInv
<1>4. published \in Seq(Id) /\ wire \in Seq(Id)
  BY DEF OInv, OTyped
<1>5. Range(due) \cap Range(published) = {} /\ Range(due) \cap Range(wire) = {} /\ Range(due) \cap Range(queue) = {}
  BY <1>3 DEF OInv, OOnce
<1>6. /\ published' \in Seq(Id) /\ Range(published') = Range(published) \cup Range(due) /\ IsInjective(published')
      /\ wire' \in Seq(Id) /\ Range(wire') = Range(wire) \cup Range(due) /\ IsInjective(wire')
  BY <1>1, <1>3, <1>4, <1>5, OJoined DEF OInv, OOnce
<1>7. OTyped'
  BY <1>2, <1>6 DEF OInv, OTyped
<1>8. OCommitted'
  BY <1>2, <1>3, <1>6 DEF OInv, OCommitted
<1>9. OOnce'
  BY <1>2, <1>5, <1>6 DEF OInv, OOnce
<1>10. OAscending(published)'
  <2>1. OAscending(published) /\ \A i \in DOMAIN published, j \in DOMAIN due : createdAt[published[i]] <= createdAt[due[j]]
    BY <1>3 DEF OInv, OInTime, Range
  <2>2. /\ Len(published) \in Nat /\ Len(due) \in Nat
        /\ DOMAIN published = 1..Len(published) /\ DOMAIN due = 1..Len(due)
        /\ DOMAIN published' = 1..Len(published) + Len(due)
        /\ \A i \in DOMAIN published' : published'[i] = IF i <= Len(published) THEN published[i] ELSE due[i - Len(published)]
    BY <1>1, <1>3, <1>4
  <2>3. ASSUME NEW i \in DOMAIN published', NEW j \in DOMAIN published', i < j
        PROVE  createdAt[published'[i]] <= createdAt[published'[j]]
    <3>1. CASE j <= Len(published)
      BY <2>1, <2>2, <2>3, <3>1 DEF OAscending
    <3>2. CASE i > Len(published)
      <4>1. i - Len(published) \in DOMAIN due /\ j - Len(published) \in DOMAIN due /\ i - Len(published) < j - Len(published)
        BY <2>2, <2>3, <3>2
      <4>2. published'[i] = due[i - Len(published)] /\ published'[j] = due[j - Len(published)]
        BY <2>2, <2>3, <3>2
      <4> QED
        BY <1>3, <4>1, <4>2 DEF OAscending
    <3>3. CASE i <= Len(published) /\ j > Len(published)
      <4>1. i \in DOMAIN published /\ j - Len(published) \in DOMAIN due
        BY <2>2, <3>3
      <4>2. published'[i] = published[i] /\ published'[j] = due[j - Len(published)]
        BY <2>2, <3>3
      <4> QED
        BY <2>1, <4>1, <4>2
    <3> QED
      BY <2>2, <3>1, <3>2, <3>3
  <2> QED
    BY <1>2, <2>3 DEF OAscending
<1>11. OTable'
  BY <1>2 DEF OInv, OTable
<1> QED
  BY <1>2, <1>7, <1>8, <1>9, <1>10, <1>11 DEF OInv, OInTime

\* The broker takes a message off the wire, so it cannot get it again.
LEMMA OReceiveInv == OInv /\ Receive => OInv'
<1> SUFFICES ASSUME OInv, Receive PROVE OInv'
  OBVIOUS
<1> DEFINE m == Head(wire)
<1>1. /\ wire # <<>> /\ wire' = Tail(wire) /\ queue' = Append(queue, m)
      /\ UNCHANGED <<outbox, pending, createdAt, created, published, clock>>
  BY DEF Receive, tables
<1>2. wire \in Seq(Id) /\ queue \in Seq(Id) /\ IsInjective(wire) /\ IsInjective(queue)
      /\ Range(wire) \cap Range(queue) = {} /\ Range(wire) \subseteq Range(published)
  BY DEF OInv, OTyped, OOnce
<1>3. /\ wire' \in Seq(Id) /\ m \in Id /\ m \in Range(wire) /\ Range(wire') \subseteq Range(wire)
      /\ IsInjective(wire') /\ m \notin Range(wire')
  BY <1>1, <1>2, OTaken
<1> HIDE DEF m
<1>4. queue' = queue \o <<m>> /\ <<m>> \in Seq(Id) /\ Range(<<m>>) = {m} /\ IsInjective(<<m>>)
  <2>1. DOMAIN <<m>> = {1} /\ <<m>>[1] = m
    OBVIOUS
  <2>2. Range(<<m>>) = {m} /\ IsInjective(<<m>>)
    BY <2>1 DEF Range, IsInjective
  <2> QED
    BY <1>1, <1>2, <1>3, <2>2
<1>5. queue' \in Seq(Id) /\ Range(queue') = Range(queue) \cup {m} /\ IsInjective(queue')
  <2>1. Range(queue) \cap Range(<<m>>) = {}
    BY <1>2, <1>3, <1>4
  <2>2. queue \in Seq(Id) /\ <<m>> \in Seq(Id) /\ IsInjective(queue) /\ IsInjective(<<m>>)
    BY <1>2, <1>4
  <2> DEFINE one == <<m>>
  <2> HIDE DEF one
  <2>3. /\ queue \o one \in Seq(Id) /\ Range(queue \o one) = Range(queue) \cup Range(one)
        /\ IsInjective(queue \o one)
    <3>1. one \in Seq(Id) /\ IsInjective(one) /\ Range(queue) \cap Range(one) = {}
      BY <2>1, <2>2 DEF one
    <3> QED
      BY ONLY <2>2, <3>1, OJoined
  <2> QED
    BY <1>4, <2>3 DEF one
<1>6. OTyped' /\ OCommitted' /\ OInTime'
  BY <1>1, <1>3, <1>5 DEF OInv, OTyped, OCommitted, OInTime, OAscending
<1>7. OOnce'
  BY <1>1, <1>2, <1>3, <1>5 DEF OInv, OOnce
<1>8. OTable'
  BY <1>1 DEF OInv, OTable
<1> QED
  BY <1>6, <1>7, <1>8 DEF OInv

\* What forgets rows, or messages on the wire, and what moves neither.
LEMMA OOthersInv ==
  ASSUME OInv, UNCHANGED <<createdAt, created, published, queue>>, clock' \in Nat, clock' >= clock,
         UNCHANGED <<outbox, pending>> \/ (pending' = {} /\ outbox' = <<>>), wire' = wire \/ wire' = <<>>
  PROVE  OInv'
<1>1. wire' \in Seq(Id) /\ Range(wire') \subseteq Range(wire) /\ IsInjective(wire')
  <2>1. wire \in Seq(Id) /\ IsInjective(wire)
    BY DEF OInv, OTyped, OOnce
  <2>2. <<>> \in Seq(Id) /\ Range(<<>>) = {} /\ IsInjective(<<>>)
    BY DEF Range, IsInjective
  <2> QED
    BY <2>1, <2>2
<1>2. OTyped' /\ OCommitted'
  BY <1>1 DEF OInv, OTyped, OCommitted
<1>3. OOnce'
  BY <1>1 DEF OInv, OOnce
<1>4. \A n \in 1..created : createdAt[n] <= clock'
  <2> SUFFICES ASSUME NEW n \in 1..created PROVE createdAt[n] <= clock'
    OBVIOUS
  <2>1. createdAt[n] \in Nat /\ createdAt[n] <= clock /\ clock \in Nat
    BY OIds DEF OInv, OTyped, OInTime
  <2> QED
    BY <2>1
<1>5. OInTime'
  BY <1>4 DEF OInv, OInTime, OAscending
<1>6. OTable'
  <2>1. CASE UNCHANGED <<outbox, pending>>
    BY <2>1 DEF OInv, OTable
  <2>2. CASE pending' = {} /\ outbox' = <<>>
    <3>1. OutboxCap \in Nat
      BY OutboxAssumption
    <3> QED
      BY <2>2, <3>1 DEF OTable, Range, IsInjective
  <2> QED
    BY <2>1, <2>2
<1> QED
  BY <1>2, <1>3, <1>5, <1>6 DEF OInv

\* Every step keeps the invariant.
LEMMA OStepInv == OInv /\ [Next]_vars => OInv'
<1> SUFFICES ASSUME OInv, [Next]_vars PROVE OInv'
  OBVIOUS
<1>1. clock \in Nat
  BY DEF OInv, OTyped
<1>2. CASE CreateOrder \/ Poll \/ Receive
  BY <1>2, OCreateInv, OPollInv, OReceiveInv
<1>3. CASE StartRelay \/ StopRelay \/ (\E down \in BOOLEAN : SetBrokerDown(down))
  BY <1>1, <1>3, OOthersInv DEF StartRelay, StopRelay, SetBrokerDown, tables, broker
<1>4. CASE ClearAll \/ ConnectionLost \/ Restart
  BY <1>1, <1>4, OOthersInv DEF ClearAll, ConnectionLost, Restart, tables, broker
<1>5. CASE Tick
  BY <1>1, <1>5, OOthersInv DEF Tick, tables, broker
<1>6. CASE UNCHANGED vars
  BY <1>1, <1>6, OOthersInv DEF vars, tables, broker
<1> QED
  BY <1>2, <1>3, <1>4, <1>5, <1>6 DEF Next

-----------------------------------------------------------------------------
\* The instance counts, and looks at sequences, as the modules of this one do.
LEMMA OSame ==
  /\ \A E : Promise!Cardinality(E) = Cardinality(E)
  /\ \A q : Promise!Range(q) = Range(q) /\ (Promise!IsInjective(q) <=> IsInjective(q))
  BY DEF Promise!Cardinality, Cardinality, Promise!Range, Range, Promise!IsInjective, IsInjective

\* No event is published or received twice, and events leave in the order in which their
\* orders were created, across polls, outages, lost connections and restarts.
THEOREM OKept == Spec => []EventsInOrder
<1>1. OInv /\ [Next]_vars => OInv'
  BY OStepInv
<1>2. Init => OInv
  BY OInitInv
<1>3. OInv => EventsInOrder
  <2> SUFFICES ASSUME OInv PROVE EventsInOrder
    OBVIOUS
  <2>1. Promise!EachOnce
    BY OSame DEF OInv, OOnce, OCommitted, Promise!EachOnce
  <2> QED
    BY <2>1 DEF OInv, OOnce, OInTime, OAscending, EventsInOrder
<1> QED
  BY <1>1, <1>2, <1>3, PTL DEF Spec

\* Every step is one the promise allows or changes nothing it speaks of: a row is pending
\* until its event is handed over, which empties it of every row at once, and a row is
\* forgotten only when no room is left.
THEOREM OImplements == Spec => PromiseSpec
<1>1. Init => Promise!Init
  BY DEF Init, Promise!Init
<1>2. OInv /\ [Next]_vars => [Promise!Next]_(Promise!vars)
  <2> SUFFICES ASSUME OInv, [Next]_vars
               PROVE  Promise!Next \/ UNCHANGED <<1..created, pending, wire, queue, faults>>
    BY DEF Promise!vars
  <2>1. CASE CreateOrder
    <3>1. created' = created + 1 /\ UNCHANGED <<wire, queue, faults>> /\ created + 1 \in Id
      BY OutboxAssumption, <2>1 DEF CreateOrder, broker, OInv, OTyped, Id
    <3>2. created + 1 \notin 1..created /\ 1..created' = (1..created) \cup {created + 1}
      BY <3>1 DEF OInv, OTyped
    <3>3. IF Promise!Cardinality(pending) < OutboxCap THEN pending' = pending \cup {created + 1}
          ELSE \E m \in pending : pending' = (pending \ {m}) \cup {created + 1}
      BY <2>1, OForgets, OSame
    <3>4. Promise!Commit(created + 1)
      BY <3>1, <3>2, <3>3 DEF Promise!Commit
    <3> QED
      BY <3>1, <3>4 DEF Promise!Next
  <2>2. CASE Poll
    <3>1. PICK due \in Due : wire' = wire \o due
      BY <2>2 DEF Poll
    <3>2. UNCHANGED <<created, queue, faults>> /\ pending' = {}
      BY <2>2 DEF Poll
    <3>3. due \in [1..Cardinality(pending) -> pending] /\ Range(due) = pending /\ IsInjective(due)
      BY ODueRows DEF OInv
    <3>4. due \in Promise!Orders(pending)
      BY <3>3, OSame DEF Promise!Orders
    <3>5. Promise!HandOver(pending)
      BY <3>1, <3>2, <3>4 DEF Promise!HandOver
    <3> QED
      BY <3>5 DEF Promise!Next
  <2>3. CASE Receive
    <3>1. Promise!Deliver
      BY <2>3 DEF Receive, tables, Promise!Deliver
    <3> QED
      BY <3>1 DEF Promise!Next
  <2>4. CASE ClearAll \/ ConnectionLost \/ Restart
    <3>1. Promise!Accident
      BY <2>4 DEF ClearAll, ConnectionLost, Restart, tables, relay, broker, Promise!Accident
    <3> QED
      BY <3>1 DEF Promise!Next
  <2>5. CASE \/ StartRelay \/ StopRelay \/ (\E down \in BOOLEAN : SetBrokerDown(down)) \/ Tick \/ UNCHANGED vars
    BY <2>5 DEF StartRelay, StopRelay, SetBrokerDown, Tick, vars, tables, broker
  <2> QED
    BY <2>1, <2>2, <2>3, <2>4, <2>5 DEF Next
<1>3. OInv /\ [Next]_vars => OInv'
  BY OStepInv
<1>4. Init => OInv
  BY OInitInv
<1> QED
  BY <1>1, <1>2, <1>3, <1>4, PTL DEF Spec, PromiseSpec, Promise!Spec

-----------------------------------------------------------------------------
(* The services side by side                                               *)

parts == <<focus, presence, room, flags, rabbitmq, streams, saga, vars>>

\* A step of the whole is a step of one service, and for the others a stutter.
LEMMA AllSteps ==
  [AllNext]_parts =>
    /\ [Q!Next]_(Q!vars) /\ [R!Next]_(R!vars) /\ [F!Next]_(F!vars) /\ [P!Next]_(P!vars)
    /\ [W!Next]_(W!vars) /\ [S!Next]_(S!vars) /\ [Next]_vars
<1> SUFFICES ASSUME [AllNext]_parts
             PROVE  /\ [Q!Next]_(Q!vars) /\ [R!Next]_(R!vars) /\ [F!Next]_(F!vars) /\ [P!Next]_(P!vars)
                    /\ [W!Next]_(W!vars) /\ [S!Next]_(S!vars) /\ [Next]_vars
  OBVIOUS
<1>1. Q!Next \/ UNCHANGED Q!vars
  BY DEF AllNext, parts, rabbitmq, Q!vars, Q!queue
<1>2. R!Next \/ UNCHANGED R!vars
  BY DEF AllNext, parts, streams, R!vars, R!redis
<1>3. F!Next \/ UNCHANGED F!vars
  BY DEF AllNext, parts, flags, F!vars
<1>4. P!Next \/ UNCHANGED P!vars
  BY DEF AllNext, parts, presence, P!vars
<1>5. W!Next \/ UNCHANGED W!vars
  BY DEF AllNext, parts, room, W!vars
<1>6. S!Next \/ UNCHANGED S!vars
  BY DEF AllNext, parts, saga, S!vars
<1>7. Next \/ UNCHANGED vars
  BY DEF AllNext, parts
<1> QED
  BY <1>1, <1>2, <1>3, <1>4, <1>5, <1>6, <1>7

\* A behaviour of the whole is one of each service.
LEMMA AllBehaviours ==
  AllSpec =>
    Q!Spec /\ F!Spec /\ P!Spec /\ W!Spec /\ S!Spec /\ Spec /\ R!Init /\ [][R!Next]_(R!vars)
<1>1. AllInit => Q!Init /\ F!Init /\ P!Init /\ W!Init /\ S!Init /\ Init /\ R!Init
  BY DEF AllInit
<1> QED
  BY <1>1, AllSteps, PTL DEF AllSpec, parts, Q!Spec, F!Spec, P!Spec, W!Spec, S!Spec, Spec

\* What the clients are told is true once the calls about it are done, but for
\* the overlaps, losses and omissions the properties name: who is online, who is
\* in a room, what a flag is.
THEOREM ClientsTold == AllSpec => []ClientsAreTold
  BY AllBehaviours, PKept, WKept, FKept, PTL DEF ClientsAreTold

\* RabbitMQ delivers to the registered consumer and no other, but for requests
\* that crossed and a closed channel.
THEOREM RegistryTrue == AllSpec => []ConsumersRegistered
  BY AllBehaviours, QKept, PTL DEF ConsumersRegistered

\* No entry of a stream is handled twice; what its group was given is owed or
\* acknowledged, and whatever is owed is in a hand, failed, or with a client.
THEOREM StreamAccounted == AllSpec => []StreamAccounts
  BY AllBehaviours, RKept, PTL DEF StreamAccounts

\* A saga that ends has sent every command, or settled each step before the
\* failed one, last first.
THEOREM Settles == AllSpec => []SagaSettles
<1>1. N \in Nat \ {0}
  BY ServicesAssumption
<1> QED
  BY <1>1, AllBehaviours, SKept, PTL DEF SagaSettles

\* Events leave the outbox once, in the order of creation.
THEOREM Ordered == AllSpec => []EventsInOrder
  BY AllBehaviours, OKept, PTL

\* The relay does what an outbox promises: the event of a committed order is owed until
\* it is handed over, once, and received, once and in order; it is dropped only by a fault,
\* or when the table is full of what is owed.
THEOREM Implements == AllSpec => PromiseSpec
  BY AllBehaviours, OImplements, PTL
=============================================================================
