----------------------------- MODULE MCServices -----------------------------
(***************************************************************************)
(* The services that stand alone, as TLC explores them: the presence of a  *)
(* user, a room of sockets, a feature flag, the RabbitMQ client, a Redis   *)
(* stream, a saga, the outbox.  None of them reads what another writes, so *)
(* a behaviour exercises one of them, chosen at the start, and the others  *)
(* stand still.  What stands still has no action that is fair and enabled. *)
(***************************************************************************)
EXTENDS Outbox

CONSTANTS
  None, Socket, Instance, TTL, MaxCrashes,
  Req, MaxMessages, MaxTags, MaxCalls,
  Loop, BatchSize, MaxEntries,
  N, Compensable,
  MaxWire, User, Full, MaxRequests

VARIABLES
  focus,
  session, sockets, age, online, announced, op, crashes, lapsed, raced, met,
  exists, bound, ready, consumers, registry, open, tags, rreq, calls, crossed,
  entries, top, group, since, unhandled, consuming, loop, given, sfaults, handled, acked, failed,
  failAtStep, at, step, status, stepStatus, compensationStatus, failedAtStep,
  commands, compensations, connected,
  places, on, rooms, roster, events, exits, missed, exited,
  flag, bucket, freq, told, requests, silent, overtaken

Q == INSTANCE RabbitClient WITH req <- rreq
R == INSTANCE RedisStreams WITH pending <- unhandled, faults <- sfaults
S == INSTANCE Saga
P == INSTANCE Presence
W == INSTANCE Rooms WITH session <- places, wire <- events, crashes <- exits
F == INSTANCE FeatureFlags WITH req <- freq

\* None is no number and no flag; the bounds are numbers, and a saga has a step.
ASSUME ServicesAssumption ==
  /\ None \notin Nat
  /\ None \notin [enabled : BOOLEAN, type : F!FlagType, percentage : 0..Full, userIds : SUBSET User]
  /\ BatchSize \in Nat /\ MaxEntries \in Nat /\ Full \in Nat /\ N \in Nat \ {0}

rabbitmq == <<exists, bound, ready, consumers, registry, open, tags, rreq, calls, crossed>>
streams  == <<entries, top, group, since, unhandled, consuming, loop, given, sfaults, handled, acked, failed>>
saga     == <<failAtStep, at, step, status, stepStatus, compensationStatus, failedAtStep,
              commands, compensations, connected>>
room     == <<places, on, rooms, roster, events, exits, missed, exited>>
flags    == <<flag, bucket, freq, told, requests, silent, overtaken>>
presence == <<session, sockets, age, online, announced, op, crashes, lapsed, raced, met>>
AllInit ==
  /\ focus \in {"presence", "rooms", "flags", "rabbitmq", "streams", "saga", "outbox"}
  /\ Init /\ Q!Init /\ R!Init /\ S!Init /\ P!Init /\ W!Init /\ F!Init
  /\ focus # "saga" => failAtStep = None /\ connected
  /\ focus # "outbox" => channel
  /\ focus # "flags" => \A u \in User : bucket[u] = 1
AllNext ==
  \/ focus = "presence" /\ P!Next /\ UNCHANGED <<focus, room, flags, rabbitmq, streams, saga, vars>>
  \/ focus = "rooms" /\ W!Next /\ UNCHANGED <<focus, presence, flags, rabbitmq, streams, saga, vars>>
  \/ focus = "flags" /\ F!Next /\ UNCHANGED <<focus, presence, room, rabbitmq, streams, saga, vars>>
  \/ focus = "rabbitmq" /\ Q!Next /\ UNCHANGED <<focus, presence, room, flags, streams, saga, vars>>
  \/ focus = "streams" /\ R!Next /\ UNCHANGED <<focus, presence, room, flags, rabbitmq, saga, vars>>
  \/ focus = "saga" /\ S!Next /\ UNCHANGED <<focus, presence, room, flags, rabbitmq, streams, vars>>
  \/ focus = "outbox" /\ Next /\ UNCHANGED <<focus, presence, room, flags, rabbitmq, streams, saga>>
AllSpec ==
  /\ AllInit /\ [][AllNext]_<<focus, presence, room, flags, rabbitmq, streams, saga, vars>>
  /\ Fairness /\ R!Fairness /\ P!Fairness

\* What the modules state, of their parts of the state.
\* What the clients are told: who is online, who is in a room, what a flag is.
ClientsAreTold      == P!PresenceTruthful /\ W!RostersAreTold /\ F!FlagRules
ConsumersRegistered == Q!ConsumersRegistered
StreamAccounts      == R!StreamAccounts
FreshIsHandled      == R!FreshIsHandled
SagaSettles         == S!SagaSettles
OfflineInTheEnd     == P!OfflineInTheEnd
=============================================================================
