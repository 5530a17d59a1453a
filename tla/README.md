# Verification of the messaging, payment and project platform

This directory holds TLA+ models of the parts of this repository whose correctness depends on
the order of steps. TLC checks each model on a small instance, and TLAPS proves the safety
properties of all of them for every value of the constants.

Paths below are relative to the repository's `src/`, and `M` stands for `modules/`.

1. [The system](#1-the-system)
2. [Modules and their correspondence to the code](#2-modules-and-their-correspondence-to-the-code)
3. [Runs, bounds and what they show](#3-runs-bounds-and-what-they-show)
4. [Fairness](#4-fairness)
5. [What is proved](#5-what-is-proved)
6. [Disagreements between code and documentation](#6-disagreements-between-code-and-documentation)
7. [What is not modelled](#7-what-is-not-modelled)
8. [Plan](#8-plan)

## 1. The system

A NestJS server. Every HTTP request, WebSocket event, queue consumer and timer runs on one
event loop, so code between two `await`s is atomic and everything else interleaves. The state
is in MongoDB (one atomic operation per Mongoose call, no transactions anywhere), in Redis, in
BullMQ queues (on Redis), in RabbitMQ, and in the fields of singleton services, which a restart
loses. Several instances may run behind one Redis.

| Component | State it keeps | Operations | Talks to | What is hard |
|---|---|---|---|---|
| QR payments (`M/admin/payments`, `M/workers/bullmq/workers/payment.worker.ts`) | rows `payment_qrs`; Redis keys for the signed payload and the used nonce; two kinds of job | generate a QR, verify and process a scan, read endpoints that expire lazily, the jobs that expire and that notify | orders, Redis, BullMQ, WebSocket | up to six awaits per request on four stores; races of scans, expiry and cancellation; crash of the worker |
| Orders (`M/client/orders`) | rows `orders` | create, cancel, move through shipping | payments | a cancellation reads, then writes |
| Chat (`M/admin/chat`) | conversations, members, per-user rows, messages, reactions, scheduled messages, reminders | about fifty service methods | BullMQ, WebSocket, notifications | chains of awaited writes without transactions |
| Tasks and cache (`M/admin/tasks`, `M/cache`) | rows `tasks`; cached lists; points | create, update, move, assign, finish, reorder, delete; `getOrSet`, `delPattern` | Redis, users, events | a list read before a mutation and stored after its invalidation |
| Sprints (`M/admin/sprints`) | rows `sprints` | create, update, start, close, delete | projects | at most one active sprint, checked and then written |
| Workplaces, projects and their members | rows with roles, cached lists of projects | CRUD, members and roles | cache | unique indexes commented out; several writes per operation |
| Fund pools (`M/admin/fund-pools`, its worker) | rows, execution rows, a repeatable job | CRUD, toggle, the job that adds the recurring amount | BullMQ, feature flags | a job that runs twice |
| Labels and saved replies | rows with a name | CRUD | | a name looked for and then written |
| Accounts (`M/admin/auth`, `M/admin/users`) | rows `users` | start, register, log in, refresh, passwords, updates | | reads outdated by another request |
| Circuit breaker (`M/messaging/rabbitmq/circuit-breaker.service.ts`) | state, failure window, timestamps, statistics, all in memory | call, status, reset, trip, configure, clear | the simulated service | calls that return into another state than they left |
| Backpressure (`.../backpressure.service.ts`) | an in-memory queue, counters, timers | start, stop, clear, configure, produce, consume, retry | none | timers that outlive what armed them |
| Outbox (`.../outbox.service.ts`) | two in-memory tables, the relay's switches | create an order, poll, start and stop the relay, outage, clear | RabbitMQ | bounded tables, lost connections, restarts |
| Dead-letter queue (`.../dlq.service.ts`) | RabbitMQ queues, tracked rows, attempt counters | start and stop the consumer, send, retry or discard dead letters, clear | RabbitMQ | handlers that outlive their channel; duplicates; configuration changed during a delay |
| Saga orchestrator (`.../saga-orchestrator.service.ts`) | a log of sagas in memory | run five steps, compensate in reverse | RabbitMQ | a compensation that fails is only logged |
| RabbitMQ client (`.../rabbitmq.service.ts`, controller) | one channel, a registry of consumers | publish, bind, consume, cancel, purge, delete | RabbitMQ | the registry is read before an await and written after it |
| Redis streams (`M/messaging/redis-streams`) | streams, consumer groups, a loop per consumer | add, trim, read, acknowledge, claim | Redis | several readers share a group; what fails stays pending |
| WebSocket gateway (`M/messaging/websocket`) | sessions per instance; a set of sockets per user, and who is online, in Redis; rooms | connect, disconnect, reconnect in time, join, leave | Redis | test and removal of the last socket are two commands; a TTL; exits; several instances |
| Feature flags (`M/feature-flags`) | rows | create, update, toggle, delete, evaluate, broadcast | WebSocket, fund pools | read, negate, write; broadcasts that cross |
| Task events (`integrations/task-system`, `M/admin/events`) | none | fan one mutation out to four transports | all brokers | each transport may fail alone |

The remaining parts (wrappers of client libraries, plain CRUD, demonstration workers, examples,
health and metrics) have no ordering of their own; `PROJECT.json` lists them under `components`
with the reason, and its `hazards` list, at their lines, the places of this code that tests hardly
reach.

What makes each modelled component correct:

- **Payments.** An order is confirmed only after a payment for it; the payer is told; a nonce
  recorded for a code does not pay for it again; and while nobody overlaps, one code is active, old
  codes cannot be used and a payment is not lost to an expiry.
- **Chat.** Unread counts hide nothing; members see the conversation; admins were appointed; what
  was deleted stays deleted; polls count every vote once; the newest message is previewed; two
  users share one private conversation. A scheduled message is delivered once per time its job is
  put into the queue, not by a run that a cancellation took out in time, and is not pending for ever.
- **Tasks and projects.** A cached list is not out of date for longer than the deletion under way;
  keys are distinct; points are awarded per completion; one sprint is active, with its dates in
  order; one row per member, and an owner; one bearer of each name.
- **Fund pools.** The amount is added once per interval, each addition with its record.
- **Accounts.** Tokens go to active accounts with the right password; the administrator exists.
- **Circuit breaker.** A closed circuit has counted fewer failures than the threshold in force,
  unless that was lowered since; an open one lets nothing through and does not stay open for ever;
  statistics add up.
- **Backpressure.** No message is lost, counted twice or stuck; the queue stays within its limit.
- **Outbox.** An event goes out only for an order, once, in order, and in the end it does go out.
- **Dead-letter queue.** A message the broker took stays with it until processed or dead-lettered;
  what the operator is shown is true; every message settles.
- **Saga.** A saga ends with every command sent, or with those sent compensated, last first.
- **RabbitMQ client, streams.** The registry tells who consumes; no entry is handled
  twice, every new one is handled, and what is owed is accounted for.
- **Gateway, flags.** Clients are told the truth: who is online, who is in the room, what a flag is.

## 2. Modules and their correspondence to the code

`PROJECT.json` maps every definition to its lines. In all modules of services a request occupies
a slot of `Req` (`Requests`) with a program counter, one value per awaited call; checks that throw
before anything was written are guards. What a request read and carries along is in its record;
a field `outdated` is history: another request has written that since. Several properties say
exactly which overlaps break a promise of the code, and hold in all others. Counters called
`Max...` are bounds for TLC and appear in guards only.

**Payments** models `payments.service.ts`, `orders.service.ts` (`cancelOrder`) and
`payment.worker.ts`: `genFind`, `genDrop`, ... for `generateQr`, `verGet`, `verOrder`, `verNonce`,
`verPaid`, `verDrop`, `verConfirm`, `verNotify` for `verifyAndProcess`, `syncExpire` for the lazy
expiry and `cancelWrite` for `cancelOrder`. The signature, the amount and the clock are checked
inside one synchronous block of `verifyAndProcess`; they are part of `VerGet`. `past` says whose
`expiresAt` is over; Redis keys expire by themselves (`KeyExpires`, `NonceExpires`). The nonce of a
verification is whatever the client sends (`Nonce`): the code records it and refuses it a second
time, and never compares it with the QR's. History: `everUsed` is which nonce was recorded for which
QR, `overlapped` the orders that had two requests in flight at once. **PaymentLedger** is the
abstract promise: pay, then confirm, then tell, with a cancellation at any moment;
`Payments!LedgerSpec` states the refinement, with `paid <- paidEver`.

**ChatGroup** models one group or channel: who is a member, with what role, on whose list it is,
what is unread. `Begin`, `Step` and `Done` are the frame of a request: what it was asked (`op`,
`by`, `whom`) and the await it is at. The access checks at the start of a request are one step (they
read two documents that matter together only for the caller's own role). **ChatMessages** models
what becomes of the messages of a conversation, which has none or one at the start: edits,
deletions, expiry, reactions, stars, pins, polls, forwards and the preview; `crossed` has, among
others, the pairs of sends of which the later was stored before the earlier had written the preview.
**PrivateChat** models `createConversation` for two users, in its look and three inserts.
**ChatSchedule** models a row, its delayed job, the worker and the cancellations; a scheduled
message and a reminder differ only in what may refuse (`SendRefused`, `MarkFailed`). A job runs once
(`attempts: 1`), once more if its process died, and whenever an operator calls `POST
queues/:queue/retry-failed` after it failed (`RetryFailed`); `again` counts both.

**TaskBoard** has the tasks of one project, one cached list that the behaviour follows
(`watched`), and the points awarded. Of a cached list only its truth is kept: `fresh` while
MongoDB would answer the same, `stale` afterwards. `busts` are the lists a request still has to
delete, a set per awaited group. `Boards`, `Puts` and `Posts` are the initial boards and the bodies
of requests.

**Sprints**, **Projects**, **Members**, **FundPools**, **Accounts** and **Names** follow the same
pattern for the services their headers name. `Members` keeps rows in insertion order, because
`findOne`, `updateOne` and `deleteOne` take the first match where no index makes it unique.
In `Projects` any awaited call may fail, also between the insertion of a project and that of its
member or the deletion of its lists, and the process may exit there (`CallFails`, `Crash`).
`FundPools` counts time in periods, and has a worker per process for the one queue of jobs; the
flag `fund-pool-executor` may be toggled under it. `Names` is labels or saved replies, whichever
`kind` says: only the latter have a unique index.

**CircuitBreaker** models one await per call: `Admit` is everything up to the service's answer
(with `checkStateTransition`), `Succeed` and `FailCall` everything after it. Each timestamp is the time
since, saturating at `MaxAge`, which keeps the model finite without bounding a run. A threshold is
any number, 0 as well, as `updateConfig` takes it; `lowered` is history: it was lowered to what is
already counted, and neither a failure nor a closing has come since.

**Backpressure** has one action per strategy of `handleOverflow`. `retries` are the armed 500 ms
timers; `stale` counts those armed before the last `clear`, which does not clear them.

**Outbox** has the two tables as sequences, newest first, each cut to its size. A poll is atomic
because `runRelayPoll` does not await. `wire` are frames the client has buffered; a lost
connection drops them. **OutboxPromise** is the abstract promise: an event that is committed is
owed, then in transit, then received, in the order it was handed over; it is dropped only for lack of
`Room` or by an accident, and nothing hands it over or delivers it twice (`EachOnce`).
`Outbox!PromiseSpec` is the refinement, with `owed <- pending`, `transit <- wire`,
`delivered <- queue`: a second publication or delivery, or a frame that vanishes while the
connection holds, is not a step of the promise.

**Dlq** models copies of messages with their `x-retry-count`, the main and the retry queues, and
handlers in two halves, before and after `processingDelayMs`. The acknowledgement goes to
whatever channel the service has by then: on a new channel the same tag names another delivery
or none, and an unknown tag makes the broker close the channel. While the channel is usable, a
send is assumed to reach the broker at once.

**Saga** is one run of `runOrderSaga`, over any number of steps of which some have a compensation.
**RabbitClient** is one queue with its consumers and the registry; answers of RabbitMQ come in any
order, which is more than one channel does. **RedisStreams** is one stream and one group, loops
started by `startConsumer`, and HTTP clients that read, claim and acknowledge. **Presence** has
the sockets of one user over the instances, its keys in Redis and the timer of a reconnection;
**Rooms** one room, the list of members each client builds from what it is told, and the events on
their way between instances. **FeatureFlags** is one flag, with what the room was last told.

**MCChat**, **MCWorkspace**, **MCServices** and **MCSimulations** (the circuit breaker and the
backpressure queue) put together modules that share no document. A variable `focus`, chosen at the
start and never changed, says which of them a behaviour exercises, and the others stand still, so
the state space is the sum of theirs rather than the product. The other `MC*` modules only give
constants. The `*Proofs` modules hold theorems, lemmas and the inductive invariants. Operators whose
comment starts with "Mutant" are deliberately wrong variants of the definition they stand next to;
they occur in no specification and show that the properties can fail.

## 3. Runs, bounds and what they show

| Run | Module | Instance | Properties |
|---|---|---|---|
| PaymentsRaces | MCPayments | 2 requests, 2 QRs of one order, 1 nonce, 1 fault | `LedgerSpec`: in every interleaving the detail implements the ledger; `SerialPromises`: as long as no two requests of the order overlapped, the comments hold (one active QR, one job to finalize, cancelled codes stay unpaid, only PENDING expires) |
| PaymentsFaults | MCPayments | 2 requests, 1 QR, 2 nonces, 1 fault | `LateVerificationRejected`, `ScheduledQrResolves`, `PaidReachesPayer`: failed awaits, failed jobs and crashes |
| Simulations | MCSimulations | 2 callers, 3 configurations with thresholds 0 to 2, 3 calls, 3 operator actions; limits 0 to 2, every strategy, 3 messages | breaker: `BreakerCounts` (failures below the threshold in force while closed, statistics add up), `OpenEndsEventually`; queue: `Conservation`, `NoMessageStuck` |
| ChatSchedule | ChatSchedule | a message, a reminder, 2 cancels, 2 faults | `DeliveredOnce`, `RemovedInTime`, `PendingEnds` |
| Chat | MCChat | 2 users, 2 requests, 1 failed call; 1 counted message, or 3 stored ones and 3 requests, or 3 conversations | group: `CountsUnseen`, `MembersListed`, `AdminsAppointed`; messages: `RemovedIsLeftAlone`, `PollsAndPinsHold`, `NewestIsPreviewed`; private: `OnePrivateChat` |
| Dlq | MCDlq | 2 messages, 2 handlers, 2 configurations, 2 faults | `DlqPromises` (types, nothing lost, recovery, known subscription), `RowsTellTruth`, `EveryMessageSettles` |
| Board | MCBoard | 2 requests, 2 tasks, 1 sprint, 1 user, 3 calls, 1 fault | `ProjectListsRecover`, `StaleListsAreDeleted`, `KeysDistinct`, `AwardsMatchCompletions` |
| BoardAwards | MCBoard | 1 request, 1 task, 3 calls | violation: `AwardedForFirstTime` |
| Workspace | MCWorkspace | 2 requests, 1 fault; 2 users and 3 member rows; 2 sprints; 2 projects that want one key; 2 workers; 2 accounts; 3 named rows | `PeopleRules`, `SprintRules`, `ProjectRules`, `PoolsExact`, `AllowedSteps` |
| Services | MCServices | 2 sockets, 2 instances, 1 exit; 2 requests to RabbitMQ; 2 loops, 2 entries, 1 fault; a saga of 5 steps; 4 orders; 3 flag requests | `ClientsAreTold`, `ConsumersRegistered`, `StreamAccounts`, `SagaSettles`, `EventsInOrder`, `OfflineInTheEnd`, `FreshIsHandled`, `PromiseSpec`, `EveryEventArrives` |
| PresenceTTL | Presence | 1 socket, TTL of 4 periods | violation: `ActiveKeyKept` |
| StreamsRetry | RedisStreams | 2 loops, 2 entries, 1 fault | violation: `FailedIsRetried` |

A name that joins several statements is the conjunction of parts named in the modules:
`PeopleRules` is `Members!MemberRules` and `Accounts!AccountRules`; `ProjectRules` is that of
`Projects` and `Names!NamesDistinct`; `AllowedSteps` is `Projects!OwnerListForgotten` and
`SprintLifecycle`; `ClientsAreTold` is `Presence!PresenceTruthful`, `Rooms!RostersAreTold` and
`FeatureFlags!FlagRules`.

Why the bounds are enough for what they are used for:

- *Two requests.* The races in this code are between two requests (or a request and a job); a third
  one adds nothing that two in sequence do not, since a slot is reused. In PaymentsRaces a behaviour
  in which no requests overlap is one of successive codes: one is retired, expires or is paid before
  the next, with a fault between. Where requests are bounded (`MaxCalls`, `PoolCalls`, ...), three
  or four let one finish, another start on what it left, and a third cross it.
- *Nonces.* Whether a verification repeats a nonce or brings another one is all the code tells apart,
  so two nonces against one QR give a first call, its repetition and a call with a nonce of its own;
  with two QRs one nonce is enough, since a code may be scanned with the nonce of the other.
- *One order, one project, one queue, one stream, one flag, one user's presence.* What these
  modules do for different ones shares no row, key or registry entry. Lists of members and of
  projects are followed one at a time for the same reason.
- *Two users in a group.* One user can have several requests, so two users give a caller, a target
  and their crossings. One message is enough for a store, its count and a read to cross in every
  order; the preview needs three, of which two are sent while the first may be previewed already,
  so that two writes of the preview cross; two calls send them and a third sends or deletes.
- *Small tables.* `OutboxCap` 2 and `OrdersCap` 1 against 4 orders, `RowCap` 1 against 2 messages
  and limits 0 to 2 against 3 messages make every eviction and every overflow happen.
- *Time.* `TTL` is 2 periods in Services, so that the key lapses under a socket, and 4 in
  PresenceTTL; `Interval` 2 makes a pool due, not due and overdue; sprints have a present that is
  the last moment and one before it.
- *Instances.* Two: one that exits or joins late, and one that sees it from outside.
- *Faults.* One or two: a fault that leaves a state behind and another that meets it.
- `FailCount` 1 and `maxRetries` 1 (3 by default) put the modes `first_n` and `always` on both sides
  of the last retry. The saga has the five steps of the code, the last of which has no compensation.

`CHECK_DEADLOCK FALSE` is set wherever the system may really come to rest: bounded inputs are used
up and no request is under way.

## 4. Fairness

Only steps the running process takes by itself are fair, each weakly:

- Payments: a request that has started goes on; the worker takes its jobs; time passes. Starting
  a request, faults and the early expiry of a key are not fair.
- CircuitBreaker: time passes, and a service call is answered (the breaker awaits a timer,
  `delay(serviceLatencyMs)`, and then returns or throws).
- Backpressure: the intervals fire while running, and armed timers fire.
- Outbox: the poll's interval fires, and frames sent on a live connection arrive.
- Dlq: the broker delivers to a subscribed consumer, a handler ends after its delay, a retry
  queue's time to live ends.
- ChatSchedule: a request under way, the worker and the delay of a job go on. A crash of the
  process and a failed call are not fair.
- Presence: time passes, and the Redis commands of a socket that connects or goes are carried
  through.
- RedisStreams: a consumer loop that has begun goes on.

No liveness is claimed for the other modules: they have requests and no process of their own.

## 5. What is proved

TLAPS proves the following from the named assumptions on the constants, and from nothing else:
bounds are natural numbers, intervals and windows too; what is counted over (requests, workers,
callers, tasks, options of a poll) is finite; the value that stands for "none" is not also a user, a
key, a status or a document; the bodies of requests are bodies the routes accept; the board a
behaviour starts from has distinct keys; a saga has at least one step; no configuration of the
dead-letter queue retries more often than `MostRetries`; a sprint's present is a moment of its
clock; the outbox keeps at least one row. The theorems hold for any number of requests, users, rows,
messages, orders, sprints, sockets, entries and faults, and for runs of any length.

| Module | Theorem | Statement |
|---|---|---|
| PaymentsProofs | Typed, ConfirmedPaid, LateRejected, ToldLate | types; confirmed only after paid; a verification never pays that comes with a nonce its QR was scanned with, or after the order was settled; told only when paid and settled |
| | ImplementsLedger | `Spec => LedgerSpec` |
| | SerialKept | `Spec => SerialPromises`, for every order no two requests of which overlapped: one active QR, one job to finalize, cancelled codes stay unpaid, only PENDING expires |
| SimulationsProofs | FailuresCounted | `BreakerCounts`: failures below the threshold in force while closed, unless it was lowered since, and the statistics add up |
| | Timestamps, OpenCircuitBlocks, CallsCounted | timestamps match the state; an open circuit blocks; every call is counted once |
| | Conserved, BTyped, BGrowsWithin | the queue: conservation; types; growth within the limit |
| DlqProofs | PromisesKept | `DlqPromises`: types, nothing lost, recovery, known subscription |
| | RowsTrue | `RowsTellTruth`: what the operator is shown, until a delivery is taken back |
| ChatScheduleProofs | Typed, Once, InTime, SentDelivered, Stays | types; one delivery, and one more per time the job is put back; none by a run that was removed; SENT only if delivered; cancelled stays cancelled |
| ChatProofs | Typed, Appointed, Listed, Counted | the group: types; admins were appointed; members are listed; counts hide nothing |
| | VotesKept, Previewed, RemovedStays | the messages: votes and pins; the preview; what is removed is left alone |
| | PairKept | two users share one private conversation, but for the crossing named |
| BoardProofs | ListsRecover, StalesDeleted | a cached list is stale only while its deletion is under way; a write that makes a list stale goes on to delete it; each but for the accidents and gaps named |
| | KeysApart, AwardsEarned | keys are distinct unless two insertions crossed; points are awarded per completion |
| WorkspaceProofs | PeopleKept, ProjectsKept, PoolsKept, SprintsKept | `PeopleRules`, `ProjectRules`, `PoolsExact`, `SprintRules` |
| | StepsKept | `AllowedSteps` of projects and of sprints |
| ServicesProofs | ClientsTold, RegistryTrue, StreamAccounted, Settles | `ClientsAreTold`, `ConsumersRegistered`, `StreamAccounts`, `SagaSettles` |
| | Ordered, Implements | events in order and once; `Spec => PromiseSpec`, each event in its place: owed, in transit, received |

A module of proofs about a composition (`ChatProofs`, `WorkspaceProofs`, `ServicesProofs`,
`SimulationsProofs`) has one part per component; its definitions and lemmas begin with the letter
the component's instance has in the `MC` module. The component's invariant is shown to be inductive
on the component's own variables, and at the end a behaviour of the whole is one of each component
(it takes its steps or stands still).

The arguments:

- *Payments.* What a request may do depends on what it has done, so `IInv` says for each program
  counter what the request's locals are (`LocalsOK`), that the QR being confirmed was paid
  (`PayingOK`) and that a late call cannot reach the nonce (`LateOK`). `NonceOutlives` (a used nonce
  disappears only after the QR's time is over) is needed because the nonce check alone would let a
  call with an old nonce pass again. `OnlyWriters` names the few steps that write each shared field,
  so each of the three step lemmas looks only at those. The refinement then needs `IInv` in two
  places: a confirmation must be of a paid QR, a notification after the confirmation.
- *Payments, requests that did not overlap.* There are any number of slots; the promises are about
  the orders not in `overlapped`, while requests of other orders, the worker, the clock, failed calls
  and crashes run beside. `Apart` says that two requests in flight for one order have overlapped, so
  a step that writes rows of the order is that of its only request or of the worker, and every other
  step spares what belongs to it (`Spares`). `BooksOf` ties the keys in Redis to the rows of the
  order: a live key is of a QR that can be paid, or of one paid half way. `Stage` is what a request
  still knows at each call: that what it is about to retire, expire or pay is in the state it read,
  which is what a second request could change. A payment that stopped half way may be recorded again
  under another nonce, but it has no job yet (`PaidOnce`); a late one finds the QR over and
  expires it, the exception `OnlyPendingExpires` names.
- *Circuit breaker.* `Core` (types without the window) with `TimestampsMatchState` is inductive.
  `CircuitSteps` classifies every step as opening, closing, half-opening, ageing or none, so
  that the blocking theorem is a case split. The counting theorem relates a cardinality to the
  counters: a call is added to or removed from the set in flight by exactly one step. The failures of
  the window are kept in the order of time (`WindowInv`), so those that leave it are a prefix
  (`Dropped`), and what remains is no longer than before; a failure that keeps the circuit closed has
  just been compared with the threshold in force, and a configuration that undercuts the count is
  recorded.
- *Backpressure.* Types and conservation are inductive together: that `stale` never exceeds the
  number of timers is what makes the arithmetic of live timers sound.
- *Dead-letter queue.* Prefetch 1 means the broker waits for one acknowledgement at most, and for
  none once the channel is gone (`OneHeld`); with that, an acknowledgement by whatever tag settles
  the handler's own delivery, another one (which is `misacked` from then on), or closes the channel
  (`Acknowledged`), and each handler needs one argument per outcome. `Counting` says that a copy
  has been tried as often as its header says until a clear, a restart or a duplicate sets the two
  apart, so a mode that recovers after `FailCount` attempts never runs out of retries. `Single` says
  that a message has one copy in one place until a delivery is taken back from a running handler:
  without it the row of one copy could be written by the handler of another.
- *ChatSchedule.* `Ordered` ties the creation of a job to its stored id (so a cancel that goes for a
  job meets one that exists), `Counted` bounds the deliveries by the stage of the job and the times
  it was put back, and `TakenOut` says that a removed job does not come back: `retry-failed` takes
  failed ones only.
- *Group.* `InFlight` says an update under way names appointed users only, whatever happens to
  their roles meanwhile. `NothingUnseen` (nothing is unseen by who has no row) is the
  strengthening of the unread count; with it the sum "unread, plus lost, plus the requests about
  to count" dominates what is unseen after every step.
- *Messages.* A message a request has loaded was there. If it is gone, or its votes or pins were
  written since, the request is outdated and what it writes is excused; otherwise what it holds is
  what MongoDB holds. Messages are numbered as they come. Of a message newer than the preview, the
  request is still under way, was cut off, or stored it before the previewed one was previewed,
  which marked the two as crossed; so a preview goes back only where that is marked.
- *Private conversation.* Each request under way holds a conversation of its own, and one that
  nobody has overtaken has still found none; of two conversations of the pair, one was made so.
- *Board.* The lists a request still owes (`OwedBy`) are what makes staleness temporary. `Shape` says
  which operation can be at which await and that a deletion under way has something to delete,
  `Current` that a row which nobody overtook is still as it was read, `Covered` that the points
  awarded and those still to be awarded are no more than the completions. That a merged body changes
  only the lists the code deletes is the content of `MergedRow` and the lemmas on what PUT, POST and
  DELETE owe; `StalesDeleted` is then a case split over the writes.
- *Members.* Rows are a sequence and a write takes the first of its user, so what was read is the
  first row: when another user's row is removed, the first of everyone else is one that was first
  before.
- *Projects, names, accounts.* A key or a name found free is free until someone inserts it, and each
  insertion marks those who had looked before it. Who will delete the cached lists is known from the
  write on, so a list is stale while a request owes its deletion; a call that fails or an exit in
  between is recorded (`excused`). For accounts, where a request of each route can be and which
  account it holds.
- *Sprints.* The service never looks at the row it writes, so everything rests on what a request
  knows: unless it is `outdated`, the row it read still stands (`Fresh`), it passed the check of
  its operation on that (`Checked`), and where it is past its look for an active sprint there is
  none (`NoneFound`). Every write marks as outdated just the requests it contradicts, which is
  what makes the three inductive together.
- *Fund pools.* The stamp of a pool is no older than its last addition, and whoever found the pool
  due has it still due, unless it shares that finding with another worker.
- *RabbitMQ client.* While no requests crossed, at most one consumer waits to be registered, in an
  empty registry, and who is struck off consumes no more.
- *Streams.* What is in a hand was delivered once: nothing a loop holds can be delivered again, is in
  another loop's hand, or was handled before.
- *Gateway.* A session is in the key from `sadd` to `srem`, and while a call that found none is about
  to leave `presence:online`, no other has been added. In a room, the last event about a socket on its
  way to an instance is true.
- *Flags.* Whoever has still to tell of the last write will tell the truth.
- *Outbox.* What `EventsInOrder` says of `published` and `queue` does not survive a step by itself:
  a poll must be known to hand over only rows that were never handed over (`OOnce`), and none
  created before one that was (`OInTime`). The latter holds because a poll takes all that is pending,
  and what is created later has no earlier instant. For the refinement, `OTable` says that what is
  pending in the table is newer than what is not: an eviction takes the oldest row, which is
  pending only when all are, hence only when as many are owed as there is `Room`. A poll hands
  over what is pending as one sequence in which each event occurs once, and a frame that arrives
  is the first in transit; an exit, a lost connection and a clear are accidents.
- *Saga.* The invariant says where the saga is: on the way out the commands are those of the steps
  before the current one; on the way back the steps between the current and the failed one are
  settled and the compensations lie between them, later steps first.

**Only model-checked.** Every liveness property: `ScheduledQrResolves`, `PaidReachesPayer`,
`OpenEndsEventually`, `NoMessageStuck`, `PendingEnds`, `EveryMessageSettles`, `OfflineInTheEnd`,
`FreshIsHandled` and `EveryEventArrives` (fairness and ENABLED are out of the prover's reach). And that
three comments are not true of the code, which PresenceTTL, BoardAwards and StreamsRetry show by a
counterexample each.

## 6. Disagreements between code and documentation

Shown by a violation run:

- *BoardAwards* (`tasks.controller.ts:504`). "Award 5 points when a task is moved to done for the
  first time"; the award (508-511) looks at the status the request read and at nothing else, so a
  task that is reopened and done again is paid again, with no request overlapping. What holds is
  `AwardsMatchCompletions`: one award per completion.
- *StreamsRetry* (`redis-streams.service.ts:370`). "Message stays in pending - will be retried or
  claimed"; the loop reads new entries only (357-362), and what its timer claims with
  `claimStuckMessages` is dropped (346-350). An entry whose handler threw reaches no handler again
  although the loops go on for ever. `StreamAccounts` says what holds: it stays pending and is not
  handled twice.
- *PresenceTTL* (`websocket.gateway.ts:28`). "2 minutes — refresh on each ping/pong", and line 121
  "Refresh TTL so an active user never expires"; the handlers of both (254-273) set `lastSeen`
  only. The key expires under a socket that stays connected, and when a second socket of the user
  closes, the user is shown offline. `PresenceTruthful` holds but for this, exits and the removal
  at 116.

Met while modelling. Where a property is affected, it names the case as its exception:

- Payments: two scans of one code are both processed, since the nonce is checked and recorded with
  awaits in between ("Idempotency: reject duplicate nonce", `payments.service.ts:295`); a lazy sync
  filters by `qrId` alone and overwrites a payment with EXPIRED ("Lazily sync stale PENDING", 435;
  also 507 and 554); two overlapping `generateQr` calls leave two active codes, and a cancelled
  code can still be paid when a verification had read it (185). The nonce is the client's and is
  not compared with the QR's (296, 324-332, 362), so after a payment that stopped before its order was
  confirmed, or in an overlap, a call with another nonce records the same QR as paid once more.
- Circuit breaker: "HALF-OPEN: one trial call" (`circuit-breaker.service.ts:123`), while every call
  that comes then is let through; a call admitted while the circuit was closed, or in an earlier
  half-open phase, decides a later one (196).
- `clear` of the backpressure simulation leaves the retry timers armed (`rabbitmq.controller.ts:863`
  describes it as clearing the state). Their messages enter the cleared simulation; the model counts
  them as intruders.
- The outbox evicts rows beyond 100 whatever their status (`outbox.service.ts:152`), and a restart
  empties its tables (76), while `rabbitmq.controller.ts:740` and 749 promise that an outage
  accumulates and then flushes them. `EveryEventArrives` therefore has the condition that no more
  orders exist than the outbox keeps and that there was no fault.
- A scheduled message cancelled while its job runs ends as CANCELLED or SENT, whichever is
  written last (`chat.service.ts:2116` and 2138), and the message is delivered in both cases.
  When a call after the delivery fails it ends as FAILED (2142). A reminder whose notification was
  stored before a call failed (2271) stays PENDING, and is delivered again when an operator has the
  failed jobs run (`bullmq.controller.ts:310`); likewise a scheduled message that could not be
  marked.
- `stopConsuming` of the dead-letter demonstration closes the channel under a running handler,
  whose acknowledgement then goes to the new channel. `NotLost` has the condition that it has not
  hit another delivery there.
- Chat: who leaves a group and joins again through a link gets an error although the membership was
  made, for the second insertion hits the unique index (1868); of two first requests for an invite
  link the earlier token never works (1823); marking an old message as read resets the whole
  count (1271); a sender who leaves between the two membership reads of `sendMessage` still sends
  (972); votes on a poll are written back as the whole list that was read (1995), so one is lost or
  a user has two, against "cannot change vote once voted" (1979).
- Tasks: keys of tasks (`tasks.service.ts:49`) and of projects are chosen from what is there,
  without an index; those of labels (`label.entity.ts:24`) and members are commented out.
- Projects: nothing deletes the cached lists when a call fails after the project was written
  (`projects.service.ts:70` to 84), so they are out of date for their whole time to live.
  `updateProject` and `activateProject` change what the owner's cached list shows
  and do not delete it (`projects.service.ts:266`).
- Sprints: two starts at once both find no active sprint (`sprints.service.ts:215`), and a PUT may
  set any status.
- The repeatable job of fund pools runs every 30 seconds (`fund-pool-executor.worker.ts:58`), while
  its comments say every 10 seconds and every minute. Accounts that are softly deleted can still log
  in.
- Flags: `create` looks for the key as given and inserts the normalised one, so the index refuses
  what the look should have; create, update and delete tell nobody, and of two crossing
  broadcasts the older may come last.
- `getRoomMembers` (`websocket.gateway.ts:635`) knows the sockets of its own instance only.

## 7. What is not modelled

- Of the modelled components: message logs, statistics that are only views, texts, pushes and
  notifications. Of Orders `updateOrderStatus`; of Chat receipts of delivery, search, threads,
  link previews and the assistant; of members what no route calls (transfer of ownership, bulk
  operations); of sprints `updateSprintStatus`, `updateSprintGoal` and `updateSprintDates`, which
  have no caller; of the gateway messages, typing and the custom status; of streams reads without a
  group; of the RabbitMQ client its reports.
- Of the operator's routes of BullMQ, all but `retry-failed`: pausing, draining and cleaning a queue
  and deleting a job by hand are interventions against which no promise of the services is meant to
  hold.
- Task events: one mutation goes out over Redis, NATS, RabbitMQ and WebSocket, each of which may
  fail alone. None keeps a state of its own, so there is nothing for a property to relate.
- The job queue client, the wrappers of Redis, NATS and Pusher, the demonstration workers, the
  database and HTTP layers, health and metrics: a library's correctness or a single call's. What
  the models need of them (delayed jobs, the rerun of a stalled job, unique indexes, delivery
  tags, pending entries) is modelled as external where it is used.
- Milestones, comments, activities, notifications, resumes, uploads and products: one write each
  to a document of its own. The examples and load generators drive the above.
- Authorisation, signatures and cryptography: guards and signature checks are taken as given.
- Infrastructure faults beyond those named: MongoDB and Redis lose nothing they have
  acknowledged, RabbitMQ keeps what it has taken into a durable queue.

## 8. Plan

Done: payments, the messaging services with a state of their own, chat, tasks with their cache,
sprints, projects and members, fund pools, accounts, names, the gateway, flags and streams; and
the proof of every safety property a passing run checks.

Left, in this order:

1. TaskBoard composed with Sprints: closing a sprint leaves its tasks in it, and the lists of a
   sprint that is deleted stay.
2. Receipts of delivery in ChatMessages, and the order of the events a client is pushed.
3. The three tables of members as one module with the transfer of ownership, once a route calls it.
