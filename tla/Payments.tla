------------------------------ MODULE Payments ------------------------------
(***************************************************************************)
(* QR payments of an order: PaymentsService (generate, verify, lazy sync), *)
(* OrdersService.cancelOrder and the PaymentWorker, over one MongoDB, one  *)
(* Redis and one BullMQ queue.                                             *)
(*                                                                         *)
(* Every HTTP request runs in one of the slots Req; a request performs one *)
(* awaited call per step, and between two awaits any other request, the    *)
(* worker, the clock or a fault may step.  Checks that throw without       *)
(* having changed anything are guards.  A QR id is drawn from Qr; OrderOf  *)
(* says which order the ids are generated for.                             *)
(***************************************************************************)
EXTENDS Naturals, FiniteSets

CONSTANTS
  Req,        \* request slots: how many requests can be in flight at once
  Order,      \* orders (each owned by the client that issues its requests)
  Qr,         \* QR ids, hence bounds how many QRs are generated
  OrderOf,    \* the order each QR id is generated for
  Nonce,      \* nonces a verification can carry: the code draws one for each QR,
              \* but takes the one of a verification from its body
  None,       \* an unset local variable of a request
  MaxFaults   \* bound on failed awaits and process crashes

ASSUME PaymentsAssumption ==
  /\ OrderOf \in [Qr -> Order]
  /\ None \notin Qr \cup Order \cup Nonce
  /\ MaxFaults \in Nat

VARIABLES
  \* MongoDB
  order,      \* orders.status
  status,     \* payment_qrs.status, "none" before the document exists
  \* Redis
  keys,       \* the ids q whose payment:qr:q key is present
  used,       \* the nonces that have a payment:used key
  \* BullMQ
  expiry,     \* the expire-qr job of each QR
  finalize,   \* how many finalize-payment jobs of each QR are queued
  \* the clock: the QRs with now > expiresAt
  past,
  \* WebSocket: the QRs whose payer was told payment:confirmed
  told,
  \* the requests in flight: the awaited call each makes next and its locals
  req,
  \* history
  shown,      \* QRs whose image could have reached a payer
  everUsed,   \* <<n, q>>: nonce n was recorded by a verification of QR q
  overlapped, \* orders that had two requests in flight at once
  paidEver,   \* QRs ever written PAID
  faults

rows    == <<order, status>>
redis   == <<keys, used>>
jobs    == <<expiry, finalize>>
outside == <<past, told>>
history == <<shown, everUsed, overlapped, paidEver>>
vars    == <<rows, redis, jobs, outside, req, history, faults>>

OrderStatus == {"pending", "confirmed", "cancelled"}
PaymentQrStatus == {"pending", "paid", "expired", "cancelled"}

GenPc    == {"genFind", "genDrop", "genCancel", "genCreate", "genCache", "genSchedule"}
PayingPc == {"verNonce", "verPaid", "verDrop", "verConfirm", "verNotify"}
VerPc    == {"verGet", "verMiss", "verMissExpire", "verExpire", "verExpireDrop",
             "verOrder"} \cup PayingPc
Pc       == {"idle", "syncExpire", "cancelWrite"} \cup GenPc \cup VerPc

\* order, qr, nonce, stale: the local variables orderId, qrId, dto.nonce, staleIds.
\* late (history): the call began after its nonce was recorded for its QR, or
\* after its order was settled.
Request == [pc: Pc, order: Order \cup {None}, qr: Qr \cup {None},
            nonce: Nonce \cup {None}, stale: SUBSET Qr, late: BOOLEAN]
Idle == [pc |-> "idle", order |-> None, qr |-> None, nonce |-> None, stale |-> {},
         late |-> FALSE]

Init ==
  /\ order = [o \in Order |-> "pending"]
  /\ status = [q \in Qr |-> "none"]
  /\ keys = {} /\ used = {}
  /\ expiry = [q \in Qr |-> "none"]
  /\ finalize = [q \in Qr |-> 0]
  /\ past = {} /\ told = {}
  /\ req = [r \in Req |-> Idle]
  /\ shown = {} /\ everUsed = {} /\ overlapped = {} /\ paidEver = {}
  /\ faults = 0

At(r, l)   == req[r].pc = l
Goto(r, l) == req' = [req EXCEPT ![r].pc = l]
Return(r)  == req' = [req EXCEPT ![r] = Idle]

\* The order a request in flight is about.
OrderIn(r) == IF req[r].pc \in GenPc \cup {"cancelWrite"} THEN req[r].order ELSE OrderOf[req[r].qr]

\* History: a request for order o begins.
Begins(o) ==
  overlapped' = IF \E r \in Req : ~At(r, "idle") /\ OrderIn(r) = o
                THEN overlapped \cup {o} ELSE overlapped

SetStatus(Q, s) == status' = [q \in Qr |-> IF q \in Q THEN s ELSE status[q]]

-----------------------------------------------------------------------------
(* generateQr: load the order, retire its stale QRs, create a new one.     *)

\* The order is loaded and must be PENDING.
GenLoad(r, o) ==
  /\ At(r, "idle") /\ order[o] = "pending"
  /\ req' = [req EXCEPT ![r].pc = "genFind", ![r].order = o]
  /\ Begins(o)
  /\ UNCHANGED <<rows, redis, jobs, outside, shown, everUsed, paidEver, faults>>

\* staleQrs: the PENDING QRs of the order at this moment.
GenFind(r) ==
  LET found == {q \in Qr : OrderOf[q] = req[r].order /\ status[q] = "pending"} IN
  /\ At(r, "genFind")
  /\ req' = [req EXCEPT ![r].stale = found,
                       ![r].pc = IF found = {} THEN "genCreate" ELSE "genDrop"]
  /\ UNCHANGED <<rows, redis, jobs, outside, history, faults>>

\* Mutant: the stale keys stay.
GenDropNothing(r) ==
  /\ At(r, "genDrop") /\ Goto(r, "genCancel")
  /\ UNCHANGED <<rows, redis, jobs, outside, history, faults>>

\* redis.del of every stale key (one connection, no reader of two keys).
GenDrop(r) ==
  /\ At(r, "genDrop")
  /\ keys' = keys \ req[r].stale
  /\ Goto(r, "genCancel")
  /\ UNCHANGED <<rows, used, jobs, outside, history, faults>>

\* Mutant: the stale rows stay PENDING.
GenCancelNothing(r) ==
  /\ At(r, "genCancel") /\ Goto(r, "genCreate")
  /\ UNCHANGED <<rows, redis, jobs, outside, history, faults>>

\* updateMany by id: whatever status the stale rows have by now.
GenCancel(r) ==
  /\ At(r, "genCancel")
  /\ SetStatus(req[r].stale, "cancelled")
  /\ Goto(r, "genCreate")
  /\ UNCHANGED <<order, redis, jobs, outside, history, faults>>

\* qrModel.create with a fresh id.
GenCreate(r, q) ==
  /\ At(r, "genCreate")
  /\ status[q] = "none" /\ OrderOf[q] = req[r].order
  /\ SetStatus({q}, "pending")
  /\ req' = [req EXCEPT ![r].pc = "genCache", ![r].qr = q]
  /\ UNCHANGED <<order, redis, jobs, outside, history, faults>>

\* redis.setex: from now on the signed payload can be rendered and scanned.
GenCache(r) ==
  /\ At(r, "genCache")
  /\ keys' = keys \cup {req[r].qr}
  /\ shown' = shown \cup {req[r].qr}
  /\ Goto(r, "genSchedule")
  /\ UNCHANGED <<rows, used, jobs, outside, everUsed, overlapped, paidEver, faults>>

\* The delayed expire-qr job.
GenSchedule(r) ==
  /\ At(r, "genSchedule")
  /\ expiry' = [expiry EXCEPT ![req[r].qr] = "delayed"]
  /\ Return(r)
  /\ UNCHANGED <<rows, redis, finalize, outside, history, faults>>

Generate(r) ==
  \/ \E o \in Order : GenLoad(r, o)
  \/ GenFind(r) \/ GenDrop(r) \/ GenCancel(r)
  \/ \E q \in Qr : GenCreate(r, q)
  \/ GenCache(r) \/ GenSchedule(r)

-----------------------------------------------------------------------------
(* verifyAndProcess: the gateway reports a scan of q.  It is to echo the    *)
(* nonce of the QR; nothing compares the two, so any nonce may come.        *)

\* Mutant: no nonce check.
VerStartUnchecked(r, q, n) ==
  /\ At(r, "idle") /\ q \in shown
  /\ req' = [req EXCEPT ![r].pc = "verGet", ![r].qr = q, ![r].nonce = n,
                       ![r].late = <<n, q>> \in everUsed \/ order[OrderOf[q]] # "pending"]
  /\ Begins(OrderOf[q])
  /\ UNCHANGED <<rows, redis, jobs, outside, shown, everUsed, paidEver, faults>>

\* 1. redis.exists of dto.nonce.  "late" remembers that this nonce had already
\*    been through step 7 with this QR, or the order was settled, when the call
\*    arrived.
VerStart(r, q, n) ==
  /\ At(r, "idle") /\ q \in shown /\ n \notin used
  /\ req' = [req EXCEPT ![r].pc = "verGet", ![r].qr = q, ![r].nonce = n,
                       ![r].late = <<n, q>> \in everUsed \/ order[OrderOf[q]] # "pending"]
  /\ Begins(OrderOf[q])
  /\ UNCHANGED <<rows, redis, jobs, outside, shown, everUsed, paidEver, faults>>

\* 2.-5. redis.get, then signature, clock and amount without an await; a
\*    signature or amount mismatch throws and changes nothing.
VerGet(r) ==
  /\ At(r, "verGet")
  /\ \/ req[r].qr \notin keys /\ Goto(r, "verMiss")
     \/ req[r].qr \in keys /\ Return(r)
     \/ req[r].qr \in keys /\ req[r].qr \in past /\ Goto(r, "verExpire")
     \/ req[r].qr \in keys /\ req[r].qr \notin past /\ Goto(r, "verOrder")
  /\ UNCHANGED <<rows, redis, jobs, outside, history, faults>>

\* The DB lookup on a cache miss.
VerMiss(r) ==
  /\ At(r, "verMiss")
  /\ \/ status[req[r].qr] = "pending" /\ Goto(r, "verMissExpire")
     \/ status[req[r].qr] # "pending" /\ Return(r)
  /\ UNCHANGED <<rows, redis, jobs, outside, history, faults>>

\* updateOne({qrId}) to EXPIRED, whatever the status is by now.
VerMissExpire(r) ==
  /\ At(r, "verMissExpire")
  /\ SetStatus({req[r].qr}, "expired")
  /\ Return(r)
  /\ UNCHANGED <<order, redis, jobs, outside, history, faults>>

\* expireQr: the row, then the key.
VerExpire(r) ==
  /\ At(r, "verExpire")
  /\ SetStatus({req[r].qr}, "expired")
  /\ Goto(r, "verExpireDrop")
  /\ UNCHANGED <<order, redis, jobs, outside, history, faults>>

VerExpireDrop(r) ==
  /\ At(r, "verExpireDrop")
  /\ keys' = keys \ {req[r].qr}
  /\ Return(r)
  /\ UNCHANGED <<rows, used, jobs, outside, history, faults>>

\* 6. The order must still be PENDING.
VerOrder(r) ==
  /\ At(r, "verOrder")
  /\ \/ order[OrderOf[req[r].qr]] = "pending" /\ Goto(r, "verNonce")
     \/ order[OrderOf[req[r].qr]] # "pending" /\ Return(r)
  /\ UNCHANGED <<rows, redis, jobs, outside, history, faults>>

\* 7. setex of the used nonce.
VerNonce(r) ==
  /\ At(r, "verNonce")
  /\ used' = used \cup {req[r].nonce}
  /\ everUsed' = everUsed \cup {<<req[r].nonce, req[r].qr>>}
  /\ Goto(r, "verPaid")
  /\ UNCHANGED <<rows, keys, jobs, outside, shown, overlapped, paidEver, faults>>

\* 8. PAID in the DB, then the key.
VerPaid(r) ==
  /\ At(r, "verPaid")
  /\ SetStatus({req[r].qr}, "paid")
  /\ paidEver' = paidEver \cup {req[r].qr}
  /\ Goto(r, "verDrop")
  /\ UNCHANGED <<order, redis, jobs, outside, shown, everUsed, overlapped, faults>>

VerDrop(r) ==
  /\ At(r, "verDrop")
  /\ keys' = keys \ {req[r].qr}
  /\ Goto(r, "verConfirm")
  /\ UNCHANGED <<rows, used, jobs, outside, history, faults>>

\* Mutant: the finalize-payment job is forgotten.
VerConfirmSilent(r) ==
  /\ At(r, "verConfirm")
  /\ order' = [order EXCEPT ![OrderOf[req[r].qr]] = "confirmed"]
  /\ Return(r)
  /\ UNCHANGED <<status, redis, jobs, outside, history, faults>>

\* 9. The order is CONFIRMED, whatever its status is by now.
VerConfirm(r) ==
  /\ At(r, "verConfirm")
  /\ order' = [order EXCEPT ![OrderOf[req[r].qr]] = "confirmed"]
  /\ Goto(r, "verNotify")
  /\ UNCHANGED <<status, redis, jobs, outside, history, faults>>

\* 10. The finalize-payment job.
VerNotify(r) ==
  /\ At(r, "verNotify")
  /\ finalize' = [finalize EXCEPT ![req[r].qr] = @ + 1]
  /\ Return(r)
  /\ UNCHANGED <<rows, redis, expiry, outside, history, faults>>

Verify(r) ==
  \/ \E q \in Qr, n \in Nonce : VerStart(r, q, n)
  \/ VerGet(r) \/ VerMiss(r) \/ VerMissExpire(r) \/ VerExpire(r) \/ VerExpireDrop(r)
  \/ VerOrder(r) \/ VerNonce(r) \/ VerPaid(r) \/ VerDrop(r) \/ VerConfirm(r)
  \/ VerNotify(r)

-----------------------------------------------------------------------------
(* Lazy sync of getQrById, getActiveQrForOrder and getQrStatus: read a     *)
(* PENDING row whose time is over, then update it by id alone.             *)
SyncRead(r, q) ==
  /\ At(r, "idle") /\ status[q] = "pending" /\ q \in past
  /\ req' = [req EXCEPT ![r].pc = "syncExpire", ![r].qr = q]
  /\ Begins(OrderOf[q])
  /\ UNCHANGED <<rows, redis, jobs, outside, shown, everUsed, paidEver, faults>>

SyncExpire(r) ==
  /\ At(r, "syncExpire")
  /\ SetStatus({req[r].qr}, "expired")
  /\ Return(r)
  /\ UNCHANGED <<order, redis, jobs, outside, history, faults>>

\* getQrHistory: one conditional update per document.
HistorySync(q) ==
  /\ status[q] = "pending" /\ q \in past
  /\ SetStatus({q}, "expired")
  /\ UNCHANGED <<order, redis, jobs, outside, history, req, faults>>

\* OrdersService.cancelOrder: read and check, then update by id.
CancelRead(r, o) ==
  /\ At(r, "idle") /\ order[o] \in {"pending", "confirmed"}
  /\ req' = [req EXCEPT ![r].pc = "cancelWrite", ![r].order = o]
  /\ Begins(o)
  /\ UNCHANGED <<rows, redis, jobs, outside, shown, everUsed, paidEver, faults>>

CancelWrite(r) ==
  /\ At(r, "cancelWrite")
  /\ order' = [order EXCEPT ![req[r].order] = "cancelled"]
  /\ Return(r)
  /\ UNCHANGED <<status, redis, jobs, outside, history, faults>>

RequestStep(r) ==
  \/ Generate(r) \/ Verify(r)
  \/ \E q \in Qr : SyncRead(r, q)
  \/ SyncExpire(r)
  \/ \E o \in Order : CancelRead(r, o)
  \/ CancelWrite(r)

-----------------------------------------------------------------------------
(* PaymentWorker.                                                          *)

\* Mutants: no status condition; and the condition the wrong way round.
ExpireJobAny(q) ==
  /\ expiry[q] \in {"delayed", "retrying"} /\ q \in past
  /\ SetStatus({q}, "expired")
  /\ expiry' = [expiry EXCEPT ![q] = "notify"]
  /\ UNCHANGED <<order, redis, finalize, outside, history, req, faults>>

ExpireJobInverted(q) ==
  /\ expiry[q] \in {"delayed", "retrying"} /\ q \in past
  /\ expiry' = [expiry EXCEPT ![q] = IF status[q] = "pending" THEN "skipped" ELSE "notify"]
  /\ UNCHANGED <<rows, redis, finalize, outside, history, req, faults>>

\* handleQrExpired: conditional on PENDING; skipped if nothing was modified.
ExpireJob(q) ==
  /\ expiry[q] \in {"delayed", "retrying"} /\ q \in past
  /\ \/ /\ status[q] = "pending"
        /\ SetStatus({q}, "expired")
        /\ expiry' = [expiry EXCEPT ![q] = "notify"]
     \/ /\ status[q] # "pending"
        /\ expiry' = [expiry EXCEPT ![q] = "skipped"]
        /\ UNCHANGED status
  /\ UNCHANGED <<order, redis, finalize, outside, history, req, faults>>

\* Mutant: the wrong event is broadcast.
ExpireBroadcastConfirmed(q) ==
  /\ expiry[q] = "notify"
  /\ expiry' = [expiry EXCEPT ![q] = "told"]
  /\ told' = told \cup {q}
  /\ UNCHANGED <<rows, redis, finalize, past, history, req, faults>>

\* ... and the payment:expired broadcasts that follow the await.
ExpireBroadcast(q) ==
  /\ expiry[q] = "notify"
  /\ expiry' = [expiry EXCEPT ![q] = "told"]
  /\ UNCHANGED <<rows, redis, finalize, outside, history, req, faults>>

\* Mutant: the job is not completed and runs again.
FinalizeJobAgain(q) ==
  /\ finalize[q] > 0
  /\ told' = told \cup {q}
  /\ UNCHANGED <<rows, redis, jobs, past, history, req, faults>>

\* handlePaymentConfirmed: synchronous broadcasts.
FinalizeJob(q) ==
  /\ finalize[q] > 0
  /\ finalize' = [finalize EXCEPT ![q] = @ - 1]
  /\ told' = told \cup {q}
  /\ UNCHANGED <<rows, redis, expiry, past, history, req, faults>>

-----------------------------------------------------------------------------
(* Clock, Redis expiry and faults.                                         *)

Elapse(q) ==
  /\ status[q] # "none" /\ q \notin past
  /\ past' = past \cup {q}
  /\ UNCHANGED <<rows, redis, jobs, told, history, req, faults>>

\* A key set QR_TTL_SECONDS ago or more: never before expiresAt.
KeyExpires(q) ==
  /\ q \in keys /\ q \in past
  /\ keys' = keys \ {q}
  /\ UNCHANGED <<rows, used, jobs, outside, history, req, faults>>

\* A nonce is set, or set again, later than the keys of the QRs it is recorded
\* for, and for as long, so it goes after them.
NonceExpires(n) ==
  /\ n \in used /\ \A q \in Qr : <<n, q>> \in everUsed => q \in past \ keys
  /\ used' = used \ {n}
  /\ UNCHANGED <<rows, keys, jobs, outside, history, req, faults>>

\* An awaited call rejects: the handler throws, nothing is undone.
Fail(r) ==
  /\ faults < MaxFaults /\ ~At(r, "idle")
  /\ Return(r)
  /\ faults' = faults + 1
  /\ UNCHANGED <<rows, redis, jobs, outside, history>>

\* The update of an expire-qr job rejects: one more attempt, then it is given up.
ExpireFails(q) ==
  /\ faults < MaxFaults
  /\ expiry[q] \in {"delayed", "retrying"} /\ q \in past
  /\ expiry' = [expiry EXCEPT ![q] = IF @ = "delayed" THEN "retrying" ELSE "failed"]
  /\ faults' = faults + 1
  /\ UNCHANGED <<rows, redis, finalize, outside, history, req>>

\* The Node process dies: requests are gone, an active job is redelivered.
Crash ==
  /\ faults < MaxFaults
  /\ req' = [r \in Req |-> Idle]
  /\ expiry' = [q \in Qr |-> IF expiry[q] = "notify" THEN "delayed" ELSE expiry[q]]
  /\ faults' = faults + 1
  /\ UNCHANGED <<rows, redis, finalize, outside, history>>

Next ==
  \/ \E r \in Req : RequestStep(r) \/ Fail(r)
  \/ \E q \in Qr : \/ HistorySync(q) \/ ExpireJob(q) \/ ExpireBroadcast(q) \/ FinalizeJob(q)
                   \/ Elapse(q) \/ KeyExpires(q) \/ ExpireFails(q)
  \/ \E n \in Nonce : NonceExpires(n)
  \/ Crash

Spec == Init /\ [][Next]_vars

\* Steps the running process takes on its own: a started request goes on
\* (starting one is up to the clients), the worker drains its queue, time passes.
Continue(r) == ~At(r, "idle") /\ RequestStep(r)
Fairness ==
  /\ \A r \in Req : WF_vars(Continue(r))
  /\ \A q \in Qr : /\ WF_vars(Elapse(q)) /\ WF_vars(ExpireJob(q))
                   /\ WF_vars(ExpireBroadcast(q)) /\ WF_vars(FinalizeJob(q))
FairSpec == Spec /\ Fairness

-----------------------------------------------------------------------------
(* Properties.                                                             *)

\* The shape of every row, key, job and request.
TypeOK ==
  /\ order \in [Order -> OrderStatus]
  /\ status \in [Qr -> PaymentQrStatus \cup {"none"}]
  /\ keys \subseteq Qr /\ used \subseteq Nonce
  /\ expiry \in [Qr -> {"none", "delayed", "retrying", "notify", "told", "skipped", "failed"}]
  /\ finalize \in [Qr -> Nat]
  /\ past \subseteq Qr /\ told \subseteq Qr
  /\ req \in [Req -> Request]
  /\ shown \subseteq Qr /\ everUsed \subseteq Nonce \X Qr /\ paidEver \subseteq Qr
  /\ overlapped \subseteq Order
  /\ faults \in 0..MaxFaults

\* An order is CONFIRMED only after one of its own QRs was written PAID:
\* steps 8 and 9 of verifyAndProcess, with every other request in between.
ConfirmedWasPaid ==
  \A o \in Order : order[o] = "confirmed" => \E q \in paidEver : OrderOf[q] = o

\* Idempotency (steps 1, 4 and 6): a verification that begins after its nonce
\* was recorded for its QR, or after the order left PENDING, never gets as far
\* as recording a payment, even once the nonce key has expired and even when the
\* first one failed half way.  (A call with another nonce, while the order is
\* PENDING, may record the payment of the same QR again.)
LateVerificationRejected == \A r \in Req : req[r].late => req[r].pc \notin PayingPc

\* Nobody is told payment:confirmed for a QR that was not paid or while its
\* order is still PENDING.
ToldAfterConfirmation ==
  \A q \in Qr : q \in told \/ finalize[q] > 0 =>
    q \in paidEver /\ order[OrderOf[q]] # "pending"

\* The rows, payments and notifications follow the abstract ledger: each step
\* of a request, the worker or a fault is a ledger step or leaves it alone.
Ledger == INSTANCE PaymentLedger WITH paid <- paidEver
LedgerSpec == Ledger!Spec

\* The order of q never had two requests in flight at once.
OneByOne(q) == OrderOf[q] \notin overlapped

\* "only one active QR per order is allowed at a time" (generateQr, step 2).
OneActiveQr ==
  \A p, q \in Qr :
    OneByOne(q) /\ status[p] = "pending" /\ status[q] = "pending" /\ OrderOf[p] = OrderOf[q]
      => p = q

\* "Old Redis keys are deleted so they cannot be used to pay": a QR that was
\* marked CANCELLED is never written PAID.
CancelledQrNeverPaid ==
  [][\A q \in Qr : OneByOne(q) /\ status[q] = "cancelled" => status'[q] # "paid"]_status

\* A verification of q finds it expired whose nonce was never recorded for q.
ExpiresUnderNewNonce(q) ==
  \E r \in Req : At(r, "verExpire") /\ req[r].qr = q /\ <<req[r].nonce, q>> \notin everUsed

\* "Lazily sync stale PENDING -> EXPIRED": only a PENDING row becomes EXPIRED, so
\* a recorded payment is not lost.  The exception: a verification stopped between
\* PAID and the deletion of the key, and a second one came too late with another
\* nonce.
OnlyPendingExpires ==
  [][\A q \in Qr : OneByOne(q) /\ status'[q] = "expired" =>
       \/ status[q] \in {"pending", "expired"}
       \/ status[q] = "paid" /\ ExpiresUnderNewNonce(q)]_status

\* At most one finalize-payment job exists for a QR, and none after its payer
\* was told, also when a payment recorded half way is recorded again.
PaidOnce ==
  \A q \in Qr : OneByOne(q) => finalize[q] <= 1 /\ (q \in told => finalize[q] = 0)

\* The four of them, of an order whose requests come one at a time, while those
\* of other orders, the worker, the clock and the faults run beside them: what
\* the comments of the service promise.
SerialPromises ==
  [][OneActiveQr' /\ PaidOnce']_vars /\ CancelledQrNeverPaid /\ OnlyPendingExpires

\* A QR whose expire-qr job was queued does not stay PENDING, crash or not,
\* unless both attempts of the job failed.
ScheduledQrResolves ==
  \A q \in Qr : expiry[q] = "delayed" /\ status[q] = "pending" ~>
                 status[q] # "pending" \/ expiry[q] = "failed"

\* A recorded payment reaches the payer, across the request and the worker,
\* unless something failed.
PaidReachesPayer == \A q \in Qr : status[q] = "paid" ~> q \in told \/ faults > 0
=============================================================================
