--------------------------- MODULE PaymentsProofs ---------------------------
(***************************************************************************)
(* Theorems about Payments, for any number of requests, orders and QRs and *)
(* any number of faults: type correctness, ConfirmedWasPaid,               *)
(* LateVerificationRejected, ToldAfterConfirmation, that Payments          *)
(* implements PaymentLedger, and SerialPromises for every order whose      *)
(* requests come one at a time (SerialInv, the last part).                 *)
(*                                                                         *)
(* None of the three is inductive.  What a request may do next depends on  *)
(* what it has done already, so the invariant says, for every request in   *)
(* flight, what its program counter implies about its locals (LocalsOK),   *)
(* about the payment it is recording (PayingOK) and about a call that came *)
(* too late (LateOK); it adds that a nonce key disappears only after the   *)
(* QR has expired (NonceOutlives), without which an old nonce could be     *)
(* replayed on a QR that still passes the clock check.                     *)
(***************************************************************************)
EXTENDS Payments, TLAPS

LocalsOK(r) ==
  /\ req[r].pc = "idle" => req[r] = Idle
  /\ req[r].pc \in GenPc \cup {"cancelWrite"} => req[r].order \in Order
  /\ req[r].pc \in VerPc \cup {"genCache", "genSchedule", "syncExpire"} => req[r].qr \in Qr
  /\ req[r].pc \in VerPc => req[r].nonce \in Nonce
  /\ req[r].pc \in GenPc => \A q \in req[r].stale : OrderOf[q] = req[r].order
  /\ req[r].pc \in {"genCache", "genSchedule"} => OrderOf[req[r].qr] = req[r].order

PayingOK(r) ==
  /\ req[r].pc \in {"verDrop", "verConfirm", "verNotify"} => req[r].qr \in paidEver
  /\ req[r].pc = "verNotify" => order[OrderOf[req[r].qr]] # "pending"

LateOK(r) ==
  req[r].late =>
    /\ req[r].pc \in VerPc \ PayingPc
    /\ req[r].pc = "verGet" => req[r].qr \in past \/ order[OrderOf[req[r].qr]] # "pending"
    /\ req[r].pc = "verOrder" => order[OrderOf[req[r].qr]] # "pending"

RequestOK(r) == LocalsOK(r) /\ PayingOK(r) /\ LateOK(r)

NonceOutlives == \A n \in Nonce, q \in Qr : <<n, q>> \in everUsed => n \in used \/ q \in past

IInv ==
  /\ TypeOK
  /\ \A r \in Req : RequestOK(r)
  /\ ConfirmedWasPaid /\ ToldAfterConfirmation /\ NonceOutlives

-----------------------------------------------------------------------------
(* What every step does to the shared state, whichever request takes it.   *)

\* The few steps that write an order, a payment, the clock, a notification or a nonce.
Writers ==
  /\ UNCHANGED order \/ (\E r \in Req : VerConfirm(r) \/ CancelWrite(r))
  /\ UNCHANGED paidEver \/ (\E r \in Req : VerPaid(r))
  /\ UNCHANGED past \/ (\E q \in Qr : Elapse(q))
  /\ \/ UNCHANGED <<told, finalize>>
     \/ \E r \in Req : VerNotify(r)
     \/ \E q \in Qr : FinalizeJob(q)
  /\ \/ UNCHANGED <<used, everUsed>>
     \/ \E r \in Req : VerNonce(r)
     \/ \E n \in Nonce : NonceExpires(n)

LEMMA OnlyWriters == [Next]_vars => Writers
  <1> SUFFICES ASSUME [Next]_vars PROVE Writers
    OBVIOUS
  <1> USE DEF rows, redis, jobs, outside, history
  <1>1. CASE UNCHANGED <<order, paidEver, past, told, finalize, used, everUsed>>
    BY <1>1 DEF Writers
  <1>2. ASSUME NEW r \in Req, Generate(r) PROVE Writers
    BY <1>1, <1>2 DEF Generate, GenLoad, GenFind, GenDrop, GenCancel, GenCreate, GenCache, GenSchedule
  <1>3. ASSUME NEW r \in Req, Verify(r) PROVE Writers
    <2>1. CASE VerNonce(r)
      BY <1>3, <2>1 DEF VerNonce, Writers
    <2>2. CASE VerPaid(r)
      BY <1>3, <2>2 DEF VerPaid, Writers
    <2>3. CASE VerConfirm(r)
      BY <1>3, <2>3 DEF VerConfirm, Writers
    <2>4. CASE VerNotify(r)
      BY <1>3, <2>4 DEF VerNotify, Writers
    <2> QED
      BY <1>1, <1>3, <2>1, <2>2, <2>3, <2>4
      DEF Verify, VerStart, VerGet, VerMiss, VerMissExpire, VerExpire, VerExpireDrop, VerOrder, VerDrop
  <1>4. ASSUME NEW r \in Req, CancelWrite(r) PROVE Writers
    BY <1>4 DEF CancelWrite, Writers
  <1>5. ASSUME NEW r \in Req, RequestStep(r) \/ Fail(r) PROVE Writers
    BY <1>1, <1>2, <1>3, <1>4, <1>5 DEF RequestStep, SyncRead, SyncExpire, CancelRead, Fail
  <1>6. ASSUME NEW q \in Qr, Elapse(q) \/ FinalizeJob(q) PROVE Writers
    BY <1>6 DEF Elapse, FinalizeJob, Writers
  <1>9. ASSUME NEW n \in Nonce, NonceExpires(n) PROVE Writers
    BY <1>9 DEF NonceExpires, Writers
  <1>7. ASSUME NEW q \in Qr, HistorySync(q) \/ ExpireJob(q) \/ ExpireBroadcast(q) \/ KeyExpires(q)
                              \/ ExpireFails(q)
        PROVE  Writers
    BY <1>1, <1>7 DEF HistorySync, ExpireJob, ExpireBroadcast, KeyExpires, ExpireFails
  <1>8. CASE Crash \/ UNCHANGED vars
    BY <1>1, <1>8 DEF Crash, vars
  <1> QED BY <1>5, <1>6, <1>7, <1>8, <1>9 DEF Next

\* The writes of an order, a QR and the clock go one way only: no code puts an
\* order back to PENDING, and what was paid or has expired stays so.
Forward ==
  /\ \A o \in Order : order[o] # "pending" => order'[o] # "pending"
  /\ paidEver \subseteq paidEver' /\ past \subseteq past'

LEMMA StepsForward == TypeOK /\ [Next]_vars => Forward
  <1> SUFFICES ASSUME TypeOK, [Next]_vars PROVE Forward
    OBVIOUS
  <1>1. ASSUME NEW r \in Req, VerPaid(r) PROVE Forward
    BY <1>1 DEF VerPaid, rows, redis, jobs, outside, Forward
  <1>2. ASSUME NEW r \in Req, VerConfirm(r) PROVE Forward
    BY <1>2 DEF VerConfirm, TypeOK, redis, jobs, outside, history, Forward
  <1>3. ASSUME NEW r \in Req, CancelWrite(r) PROVE Forward
    BY <1>3 DEF CancelWrite, TypeOK, redis, jobs, outside, history, Forward
  <1>4. ASSUME NEW q \in Qr, Elapse(q) PROVE Forward
    BY <1>4 DEF Elapse, rows, history, Forward
  <1>5. CASE UNCHANGED <<order, past, paidEver>>
    BY <1>5 DEF Forward
  <1> QED BY <1>1, <1>2, <1>3, <1>4, <1>5, OnlyWriters DEF Writers

\* A request that does not move keeps its part of the invariant.
LEMMA Frame ==
  ASSUME TypeOK, Forward, NEW r \in Req, RequestOK(r), req'[r] = req[r]
  PROVE  RequestOK(r)'
  <1>1. LocalsOK(r)'
    BY DEF RequestOK, LocalsOK
  <1>2. req[r].qr \in Qr => OrderOf[req[r].qr] \in Order
    BY PaymentsAssumption
  <1>3. PayingOK(r)'
    BY <1>2 DEF RequestOK, LocalsOK, PayingOK, Forward, VerPc, PayingPc
  <1>4. LateOK(r)'
    BY <1>2 DEF RequestOK, LocalsOK, LateOK, Forward, VerPc
  <1> QED BY <1>1, <1>3, <1>4 DEF RequestOK

\* An idle slot satisfies every per-request condition.
LEMMA IdleOK ==
  ASSUME NEW r \in Req, req'[r] = Idle
  PROVE  RequestOK(r)'
  <1>1. req'[r].pc = "idle" /\ ~req'[r].late
    BY DEF Idle
  <1>2. LocalsOK(r)'
    BY <1>1 DEF LocalsOK, GenPc, VerPc, PayingPc
  <1>3. PayingOK(r)' /\ LateOK(r)'
    BY <1>1 DEF PayingOK, LateOK
  <1> QED BY <1>2, <1>3 DEF RequestOK

-----------------------------------------------------------------------------
LEMMA InitIInv == Init => IInv
  <1> SUFFICES ASSUME Init PROVE IInv
    OBVIOUS
  <1>1. Idle \in Request
    BY DEF Idle, Request, Pc
  <1>2. TypeOK
    BY <1>1, PaymentsAssumption DEF Init, TypeOK, OrderStatus, PaymentQrStatus
  <1>3. ASSUME NEW r \in Req PROVE RequestOK(r)
    <2>1. req[r] = Idle
      BY DEF Init
    <2> QED
      BY <2>1 DEF Idle, RequestOK, LocalsOK, PayingOK, LateOK, GenPc, VerPc, PayingPc
  <1>4. ConfirmedWasPaid /\ ToldAfterConfirmation /\ NonceOutlives
    BY PaymentsAssumption DEF Init, ConfirmedWasPaid, ToldAfterConfirmation, NonceOutlives
  <1> QED BY <1>2, <1>3, <1>4 DEF IInv

-----------------------------------------------------------------------------
(* Types.  A step of a request moves its record within Request and writes  *)
(* one shared field.                                                       *)

\* Goto, Return and the writes of locals keep a request in Request.
LEMMA RequestTyped == IInv /\ [Next]_vars => req' \in [Req -> Request]
  <1> SUFFICES ASSUME IInv, [Next]_vars PROVE req' \in [Req -> Request]
    OBVIOUS
  <1>a. req \in [Req -> Request] /\ Idle \in Request
    BY DEF IInv, TypeOK, Idle, Request, Pc
  <1>b. ASSUME NEW r \in Req, NEW l \in Pc, Goto(r, l) PROVE req' \in [Req -> Request]
    BY <1>a, <1>b DEF Goto, Request
  <1>c. ASSUME NEW r \in Req, Return(r) PROVE req' \in [Req -> Request]
    BY <1>a, <1>c DEF Return
  <1>d. Pc = {"idle", "syncExpire", "cancelWrite", "genFind", "genDrop", "genCancel",
              "genCreate", "genCache", "genSchedule", "verGet", "verMiss",
              "verMissExpire", "verExpire", "verExpireDrop", "verOrder", "verNonce",
              "verPaid", "verDrop", "verConfirm", "verNotify"}
    BY DEF Pc, GenPc, VerPc, PayingPc
  <1>e. ASSUME NEW r \in Req, NEW l \in Pc, NEW o \in Order,
               req' = [req EXCEPT ![r].pc = l, ![r].order = o]
        PROVE  req' \in [Req -> Request]
    <2>1. [req[r] EXCEPT !.pc = l, !.order = o] \in Request
      <3>1. req[r] \in Request
        BY <1>a
      <3> QED BY <3>1 DEF Request
    <2>2. req' = [req EXCEPT ![r] = [req[r] EXCEPT !.pc = l, !.order = o]]
      BY <1>a, <1>e
    <2> QED BY <1>a, <2>1, <2>2
  <1>f. ASSUME NEW r \in Req, NEW l \in Pc, NEW q \in Qr,
               req' = [req EXCEPT ![r].pc = l, ![r].qr = q]
        PROVE  req' \in [Req -> Request]
    <2>1. [req[r] EXCEPT !.pc = l, !.qr = q] \in Request
      <3>1. req[r] \in Request
        BY <1>a
      <3> QED BY <3>1 DEF Request
    <2>2. req' = [req EXCEPT ![r] = [req[r] EXCEPT !.pc = l, !.qr = q]]
      BY <1>a, <1>f
    <2> QED BY <1>a, <2>1, <2>2
  <1>1. ASSUME NEW r \in Req, NEW o \in Order, GenLoad(r, o) PROVE req' \in [Req -> Request]
    BY <1>d, <1>e, <1>1 DEF GenLoad
  <1>2. ASSUME NEW r \in Req, GenFind(r) PROVE req' \in [Req -> Request]
    <2> DEFINE found == {q \in Qr : OrderOf[q] = req[r].order /\ status[q] = "pending"}
               next == IF found = {} THEN "genCreate" ELSE "genDrop"
    <2>1. found \in SUBSET Qr /\ next \in Pc
      BY <1>d
    <2>2. req' = [req EXCEPT ![r].stale = found, ![r].pc = next]
      BY <1>2 DEF GenFind
    <2> HIDE DEF found, next
    <2>3. [req[r] EXCEPT !.stale = found, !.pc = next] \in Request
      <3>1. req[r] \in Request
        BY <1>a
      <3> QED BY <2>1, <3>1 DEF Request
    <2>4. req' = [req EXCEPT ![r] = [req[r] EXCEPT !.stale = found, !.pc = next]]
      BY <1>a, <2>2
    <2> QED BY <1>a, <2>3, <2>4
  <1>3. ASSUME NEW r \in Req, NEW q \in Qr, GenCreate(r, q) PROVE req' \in [Req -> Request]
    BY <1>d, <1>f, <1>3 DEF GenCreate
  <1>4. ASSUME NEW r \in Req, NEW q \in Qr, NEW n \in Nonce, VerStart(r, q, n)
        PROVE  req' \in [Req -> Request]
    <2> DEFINE late == <<n, q>> \in everUsed \/ order[OrderOf[q]] # "pending"
    <2>1. late \in BOOLEAN
      OBVIOUS
    <2>2. req' = [req EXCEPT ![r].pc = "verGet", ![r].qr = q, ![r].nonce = n, ![r].late = late]
      BY <1>4 DEF VerStart
    <2> HIDE DEF late
    <2>3. [req[r] EXCEPT !.pc = "verGet", !.qr = q, !.nonce = n, !.late = late] \in Request
      BY <1>a, <1>d, <2>1 DEF Request
    <2> QED BY <1>a, <2>2, <2>3
  <1>5. ASSUME NEW r \in Req, NEW q \in Qr, SyncRead(r, q) PROVE req' \in [Req -> Request]
    BY <1>d, <1>f, <1>5 DEF SyncRead
  <1>6. ASSUME NEW r \in Req, NEW o \in Order, CancelRead(r, o) PROVE req' \in [Req -> Request]
    BY <1>d, <1>e, <1>6 DEF CancelRead
  <1>7. CASE Crash
    BY <1>a, <1>7 DEF Crash
  <1>8. CASE UNCHANGED req
    BY <1>a, <1>8
  <1> QED
    <2>1. ASSUME NEW r \in Req, Generate(r) PROVE req' \in [Req -> Request]
      BY <1>b, <1>c, <1>d, <1>1, <1>2, <1>3, <2>1
      DEF Generate, GenDrop, GenCancel, GenCache, GenSchedule
    <2>2. ASSUME NEW r \in Req, Verify(r) PROVE req' \in [Req -> Request]
      BY <1>b, <1>c, <1>d, <1>4, <2>2
      DEF Verify, VerGet, VerMiss, VerMissExpire, VerExpire, VerExpireDrop, VerOrder,
          VerNonce, VerPaid, VerDrop, VerConfirm, VerNotify
    <2> QED
      BY <1>c, <1>5, <1>6, <1>7, <1>8, <2>1, <2>2
      DEF Next, RequestStep, SyncExpire, CancelWrite, Fail, HistorySync, ExpireJob,
          ExpireBroadcast, FinalizeJob, Elapse, KeyExpires, NonceExpires, ExpireFails, vars

\* SetStatus writes one of the four statuses.
LEMMA StatusTyped ==
  ASSUME TypeOK, NEW Q, NEW st \in PaymentQrStatus, SetStatus(Q, st)
  PROVE  status' \in [Qr -> PaymentQrStatus \cup {"none"}]
BY DEF TypeOK, SetStatus

\* Every action writes its shared fields within their types.
LEMMA TypeStep == IInv /\ [Next]_vars => TypeOK'
  <1> SUFFICES ASSUME IInv, [Next]_vars PROVE TypeOK'
    OBVIOUS
  <1>a. TypeOK /\ req' \in [Req -> Request] /\ \A r \in Req : LocalsOK(r)
    BY RequestTyped DEF IInv, RequestOK
  <1>b. \A Q : \A st \in {"pending", "paid", "expired", "cancelled"} :
          SetStatus(Q, st) => status' \in [Qr -> PaymentQrStatus \cup {"none"}]
    BY <1>a, StatusTyped DEF PaymentQrStatus
  <1>c. ASSUME NEW r \in Req, req[r].pc \in VerPc \cup {"genCache", "genSchedule"}
        PROVE req[r].qr \in Qr
    BY <1>a, <1>c DEF LocalsOK
  <1>d. {"verGet", "verExpireDrop", "verNonce", "verPaid", "verDrop", "verConfirm",
         "verNotify"} \subseteq VerPc
    BY DEF VerPc, PayingPc
  <1>e. ASSUME NEW r \in Req, req[r].pc = "verNonce" PROVE req[r].nonce \in Nonce
    BY <1>a, <1>d, <1>e DEF LocalsOK
  <1>f. /\ \A o \in Order : Begins(o) => overlapped' \subseteq Order
        /\ \A q \in Qr : OrderOf[q] \in Order
    BY <1>a, PaymentsAssumption DEF Begins, TypeOK
  <1> USE DEF rows, redis, jobs, outside, history, At
  <1>1. ASSUME NEW r \in Req, Generate(r) PROVE TypeOK'
    <2>1. ASSUME NEW o \in Order, GenLoad(r, o) PROVE TypeOK'
      BY <1>a, <1>f, <2>1 DEF GenLoad, TypeOK
    <2>2. CASE GenFind(r)
      BY <1>a, <2>2 DEF GenFind, TypeOK
    <2>3. CASE GenDrop(r)
      BY <1>a, <2>3 DEF GenDrop, TypeOK
    <2>4. CASE GenCancel(r)
      BY <1>a, <1>b, <2>4 DEF GenCancel, TypeOK
    <2>5. ASSUME NEW q \in Qr, GenCreate(r, q) PROVE TypeOK'
      BY <1>a, <1>b, <2>5 DEF GenCreate, TypeOK
    <2>6. CASE GenCache(r)
      BY <1>a, <1>c, <2>6 DEF GenCache, TypeOK
    <2>7. CASE GenSchedule(r)
      BY <1>a, <1>c, <2>7 DEF GenSchedule, TypeOK
    <2> QED BY <1>1, <2>1, <2>2, <2>3, <2>4, <2>5, <2>6, <2>7 DEF Generate
  <1>2. ASSUME NEW r \in Req, Verify(r) PROVE TypeOK'
    <2>1. ASSUME NEW q \in Qr, NEW n \in Nonce, VerStart(r, q, n) PROVE TypeOK'
      BY <1>a, <1>f, <2>1 DEF VerStart, TypeOK
    <2>2. CASE VerGet(r) \/ VerMiss(r) \/ VerOrder(r)
      BY <1>a, <2>2 DEF VerGet, VerMiss, VerOrder, TypeOK
    <2>3. CASE VerMissExpire(r) \/ VerExpire(r)
      BY <1>a, <1>b, <2>3 DEF VerMissExpire, VerExpire, TypeOK
    <2>4. CASE VerExpireDrop(r) \/ VerDrop(r)
      BY <1>a, <2>4 DEF VerExpireDrop, VerDrop, TypeOK
    <2>5. CASE VerNonce(r)
      BY <1>a, <1>c, <1>d, <1>e, <2>5 DEF VerNonce, TypeOK
    <2>6. CASE VerPaid(r)
      BY <1>a, <1>b, <1>c, <1>d, <2>6 DEF VerPaid, TypeOK
    <2>7. CASE VerConfirm(r)
      BY <1>a, <2>7 DEF VerConfirm, TypeOK, OrderStatus
    <2>8. CASE VerNotify(r)
      <3>1. finalize' \in [Qr -> Nat]
        BY <1>a, <1>c, <1>d, <2>8 DEF VerNotify, TypeOK
      <3> QED BY <1>a, <2>8, <3>1 DEF VerNotify, TypeOK
    <2> QED BY <1>2, <2>1, <2>2, <2>3, <2>4, <2>5, <2>6, <2>7, <2>8 DEF Verify
  <1>3. ASSUME NEW r \in Req,
               \/ \E q \in Qr : SyncRead(r, q)
               \/ \E o \in Order : CancelRead(r, o)
        PROVE TypeOK'
    BY <1>a, <1>f, <1>3 DEF SyncRead, CancelRead, TypeOK
  <1>4. ASSUME NEW r \in Req, SyncExpire(r) PROVE TypeOK'
    BY <1>a, <1>b, <1>4 DEF SyncExpire, TypeOK
  <1>5. ASSUME NEW r \in Req, CancelWrite(r) PROVE TypeOK'
    BY <1>a, <1>5 DEF CancelWrite, TypeOK, OrderStatus
  <1>6. ASSUME NEW r \in Req, Fail(r) PROVE TypeOK'
    BY <1>a, <1>6, PaymentsAssumption DEF Fail, TypeOK
  <1>7. ASSUME NEW q \in Qr, HistorySync(q) \/ ExpireJob(q) PROVE TypeOK'
    BY <1>a, <1>b, <1>7 DEF HistorySync, ExpireJob, TypeOK
  <1>8. ASSUME NEW q \in Qr, ExpireBroadcast(q) PROVE TypeOK'
    BY <1>a, <1>8 DEF ExpireBroadcast, TypeOK
  <1>9. ASSUME NEW q \in Qr, FinalizeJob(q) PROVE TypeOK'
    BY <1>a, <1>9 DEF FinalizeJob, TypeOK
  <1>10. ASSUME NEW q \in Qr, Elapse(q) \/ KeyExpires(q) PROVE TypeOK'
    BY <1>a, <1>10 DEF Elapse, KeyExpires, TypeOK
  <1>14. ASSUME NEW n \in Nonce, NonceExpires(n) PROVE TypeOK'
    BY <1>a, <1>14 DEF NonceExpires, TypeOK
  <1>11. ASSUME NEW q \in Qr, ExpireFails(q) PROVE TypeOK'
    BY <1>a, <1>11, PaymentsAssumption DEF ExpireFails, TypeOK
  <1>12. CASE Crash
    BY <1>a, <1>12, PaymentsAssumption DEF Crash, TypeOK
  <1>13. CASE UNCHANGED vars
    BY <1>a, <1>13 DEF vars, TypeOK
  <1> QED
    BY <1>1, <1>2, <1>3, <1>4, <1>5, <1>6, <1>7, <1>8, <1>9, <1>10, <1>11, <1>12, <1>13, <1>14
    DEF Next, RequestStep

-----------------------------------------------------------------------------
(* The requests.  By Frame and IdleOK only the request that moves matters, *)
(* and only while it does not return.                                      *)

\* A request that moves on without returning satisfies its conditions.
LEMMA MovedOK ==
  ASSUME IInv, TypeOK', Forward, NEW r \in Req, Next, req'[r] # req[r], req'[r] # Idle
  PROVE  RequestOK(r)'
  <1>a. /\ req \in [Req -> Request] /\ TypeOK /\ RequestOK(r)
        /\ \A q \in Qr : OrderOf[q] \in Order
    BY PaymentsAssumption DEF IInv, TypeOK
  <1>b. /\ req[r].pc = "idle" => req[r] = Idle
        /\ req[r].pc \in GenPc => req[r].order \in Order
        /\ req[r].pc \in VerPc \cup {"genCache"} => req[r].qr \in Qr
        /\ req[r].pc \in VerPc => req[r].nonce \in Nonce
        /\ req[r].pc \in GenPc => \A q \in req[r].stale : OrderOf[q] = req[r].order
        /\ req[r].pc = "genCache" => OrderOf[req[r].qr] = req[r].order
    BY <1>a DEF RequestOK, LocalsOK
  <1>c. ASSUME NEW s \in Req, s # r, RequestStep(s) \/ Fail(s) PROVE FALSE
    BY <1>a, <1>c
    DEF RequestStep, Generate, Verify, GenLoad, GenFind, GenDrop, GenCancel, GenCreate,
        GenCache, GenSchedule, VerStart, VerGet, VerMiss, VerMissExpire, VerExpire,
        VerExpireDrop, VerOrder, VerNonce, VerPaid, VerDrop, VerConfirm, VerNotify,
        SyncRead, SyncExpire, CancelRead, CancelWrite, Fail, Goto, Return
  <1> USE DEF RequestOK, LocalsOK, PayingOK, LateOK, GenPc, VerPc, PayingPc, At
  <1>1. CASE Generate(r)
    <2>1. ASSUME NEW o \in Order, GenLoad(r, o) PROVE RequestOK(r)'
      BY <1>a, <1>b, <2>1 DEF GenLoad, Idle
    <2>2. CASE GenFind(r)
      BY <1>a, <1>b, <2>2 DEF GenFind
    <2>3. CASE GenDrop(r) \/ GenCancel(r)
      <3>1. req[r].pc \in GenPc /\ (Goto(r, "genCancel") \/ Goto(r, "genCreate"))
        BY <2>3 DEF GenDrop, GenCancel
      <3>2. CASE Goto(r, "genCancel")
        BY <1>a, <1>b, <3>1, <3>2 DEF Goto
      <3>3. CASE Goto(r, "genCreate")
        BY <1>a, <1>b, <3>1, <3>3 DEF Goto
      <3> QED BY <3>1, <3>2, <3>3
    <2>4. ASSUME NEW q \in Qr, GenCreate(r, q) PROVE RequestOK(r)'
      BY <1>a, <1>b, <2>4 DEF GenCreate
    <2>5. CASE GenCache(r)
      BY <1>a, <1>b, <2>5 DEF GenCache, Goto
    <2>6. ~GenSchedule(r)
      BY <1>a DEF GenSchedule, Return
    <2> QED BY <1>1, <2>1, <2>2, <2>3, <2>4, <2>5, <2>6 DEF Generate
  <1>2. CASE Verify(r)
    <2>1. ASSUME NEW q \in Qr, NEW n \in Nonce, VerStart(r, q, n) PROVE RequestOK(r)'
      <3>1. /\ req'[r].pc = "verGet" /\ req'[r].qr = q /\ req'[r].nonce = n
            /\ order' = order /\ past' = past /\ n \notin used
            /\ req'[r].late <=> <<n, q>> \in everUsed \/ order[OrderOf[q]] # "pending"
        BY <1>a, <2>1 DEF VerStart, Request, rows, outside
      <3>2. <<n, q>> \in everUsed => q \in past
        BY <3>1 DEF IInv, NonceOutlives
      <3> QED BY <3>1, <3>2
    <2>2. CASE VerGet(r)
      <3>1. req[r].pc = "verGet" /\ order' = order /\ past' = past
        BY <2>2 DEF VerGet, rows, outside
      <3>2. CASE Goto(r, "verMiss")
        BY <1>a, <1>b, <3>1, <3>2 DEF Goto
      <3>3. CASE Goto(r, "verExpire")
        BY <1>a, <1>b, <3>1, <3>3 DEF Goto
      <3>4. CASE req[r].qr \notin past /\ Goto(r, "verOrder")
        BY <1>a, <1>b, <3>1, <3>4 DEF Goto
      <3>5. ~Return(r)
        BY <1>a DEF Return
      <3> QED BY <2>2, <3>2, <3>3, <3>4, <3>5 DEF VerGet
    <2>3. CASE VerMiss(r) \/ VerExpire(r)
      <3>1. req[r].pc \in VerPc \ PayingPc
        BY <2>3 DEF VerMiss, VerExpire
      <3>2. Goto(r, "verMissExpire") \/ Goto(r, "verExpireDrop")
        BY <1>a, <2>3 DEF VerMiss, VerExpire, Return
      <3>3. CASE Goto(r, "verMissExpire")
        BY <1>a, <1>b, <3>1, <3>3 DEF Goto
      <3>4. CASE Goto(r, "verExpireDrop")
        BY <1>a, <1>b, <3>1, <3>4 DEF Goto
      <3> QED BY <3>2, <3>3, <3>4
    <2>4. CASE VerOrder(r)
      <3>1. /\ req[r].pc = "verOrder" /\ order[OrderOf[req[r].qr]] = "pending"
            /\ Goto(r, "verNonce")
        BY <1>a, <2>4 DEF VerOrder, Return
      <3> QED BY <1>a, <1>b, <3>1 DEF Goto
    <2>5. CASE VerNonce(r)
      BY <1>a, <1>b, <2>5 DEF VerNonce, Goto
    <2>6. CASE VerPaid(r)
      BY <1>a, <1>b, <2>6 DEF VerPaid, Goto
    <2>7. CASE VerDrop(r)
      BY <1>a, <1>b, <2>7 DEF VerDrop, Goto, history
    <2>8. CASE VerConfirm(r)
      BY <1>a, <1>b, <2>8 DEF VerConfirm, Goto, history, TypeOK
    <2>9. ~VerMissExpire(r) /\ ~VerExpireDrop(r) /\ ~VerNotify(r)
      BY <1>a DEF VerMissExpire, VerExpireDrop, VerNotify, Return
    <2> QED BY <1>2, <2>1, <2>2, <2>3, <2>4, <2>5, <2>6, <2>7, <2>8, <2>9 DEF Verify
  <1>3. ASSUME NEW q \in Qr, SyncRead(r, q) PROVE RequestOK(r)'
    BY <1>a, <1>b, <1>3 DEF SyncRead, Idle
  <1>4. ASSUME NEW o \in Order, CancelRead(r, o) PROVE RequestOK(r)'
    BY <1>a, <1>b, <1>4 DEF CancelRead, Idle
  <1>5. ~SyncExpire(r) /\ ~CancelWrite(r) /\ ~Fail(r) /\ ~Crash
    BY <1>a DEF SyncExpire, CancelWrite, Fail, Crash, Return
  <1>6. RequestStep(r)
    BY <1>c, <1>5
    DEF Next, HistorySync, ExpireJob, ExpireBroadcast, FinalizeJob, Elapse, KeyExpires,
        NonceExpires, ExpireFails
  <1> QED BY <1>1, <1>2, <1>3, <1>4, <1>5, <1>6 DEF RequestStep

\* So every request does, after any step.
LEMMA RequestsStep == IInv /\ [Next]_vars => \A r \in Req : RequestOK(r)'
  <1> SUFFICES ASSUME IInv, [Next]_vars, NEW r \in Req PROVE RequestOK(r)'
    OBVIOUS
  <1>1. TypeOK /\ RequestOK(r)
    BY DEF IInv
  <1>2. Forward /\ TypeOK'
    BY <1>1, StepsForward, TypeStep
  <1>3. CASE req'[r] = req[r]
    BY <1>1, <1>2, <1>3, Frame
  <1>4. CASE req'[r] = Idle
    BY <1>4, IdleOK
  <1>5. CASE req'[r] # req[r] /\ req'[r] # Idle
    <2>1. Next
      BY <1>5 DEF vars
    <2> QED BY <1>2, <1>5, <2>1, MovedOK
  <1> QED BY <1>3, <1>4, <1>5

-----------------------------------------------------------------------------
(* The orders, the jobs and the nonces.                                    *)

\* Only VerConfirm confirms an order, and its QR was paid.
LEMMA ConfirmedStep == IInv /\ [Next]_vars => ConfirmedWasPaid'
  <1> SUFFICES ASSUME IInv, [Next]_vars PROVE ConfirmedWasPaid'
    OBVIOUS
  <1>1. TypeOK /\ Forward /\ ConfirmedWasPaid
    BY StepsForward DEF IInv
  <1>2. ASSUME NEW r \in Req, VerConfirm(r) PROVE ConfirmedWasPaid'
    <2>1. req[r].qr \in Qr /\ req[r].qr \in paidEver
      BY <1>2 DEF IInv, RequestOK, LocalsOK, PayingOK, VerConfirm, At, VerPc, PayingPc
    <2>2. order' = [order EXCEPT ![OrderOf[req[r].qr]] = "confirmed"] /\ paidEver' = paidEver
      BY <1>2 DEF VerConfirm, history
    <2> QED BY <1>1, <2>1, <2>2 DEF ConfirmedWasPaid, TypeOK
  <1>3. ASSUME NEW r \in Req, CancelWrite(r) PROVE ConfirmedWasPaid'
    <2>1. order' = [order EXCEPT ![req[r].order] = "cancelled"] /\ paidEver' = paidEver
      BY <1>3 DEF CancelWrite, history
    <2> QED BY <1>1, <2>1 DEF ConfirmedWasPaid, TypeOK
  <1>4. CASE order' = order
    BY <1>1, <1>4 DEF ConfirmedWasPaid, Forward
  <1> QED BY <1>2, <1>3, <1>4, OnlyWriters DEF Writers

\* A finalize-payment job is queued by VerNotify alone, after VerConfirm.
LEMMA ToldStep == IInv /\ [Next]_vars => ToldAfterConfirmation'
  <1> SUFFICES ASSUME IInv, [Next]_vars PROVE ToldAfterConfirmation'
    OBVIOUS
  <1>1. TypeOK /\ Forward /\ ToldAfterConfirmation
    BY StepsForward DEF IInv
  <1>2. \A q \in Qr : OrderOf[q] \in Order
    BY PaymentsAssumption
  <1>3. ASSUME NEW r \in Req, VerNotify(r) PROVE ToldAfterConfirmation'
    <2>1. /\ req[r].qr \in Qr /\ req[r].qr \in paidEver
          /\ order[OrderOf[req[r].qr]] # "pending"
      BY <1>3 DEF IInv, RequestOK, LocalsOK, PayingOK, VerNotify, At, VerPc, PayingPc
    <2>2. \A q \in Qr : q # req[r].qr => finalize'[q] = finalize[q]
      BY <1>1, <1>3 DEF VerNotify, TypeOK
    <2>3. told' = told /\ order' = order /\ paidEver' = paidEver
      BY <1>3 DEF VerNotify, outside, rows, history
    <2> QED BY <1>1, <2>1, <2>2, <2>3 DEF ToldAfterConfirmation
  <1>4. ASSUME NEW p \in Qr, FinalizeJob(p) PROVE ToldAfterConfirmation'
    <2>1. /\ finalize[p] > 0 /\ told' = told \cup {p}
          /\ order' = order /\ paidEver' = paidEver
      BY <1>4 DEF FinalizeJob, rows, history
    <2>2. \A q \in Qr : finalize'[q] > 0 => finalize[q] > 0
      BY <1>1, <1>4 DEF FinalizeJob, TypeOK
    <2> QED BY <1>1, <2>1, <2>2 DEF ToldAfterConfirmation
  <1>5. CASE UNCHANGED <<told, finalize>>
    BY <1>1, <1>2, <1>5 DEF ToldAfterConfirmation, Forward
  <1> QED BY <1>3, <1>4, <1>5, OnlyWriters DEF Writers

\* A nonce key goes only after the QR's time is over.
LEMMA NonceStep == IInv /\ [Next]_vars => NonceOutlives'
  <1> SUFFICES ASSUME IInv, [Next]_vars PROVE NonceOutlives'
    OBVIOUS
  <1>1. Forward /\ NonceOutlives
    BY StepsForward DEF IInv
  <1>2. ASSUME NEW r \in Req, VerNonce(r) PROVE NonceOutlives'
    BY <1>1, <1>2 DEF VerNonce, NonceOutlives, outside
  <1>3. ASSUME NEW n \in Nonce, NonceExpires(n) PROVE NonceOutlives'
    BY <1>1, <1>3 DEF NonceExpires, NonceOutlives, outside, history
  <1>4. CASE UNCHANGED <<used, everUsed>>
    BY <1>1, <1>4 DEF NonceOutlives, Forward
  <1> QED BY <1>2, <1>3, <1>4, OnlyWriters DEF Writers

LEMMA NextIInv == IInv /\ [Next]_vars => IInv'
  BY TypeStep, RequestsStep, ConfirmedStep, ToldStep, NonceStep DEF IInv

-----------------------------------------------------------------------------
LEMMA Invariance == Spec => []IInv
  BY InitIInv, NextIInv, PTL DEF Spec

\* Rows, keys, jobs and requests keep their shape.
THEOREM Typed == Spec => []TypeOK
  <1>1. IInv => TypeOK
    BY DEF IInv
  <1> QED BY <1>1, Invariance, PTL

\* verifyAndProcess writes PAID before it confirms, so no order is CONFIRMED
\* without a payment, whatever runs in between.
THEOREM ConfirmedPaid == Spec => []ConfirmedWasPaid
  <1>1. IInv => ConfirmedWasPaid
    BY DEF IInv
  <1> QED BY <1>1, Invariance, PTL

\* The nonce, clock and order checks of verifyAndProcess stop every call that
\* begins too late.
THEOREM LateRejected == Spec => []LateVerificationRejected
  <1>1. IInv => LateVerificationRejected
    BY DEF IInv, RequestOK, LateOK, LateVerificationRejected
  <1> QED BY <1>1, Invariance, PTL

\* The worker tells the payer only of a payment made, after its order was settled.
THEOREM ToldLate == Spec => []ToldAfterConfirmation
  <1>1. IInv => ToldAfterConfirmation
    BY DEF IInv
  <1> QED BY <1>1, Invariance, PTL

-----------------------------------------------------------------------------
\* Every step of Payments is a step of the ledger or leaves it alone: VerPaid
\* pays, VerConfirm confirms, CancelWrite cancels and FinalizeJob tells.
THEOREM ImplementsLedger == Spec => LedgerSpec
  <1>1. Init => Ledger!Init
    BY DEF Init, Ledger!Init
  <1>2. IInv /\ [Next]_vars => [Ledger!Next]_(Ledger!vars)
    <2> SUFFICES ASSUME IInv, [Next]_vars PROVE Ledger!Next \/ UNCHANGED <<order, paidEver, told>>
      BY DEF Ledger!vars
    <2> USE DEF rows, outside, history
    <2>1. ASSUME NEW r \in Req, VerPaid(r) PROVE Ledger!Next
      <3>1. req[r].qr \in Qr
        BY <2>1 DEF IInv, RequestOK, LocalsOK, VerPaid, At, VerPc, PayingPc
      <3>2. Ledger!Pay(req[r].qr)
        BY <2>1 DEF VerPaid, Ledger!Pay
      <3> QED BY <3>1, <3>2 DEF Ledger!Next
    <2>2. ASSUME NEW r \in Req, VerConfirm(r) PROVE Ledger!Next
      <3>1. req[r].qr \in Qr /\ req[r].qr \in paidEver
        BY <2>2 DEF IInv, RequestOK, LocalsOK, PayingOK, VerConfirm, At, VerPc, PayingPc
      <3>2. Ledger!Confirm(req[r].qr)
        BY <2>2, <3>1 DEF VerConfirm, Ledger!Confirm
      <3> QED BY <3>1, <3>2 DEF Ledger!Next
    <2>3. ASSUME NEW r \in Req, CancelWrite(r) PROVE Ledger!Next
      <3>1. req[r].order \in Order
        BY <2>3 DEF IInv, RequestOK, LocalsOK, CancelWrite, At
      <3>2. Ledger!Cancel(req[r].order)
        BY <2>3 DEF CancelWrite, Ledger!Cancel
      <3> QED BY <3>1, <3>2 DEF Ledger!Next
    <2>4. ASSUME NEW q \in Qr, FinalizeJob(q) PROVE Ledger!Next
      <3>1. q \in paidEver /\ order[OrderOf[q]] # "pending"
        BY <2>4 DEF IInv, ToldAfterConfirmation, FinalizeJob
      <3>2. Ledger!Tell(q)
        BY <2>4, <3>1 DEF FinalizeJob, Ledger!Tell
      <3> QED BY <3>2 DEF Ledger!Next
    <2> DEFINE Same == order' = order /\ paidEver' = paidEver /\ told' = told
    <2>5. ASSUME NEW r \in Req, RequestStep(r) \/ Fail(r)
          PROVE VerPaid(r) \/ VerConfirm(r) \/ CancelWrite(r) \/ Same
      BY <2>5
      DEF RequestStep, Generate, Verify, GenLoad, GenFind, GenDrop, GenCancel,
          GenCreate, GenCache, GenSchedule, VerStart, VerGet, VerMiss, VerMissExpire,
          VerExpire, VerExpireDrop, VerOrder, VerNonce, VerDrop, VerNotify, SyncRead,
          SyncExpire, CancelRead, Fail
    <2>6. ASSUME NEW q \in Qr, \/ HistorySync(q) \/ ExpireJob(q) \/ ExpireBroadcast(q)
                               \/ Elapse(q) \/ KeyExpires(q) \/ ExpireFails(q)
          PROVE Same
      BY <2>6 DEF HistorySync, ExpireJob, ExpireBroadcast, Elapse, KeyExpires, ExpireFails
    <2>7. CASE (\E n \in Nonce : NonceExpires(n)) \/ Crash \/ UNCHANGED vars
      <3>1. Same
        BY <2>7 DEF NonceExpires, Crash, vars
      <3> QED BY <3>1
    <2>8. Same => UNCHANGED <<order, paidEver, told>>
      OBVIOUS
    <2> HIDE DEF Same
    <2> QED BY <2>1, <2>2, <2>3, <2>4, <2>5, <2>6, <2>7, <2>8 DEF Next
  <1> QED BY <1>1, <1>2, Invariance, PTL DEF Spec, LedgerSpec, Ledger!Spec

-----------------------------------------------------------------------------
(* SerialPromises: the orders whose requests come one at a time.  Requests *)
(* of other orders, the worker, the clock and the faults run beside them.  *)

Unpaid(q)  == status[q] \in {"pending", "expired"}
Payable(q) == Unpaid(q) \/ status[q] = "paid"

\* One QR of order o is active at most; a live key is of a QR that can be paid,
\* and a nonce recorded for it is still there.
BooksOf(o) ==
  /\ \A p, q \in Qr :
       OrderOf[p] = o /\ OrderOf[q] = o /\ status[p] = "pending" /\ status[q] = "pending" => p = q
  /\ \A q \in Qr : OrderOf[q] = o =>
       /\ finalize[q] <= 1 /\ (q \in told => finalize[q] = 0)
       /\ q \in keys => Payable(q)
       /\ \A n \in Nonce : <<n, q>> \in everUsed => status[q] # "none" /\ (q \in keys => n \in used)

\* What a request knows, at the call it makes next, while it is alone with its order.
Stage(r) ==
  /\ req[r].pc \in {"genDrop", "genCancel"} =>
       /\ \A q \in Qr : status[q] = "pending" /\ OrderOf[q] = req[r].order => q \in req[r].stale
       /\ \A q \in req[r].stale : Unpaid(q)
  /\ req[r].pc = "genCancel" => req[r].stale \cap keys = {}
  /\ req[r].pc = "genCreate" => \A q \in Qr : OrderOf[q] = req[r].order => status[q] # "pending"
  /\ req[r].pc = "genCache" =>
       Unpaid(req[r].qr) /\ \A n \in Nonce : <<n, req[r].qr>> \notin everUsed
  /\ req[r].pc = "verGet" => (req[r].qr \in keys => <<req[r].nonce, req[r].qr>> \notin everUsed)
  /\ req[r].pc \in {"verMissExpire", "syncExpire"} => Unpaid(req[r].qr)
  /\ req[r].pc \in {"verExpire", "verOrder", "verNonce", "verPaid"} => Payable(req[r].qr)
  /\ req[r].pc = "verExpire" => <<req[r].nonce, req[r].qr>> \notin everUsed
  /\ req[r].pc \in {"verNonce", "verPaid", "verDrop", "verConfirm"} =>
       order[OrderOf[req[r].qr]] = "pending"
  /\ req[r].pc = "verNotify" => finalize[req[r].qr] = 0 /\ req[r].qr \notin told

\* Two requests in flight for one order have overlapped.
Apart ==
  \A r, s \in Req :
    /\ r # s /\ ~At(r, "idle") /\ ~At(s, "idle")
    /\ OrderIn(r) = OrderIn(s)
    => OrderIn(r) \in overlapped

SerialInv ==
  /\ Apart
  /\ \A o \in Order \ overlapped : BooksOf(o)
  /\ \A r \in Req : ~At(r, "idle") /\ OrderIn(r) \notin overlapped => Stage(r)

\* No row of the order goes from CANCELLED to PAID, and none but a PENDING one
\* expires, or a PAID one under a new nonce.
RowsOf(o) ==
  \A q \in Qr : OrderOf[q] = o =>
    /\ status[q] = "cancelled" => status'[q] # "paid"
    /\ status'[q] = "expired" => Unpaid(q) \/ (status[q] = "paid" /\ ExpiresUnderNewNonce(q))

\* A step leaves what belongs to an order alone.
Spares(o) ==
  /\ order'[o] = order[o] /\ used \subseteq used'
  /\ \A q \in Qr : OrderOf[q] = o =>
       /\ status'[q] = status[q] /\ finalize'[q] = finalize[q]
       /\ q \in keys' <=> q \in keys
       /\ q \in told' <=> q \in told
       /\ \A n \in Nonce : <<n, q>> \in everUsed' <=> <<n, q>> \in everUsed

LEMMA SparedBooks ==
  ASSUME NEW o \in Order, Spares(o), BooksOf(o)
  PROVE  BooksOf(o)'
BY DEF Spares, BooksOf, Payable, Unpaid

LEMMA SparedRows ==
  ASSUME NEW o \in Order, Spares(o)
  PROVE  RowsOf(o)
BY DEF Spares, RowsOf, Unpaid

LEMMA SparedStage ==
  ASSUME TypeOK, NEW s \in Req, ~At(s, "idle"), NEW o \in Order, o = OrderIn(s),
         LocalsOK(s), Stage(s), Spares(o), req'[s] = req[s]
  PROVE  Stage(s)'
<1>1. req[s] \in Request
  BY DEF TypeOK
<1>2. /\ req[s].pc \in {"genCache", "syncExpire"} \cup VerPc => req[s].qr \in Qr /\ OrderOf[req[s].qr] = o
      /\ req[s].stale \subseteq Qr
      /\ req[s].pc \in VerPc => req[s].nonce \in Nonce
  BY <1>1 DEF LocalsOK, Request, VerPc, GenPc, PayingPc, OrderIn
<1>3. req[s].pc \in GenPc => req[s].order = o /\ \A q \in req[s].stale : OrderOf[q] = o
  BY DEF LocalsOK, OrderIn
<1>4. /\ \A l \in {"verGet", "verMissExpire", "verExpire", "verOrder", "verNonce", "verPaid",
                   "verDrop", "verConfirm", "verNotify"} : l \in VerPc
      /\ \A l \in {"genDrop", "genCancel", "genCreate", "genCache"} : l \in GenPc
  BY DEF VerPc, PayingPc, GenPc
<1>5. /\ \A q \in Qr : OrderOf[q] = o => (Unpaid(q) => Unpaid(q)') /\ (Payable(q) => Payable(q)')
      /\ \A q \in Qr : OrderOf[q] = o => status'[q] = status[q] /\ finalize'[q] = finalize[q]
  BY DEF Spares, Unpaid, Payable
<1>6. CASE req[s].pc \in GenPc
  <2>1. req'[s].pc \notin {"verMissExpire", "syncExpire", "verExpire", "verOrder", "verNonce",
                           "verPaid", "verDrop", "verConfirm", "verNotify", "verGet"}
    BY <1>6 DEF GenPc
  <2> QED BY <1>2, <1>3, <1>4, <1>5, <1>6, <2>1 DEF Stage, Spares
<1>7. CASE req[s].pc \notin GenPc
  <2>1. req'[s].pc \notin {"genDrop", "genCancel", "genCreate", "genCache"}
    BY <1>7, <1>4
  <2> QED BY <1>2, <1>4, <1>5, <1>7, <2>1 DEF Stage, Spares
<1> QED BY <1>6, <1>7

LEMMA StageIdle ==
  ASSUME NEW r \in Req, req'[r].pc = "idle"
  PROVE  Stage(r)'
BY DEF Stage

\* What Goto leaves of the locals.
LEMMA GotoLocals ==
  ASSUME TypeOK, NEW r \in Req, NEW l, Goto(r, l)
  PROVE  /\ req'[r].pc = l /\ req'[r].qr = req[r].qr /\ req'[r].nonce = req[r].nonce
         /\ req'[r].order = req[r].order /\ req'[r].stale = req[r].stale
         /\ \A s \in Req : s # r => req'[s] = req[s]
BY DEF TypeOK, Goto, Request

LEMMA ReturnIdle ==
  ASSUME TypeOK, NEW r \in Req, Return(r)
  PROVE  req'[r].pc = "idle" /\ \A s \in Req : s # r => req'[s] = req[s]
BY DEF TypeOK, Return, Idle

\* A step that touches no row, key, nonce, job or message.
SameBooks == UNCHANGED <<order, status, keys, used, everUsed, finalize, told>>

LEMMA SameSpares ==
  ASSUME SameBooks, NEW o \in Order
  PROVE  Spares(o)
BY DEF SameBooks, Spares

-----------------------------------------------------------------------------
(* The worker, the clock and Redis: they only expire rows, drop keys and   *)
(* tell of payments.                                                       *)
Settles ==
  /\ \A q \in Qr : (Unpaid(q) => Unpaid(q)') /\ (Payable(q) => Payable(q)')
  /\ \A q \in Qr : status'[q] = "pending" => status[q] = "pending"
  /\ keys' \subseteq keys /\ UNCHANGED <<order, everUsed, overlapped>>
  /\ \A q \in Qr : finalize[q] = 0 /\ q \notin told => finalize'[q] = 0 /\ q \notin told'

LEMMA StageSettles ==
  ASSUME TypeOK, NEW r \in Req, LocalsOK(r), Stage(r), req'[r] = req[r], Settles
  PROVE  Stage(r)'
<1>1. req[r] \in Request
  BY DEF TypeOK
<1>2. /\ req[r].pc \in {"genCache", "verGet", "syncExpire"} \cup VerPc => req[r].qr \in Qr
      /\ req[r].stale \subseteq Qr
  BY <1>1 DEF LocalsOK, Request, VerPc
<1> QED
  BY <1>2 DEF Stage, Settles, VerPc, PayingPc

LEMMA ExpiredRow ==
  ASSUME TypeOK, NEW q \in Qr, status[q] = "pending", SetStatus({q}, "expired"),
         UNCHANGED <<order, keys, used, everUsed, overlapped, finalize, told>>
  PROVE  Settles /\ \A o \in Order : (BooksOf(o) => BooksOf(o)') /\ RowsOf(o)
<1>1. \A p \in Qr : status'[p] = IF p = q THEN "expired" ELSE status[p]
  BY DEF SetStatus
<1>2. Settles
  BY <1>1 DEF Settles, Unpaid, Payable
<1>3. ASSUME NEW o \in Order PROVE (BooksOf(o) => BooksOf(o)') /\ RowsOf(o)
  BY <1>1 DEF BooksOf, RowsOf, Unpaid, Payable, TypeOK
<1> QED BY <1>2, <1>3

LEMMA SameSettles ==
  ASSUME SameBooks, UNCHANGED overlapped
  PROVE  Settles /\ \A o \in Order : (BooksOf(o) => BooksOf(o)') /\ RowsOf(o)
<1>1. Settles
  BY DEF Settles, SameBooks, Unpaid, Payable
<1> QED BY <1>1, SameSpares, SparedBooks, SparedRows

LEMMA WorkerKeeps ==
  ASSUME TypeOK, NEW q \in Qr,
         \/ HistorySync(q) \/ ExpireJob(q) \/ ExpireBroadcast(q) \/ FinalizeJob(q)
         \/ Elapse(q) \/ KeyExpires(q) \/ ExpireFails(q)
  PROVE  Settles /\ UNCHANGED req /\ \A o \in Order : (BooksOf(o) => BooksOf(o)') /\ RowsOf(o)
<1> USE DEF rows, redis, jobs, outside, history
<1>1. CASE status[q] = "pending" /\ SetStatus({q}, "expired")
             /\ UNCHANGED <<order, redis, finalize, outside, history, req>>
  BY <1>1, ExpiredRow
<1>2. CASE SameBooks /\ UNCHANGED <<overlapped, req>>
  BY <1>2, SameSettles
<1>3. CASE FinalizeJob(q)
  <2>1. /\ finalize[q] > 0 /\ told' = told \cup {q}
        /\ \A p \in Qr : finalize'[p] = IF p = q THEN finalize[q] - 1 ELSE finalize[p]
        /\ UNCHANGED <<order, status, keys, used, everUsed, overlapped, req>>
    BY <1>3 DEF FinalizeJob, TypeOK
  <2>2. Settles
    BY <2>1 DEF Settles, Unpaid, Payable
  <2>3. ASSUME NEW o \in Order PROVE (BooksOf(o) => BooksOf(o)') /\ RowsOf(o)
    BY <2>1 DEF BooksOf, RowsOf, TypeOK, Unpaid, Payable
  <2> QED BY <2>1, <2>2, <2>3
<1>4. CASE KeyExpires(q)
  BY <1>4 DEF KeyExpires, BooksOf, RowsOf, Settles, Unpaid, Payable
<1> QED
  BY <1>1, <1>2, <1>3, <1>4
  DEF HistorySync, ExpireJob, ExpireBroadcast, Elapse, ExpireFails, SameBooks

LEMMA NonceKeeps ==
  ASSUME NEW n \in Nonce, NonceExpires(n)
  PROVE  Settles /\ UNCHANGED req /\ \A o \in Order : (BooksOf(o) => BooksOf(o)') /\ RowsOf(o)
BY DEF NonceExpires, BooksOf, RowsOf, Settles, Unpaid, Payable, rows, jobs, outside, history

-----------------------------------------------------------------------------
(* The requests.                                                           *)

\* Whom a request step moves: itself only; it begins, or stays with its order
\* until it returns.
Moves(r) ==
  /\ \A s \in Req : s # r => req'[s] = req[s]
  /\ At(r, "idle") => Begins(OrderIn(r)')
  /\ ~At(r, "idle") => /\ overlapped' = overlapped
                       /\ req'[r].pc = "idle" \/ OrderIn(r)' = OrderIn(r)

\* A step of r leaves alone every order but its own.
SparesOthers(r) == \A o \in Order : Spares(o) \/ (~At(r, "idle") /\ o = OrderIn(r))

\* A step that only moves the record of r spares every order.
LEMMA Begun ==
  ASSUME TypeOK, NEW r \in Req, At(r, "idle"), NEW o \in Order, NEW rec,
         req' = [req EXCEPT ![r] = rec], rec.pc # "idle", Begins(o), SameBooks,
         o = IF rec.pc \in GenPc \cup {"cancelWrite"} THEN rec.order ELSE OrderOf[rec.qr]
  PROVE  Moves(r) /\ SparesOthers(r) /\ req'[r] = rec /\ OrderIn(r)' = o
<1>1. req'[r] = rec /\ \A s \in Req : s # r => req'[s] = req[s]
  BY DEF TypeOK
<1>2. OrderIn(r)' = o
  BY <1>1 DEF OrderIn
<1>3. Begins(OrderIn(r)') <=> Begins(o)
  BY <1>2 DEF Begins
<1> QED BY <1>1, <1>2, <1>3, SameSpares DEF Moves, SparesOthers

\* A request begins: its order is loaded, read or scanned.
LEMMA BeginsKeep ==
  ASSUME TypeOK, NEW r \in Req, LocalsOK(r),
         \/ \E o \in Order : GenLoad(r, o) \/ CancelRead(r, o)
         \/ \E q \in Qr : SyncRead(r, q)
         \/ \E q \in Qr, n \in Nonce : VerStart(r, q, n)
  PROVE  /\ Moves(r) /\ SparesOthers(r) /\ At(r, "idle") /\ SameBooks
         /\ OrderIn(r)' \in Order
         /\ \A o \in Order : o = OrderIn(r)' /\ BooksOf(o) => Stage(r)'
<1> USE DEF rows, redis, jobs, outside
<1>0. req[r] \in Request /\ req \in [Req -> Request] /\ \A q \in Qr : OrderOf[q] \in Order
  BY PaymentsAssumption DEF TypeOK
<1>1. ASSUME NEW o \in Order, GenLoad(r, o) \/ CancelRead(r, o)
      PROVE  /\ Moves(r) /\ SparesOthers(r) /\ At(r, "idle") /\ SameBooks
             /\ OrderIn(r)' \in Order /\ Stage(r)'
  <2>1. PICK l \in {"genFind", "cancelWrite"} : req' = [req EXCEPT ![r].pc = l, ![r].order = o]
    BY <1>1 DEF GenLoad, CancelRead
  <2> DEFINE rec == [req[r] EXCEPT !.pc = l, !.order = o]
  <2>2. req' = [req EXCEPT ![r] = rec]
    BY <1>0, <2>1
  <2>3. rec.pc = l /\ rec.order = o
    BY <1>0 DEF Request
  <2> HIDE DEF rec
  <2>4. At(r, "idle") /\ Begins(o) /\ SameBooks
    BY <1>1 DEF GenLoad, CancelRead, SameBooks
  <2>5. rec.pc # "idle" /\ o = IF rec.pc \in GenPc \cup {"cancelWrite"} THEN rec.order ELSE OrderOf[rec.qr]
    BY <2>3 DEF GenPc
  <2>6. Moves(r) /\ SparesOthers(r) /\ req'[r] = rec /\ OrderIn(r)' = o
    BY <2>2, <2>4, <2>5, Begun
  <2> QED BY <2>3, <2>4, <2>6 DEF Stage
<1>2. ASSUME NEW q \in Qr, SyncRead(r, q)
      PROVE  /\ Moves(r) /\ SparesOthers(r) /\ At(r, "idle") /\ SameBooks
             /\ OrderIn(r)' \in Order /\ Stage(r)'
  <2> DEFINE rec == [req[r] EXCEPT !.pc = "syncExpire", !.qr = q]
  <2>2. req' = [req EXCEPT ![r] = rec]
    BY <1>0, <1>2 DEF SyncRead
  <2>3. rec.pc = "syncExpire" /\ rec.qr = q
    BY <1>0 DEF Request
  <2> HIDE DEF rec
  <2>4. At(r, "idle") /\ Begins(OrderOf[q]) /\ SameBooks /\ status[q] = "pending"
    BY <1>2 DEF SyncRead, SameBooks
  <2>5. rec.pc # "idle" /\ OrderOf[q] = IF rec.pc \in GenPc \cup {"cancelWrite"} THEN rec.order ELSE OrderOf[rec.qr]
    BY <2>3 DEF GenPc
  <2>6. Moves(r) /\ SparesOthers(r) /\ req'[r] = rec /\ OrderIn(r)' = OrderOf[q]
    BY <1>0, <2>2, <2>4, <2>5, Begun
  <2> QED BY <1>0, <2>3, <2>4, <2>6 DEF Stage, SameBooks, Unpaid
<1>3. ASSUME NEW q \in Qr, NEW n \in Nonce, VerStart(r, q, n)
      PROVE  /\ Moves(r) /\ SparesOthers(r) /\ At(r, "idle") /\ SameBooks
             /\ OrderIn(r)' = OrderOf[q]
             /\ BooksOf(OrderOf[q]) => Stage(r)'
  <2> DEFINE late == <<n, q>> \in everUsed \/ order[OrderOf[q]] # "pending"
             rec == [req[r] EXCEPT !.pc = "verGet", !.qr = q, !.nonce = n, !.late = late]
  <2>1. req' = [req EXCEPT ![r].pc = "verGet", ![r].qr = q, ![r].nonce = n, ![r].late = late]
    BY <1>3 DEF VerStart
  <2> HIDE DEF late
  <2>2. req' = [req EXCEPT ![r] = rec]
    BY <1>0, <2>1
  <2>3. rec.pc = "verGet" /\ rec.qr = q /\ rec.nonce = n
    BY <1>0 DEF Request
  <2> HIDE DEF rec
  <2>4. At(r, "idle") /\ Begins(OrderOf[q]) /\ SameBooks /\ n \notin used
    BY <1>3 DEF VerStart, SameBooks
  <2>5. rec.pc # "idle" /\ OrderOf[q] = IF rec.pc \in GenPc \cup {"cancelWrite"} THEN rec.order ELSE OrderOf[rec.qr]
    BY <2>3 DEF GenPc
  <2>6. Moves(r) /\ SparesOthers(r) /\ req'[r] = rec /\ OrderIn(r)' = OrderOf[q]
    BY <1>0, <2>2, <2>4, <2>5, Begun
  <2>8. BooksOf(OrderOf[q]) => Stage(r)'
    BY <2>3, <2>4, <2>6 DEF BooksOf, Stage, SameBooks
  <2> QED BY <2>4, <2>6, <2>8
<1> QED BY <1>0, <1>1, <1>2, <1>3

\* The lasting effects of a step are all on QRs of order o.
Within(o) ==
  /\ used \subseteq used'
  /\ \A p \in Order : p # o => order'[p] = order[p]
  /\ \A q \in Qr : OrderOf[q] # o =>
       /\ status'[q] = status[q] /\ finalize'[q] = finalize[q]
       /\ q \in keys' <=> q \in keys
       /\ q \in told' <=> q \in told
       /\ \A n \in Nonce : <<n, q>> \in everUsed' <=> <<n, q>> \in everUsed

LEMMA WithinSpares ==
  ASSUME NEW r \in Req, ~At(r, "idle"), Within(OrderIn(r))
  PROVE  SparesOthers(r)
BY DEF Within, Spares, SparesOthers

LEMMA SameWithin ==
  ASSUME SameBooks, NEW o
  PROVE  Within(o)
BY DEF SameBooks, Within

LEMMA GotoMoves ==
  ASSUME TypeOK, NEW r \in Req, NEW l, Goto(r, l), overlapped' = overlapped,
         \/ req[r].pc \in GenPc /\ l \in GenPc
         \/ req[r].pc \in VerPc /\ l \in VerPc
  PROVE  Moves(r)
<1>1. /\ req'[r].pc = l /\ req'[r].qr = req[r].qr /\ req'[r].order = req[r].order
      /\ \A s \in Req : s # r => req'[s] = req[s]
  BY GotoLocals
<1>2. ~At(r, "idle") /\ (\A m \in GenPc : m \notin VerPc) /\ "cancelWrite" \notin VerPc
  BY DEF At, GenPc, VerPc, PayingPc
<1>3. OrderIn(r)' = OrderIn(r)
  BY <1>1, <1>2 DEF OrderIn
<1> QED BY <1>1, <1>2, <1>3 DEF Moves

LEMMA ReturnMoves ==
  ASSUME TypeOK, NEW r \in Req, Return(r), overlapped' = overlapped, ~At(r, "idle")
  PROVE  Moves(r)
BY ReturnIdle DEF Moves

\* What a step of a request in flight keeps, of its own order o and of the others.
Keeps(r, o) ==
  /\ Moves(r) /\ SparesOthers(r)
  /\ BooksOf(o) /\ Stage(r) => BooksOf(o)' /\ RowsOf(o) /\ Stage(r)'

LEMMA SameKeeps ==
  ASSUME NEW r \in Req, ~At(r, "idle"), NEW o \in Order, o = OrderIn(r), SameBooks, Moves(r),
         BooksOf(o) /\ Stage(r) => Stage(r)'
  PROVE  Keeps(r, o)
BY SameWithin, WithinSpares, SameSpares, SparedBooks, SparedRows DEF Keeps

LEMMA ReturnKeeps ==
  ASSUME TypeOK, NEW r \in Req, ~At(r, "idle"), NEW o \in Order, o = OrderIn(r), SameBooks,
         Return(r), overlapped' = overlapped
  PROVE  Keeps(r, o)
BY SameKeeps, ReturnMoves, ReturnIdle, StageIdle

\* generateQr retires what is PENDING before it makes a new QR.
LEMMA GenerateKeeps ==
  ASSUME TypeOK, NEW r \in Req, LocalsOK(r), Generate(r), ~At(r, "idle"),
         NEW o \in Order, o = OrderIn(r)
  PROVE  Keeps(r, o)
<1> USE DEF rows, redis, jobs, outside, history
<1>0. req[r] \in Request /\ req \in [Req -> Request] /\ req[r].stale \subseteq Qr
  BY DEF TypeOK, Request
<1>a. {"genFind", "genDrop", "genCancel", "genCreate", "genCache", "genSchedule"} = GenPc
  BY DEF GenPc
<1>b. req[r].pc \in GenPc => req[r].order = o /\ \A q \in req[r].stale : OrderOf[q] = o
  BY DEF OrderIn, LocalsOK
<1>2. CASE GenFind(r)
  <2> DEFINE found == {q \in Qr : OrderOf[q] = req[r].order /\ status[q] = "pending"}
             next == IF found = {} THEN "genCreate" ELSE "genDrop"
  <2>1. req' = [req EXCEPT ![r].stale = found, ![r].pc = next] /\ req[r].pc = "genFind"
        /\ overlapped' = overlapped /\ SameBooks
    BY <1>2 DEF GenFind, At, SameBooks
  <2>3. /\ \A q \in Qr : q \in found <=> OrderOf[q] = req[r].order /\ status[q] = "pending"
        /\ found \subseteq Qr /\ next \in {"genCreate", "genDrop"}
        /\ found = {} => next = "genCreate"
        /\ found # {} => next = "genDrop"
    OBVIOUS
  <2> HIDE DEF found, next
  <2>4. /\ req'[r].pc = next /\ req'[r].stale = found /\ req'[r].order = req[r].order
        /\ \A s \in Req : s # r => req'[s] = req[s]
    BY <1>0, <2>1 DEF Request
  <2>5. Stage(r)'
    <3>1. status' = status
      BY <2>1 DEF SameBooks
    <3>2. CASE found = {}
      BY <2>3, <2>4, <3>1, <3>2 DEF Stage
    <3>3. CASE found # {}
      BY <2>3, <2>4, <3>1, <3>3 DEF Stage, Unpaid
    <3> QED BY <3>2, <3>3
  <2>6. Moves(r)
    <3>1. OrderIn(r)' = OrderIn(r)
      BY <1>a, <2>1, <2>3, <2>4 DEF OrderIn
    <3> QED BY <2>1, <2>4, <3>1 DEF Moves
  <2> QED BY <2>1, <2>5, <2>6, SameKeeps
<1>3. CASE GenDrop(r)
  <2>1. /\ req[r].pc = "genDrop" /\ Goto(r, "genCancel") /\ overlapped' = overlapped
        /\ keys' = keys \ req[r].stale
        /\ UNCHANGED <<order, status, used, everUsed, finalize, told>>
    BY <1>3 DEF GenDrop, At
  <2>2. /\ req'[r].pc = "genCancel" /\ req'[r].stale = req[r].stale /\ req'[r].order = req[r].order
    BY <2>1, GotoLocals
  <2>3. Moves(r)
    BY <1>a, <2>1, GotoMoves
  <2>4. Within(o)
    BY <1>a, <1>b, <2>1 DEF Within
  <2>5. ASSUME BooksOf(o), Stage(r) PROVE BooksOf(o)' /\ RowsOf(o) /\ Stage(r)'
    <3>1. BooksOf(o)' /\ RowsOf(o)
      BY <2>1, <2>5 DEF BooksOf, RowsOf, Unpaid, Payable
    <3>2. Stage(r)'
      BY <2>1, <2>2, <2>5 DEF Stage, Unpaid
    <3> QED BY <3>1, <3>2
  <2> QED BY <2>3, <2>4, <2>5, WithinSpares DEF Keeps
<1>4. CASE GenCancel(r)
  <2>1. /\ req[r].pc = "genCancel" /\ Goto(r, "genCreate") /\ overlapped' = overlapped
        /\ \A q \in Qr : status'[q] = IF q \in req[r].stale THEN "cancelled" ELSE status[q]
        /\ UNCHANGED <<order, keys, used, everUsed, finalize, told>>
    BY <1>4 DEF GenCancel, SetStatus, At
  <2>2. /\ req'[r].pc = "genCreate" /\ req'[r].order = req[r].order
    BY <2>1, GotoLocals
  <2>3. Moves(r)
    BY <1>a, <2>1, GotoMoves
  <2>4. Within(o)
    BY <1>a, <1>b, <2>1 DEF Within
  <2>5. ASSUME BooksOf(o), Stage(r) PROVE BooksOf(o)' /\ RowsOf(o) /\ Stage(r)'
    <3>0. /\ \A q \in Qr : status[q] = "pending" /\ OrderOf[q] = req[r].order => q \in req[r].stale
          /\ \A q \in req[r].stale : Unpaid(q)
          /\ req[r].stale \cap keys = {}
      BY <2>1, <2>5 DEF Stage
    <3>1. BooksOf(o)' /\ RowsOf(o)
      BY <1>0, <2>1, <2>5, <3>0 DEF BooksOf, RowsOf, Unpaid, Payable
    <3>2. Stage(r)'
      BY <2>1, <2>2, <3>0 DEF Stage
    <3> QED BY <3>1, <3>2
  <2> QED BY <2>3, <2>4, <2>5, WithinSpares DEF Keeps
<1>5. ASSUME NEW q \in Qr, GenCreate(r, q) PROVE Keeps(r, o)
  <2>1. /\ req[r].pc = "genCreate" /\ status[q] = "none" /\ OrderOf[q] = o /\ overlapped' = overlapped
        /\ \A p \in Qr : status'[p] = IF p = q THEN "pending" ELSE status[p]
        /\ UNCHANGED <<order, keys, used, everUsed, finalize, told>>
    BY <1>a, <1>b, <1>5 DEF GenCreate, SetStatus, At
  <2>2. /\ req'[r].pc = "genCache" /\ req'[r].qr = q /\ req'[r].order = req[r].order
        /\ \A s \in Req : s # r => req'[s] = req[s]
    BY <1>0, <1>5 DEF GenCreate, Request
  <2>3. Moves(r)
    <3>1. OrderIn(r)' = OrderIn(r)
      BY <1>a, <2>1, <2>2 DEF OrderIn
    <3> QED BY <2>1, <2>2, <3>1 DEF Moves
  <2>4. Within(o)
    BY <2>1 DEF Within
  <2>5. ASSUME BooksOf(o), Stage(r) PROVE BooksOf(o)' /\ RowsOf(o) /\ Stage(r)'
    <3>0. /\ \A p \in Qr : OrderOf[p] = o => status[p] # "pending"
          /\ q \notin keys /\ \A n \in Nonce : <<n, q>> \notin everUsed
      BY <1>a, <1>b, <2>1, <2>5 DEF Stage, BooksOf, Unpaid, Payable
    <3>1. BooksOf(o)' /\ RowsOf(o)
      BY <2>1, <2>5, <3>0 DEF BooksOf, RowsOf, Unpaid, Payable
    <3>2. Stage(r)'
      BY <2>1, <2>2, <3>0 DEF Stage, Unpaid
    <3> QED BY <3>1, <3>2
  <2> QED BY <2>1, <2>3, <2>4, <2>5, WithinSpares DEF Keeps
<1>6. CASE GenCache(r)
  <2>1. /\ req[r].pc = "genCache" /\ Goto(r, "genSchedule") /\ overlapped' = overlapped
        /\ keys' = keys \cup {req[r].qr}
        /\ UNCHANGED <<order, status, used, everUsed, finalize, told>>
    BY <1>6 DEF GenCache, At
  <2>2. req'[r].pc = "genSchedule" /\ OrderOf[req[r].qr] = o
    BY <1>a, <1>b, <2>1, GotoLocals DEF LocalsOK
  <2>3. Moves(r)
    BY <1>a, <2>1, GotoMoves
  <2>4. Within(o)
    BY <2>1, <2>2 DEF Within
  <2>5. ASSUME BooksOf(o), Stage(r) PROVE BooksOf(o)' /\ RowsOf(o) /\ Stage(r)'
    <3>0. Unpaid(req[r].qr) /\ \A n \in Nonce : <<n, req[r].qr>> \notin everUsed
      BY <2>1, <2>5 DEF Stage
    <3>1. BooksOf(o)' /\ RowsOf(o)
      BY <2>1, <2>5, <3>0 DEF BooksOf, RowsOf, Unpaid, Payable
    <3>2. Stage(r)'
      BY <2>2 DEF Stage
    <3> QED BY <3>1, <3>2
  <2> QED BY <2>3, <2>4, <2>5, WithinSpares DEF Keeps
<1>7. CASE GenSchedule(r)
  <2>1. SameBooks /\ Return(r) /\ overlapped' = overlapped
    BY <1>7 DEF GenSchedule, SameBooks
  <2> QED BY <2>1, ReturnKeeps
<1>8. \A p \in Order : ~GenLoad(r, p)
  BY DEF GenLoad
<1> QED BY <1>2, <1>3, <1>4, <1>5, <1>6, <1>7, <1>8 DEF Generate

\* A PENDING or EXPIRED row, or a PAID one under a new nonce, becomes EXPIRED.
LEMMA ExpireKeeps ==
  ASSUME TypeOK, NEW q \in Qr, SetStatus({q}, "expired"),
         UNCHANGED <<order, keys, used, everUsed, finalize, told>>
  PROVE  /\ Within(OrderOf[q])
         /\ Payable(q) /\ BooksOf(OrderOf[q]) => BooksOf(OrderOf[q])'
         /\ Unpaid(q) \/ (Payable(q) /\ ExpiresUnderNewNonce(q)) => RowsOf(OrderOf[q])
<1>1. \A p \in Qr : status'[p] = IF p = q THEN "expired" ELSE status[p]
  BY DEF SetStatus
<1>2. Within(OrderOf[q])
  BY <1>1 DEF Within
<1>3. Payable(q) /\ BooksOf(OrderOf[q]) => BooksOf(OrderOf[q])'
  BY <1>1 DEF BooksOf, Payable, Unpaid, TypeOK
<1>4. Unpaid(q) \/ (Payable(q) /\ ExpiresUnderNewNonce(q)) => RowsOf(OrderOf[q])
  <2> HIDE DEF ExpiresUnderNewNonce
  <2> QED BY <1>1 DEF RowsOf, Payable, Unpaid
<1> QED BY <1>2, <1>3, <1>4

\* verifyAndProcess pays for a QR of an order that is PENDING until it confirms it.
LEMMA VerifyKeeps ==
  ASSUME TypeOK, ToldAfterConfirmation, NEW r \in Req, LocalsOK(r), Verify(r), ~At(r, "idle"),
         NEW o \in Order, o = OrderIn(r)
  PROVE  Keeps(r, o)
<1> USE DEF rows, redis, jobs, outside, history
<1>0. req[r] \in Request /\ req \in [Req -> Request]
  BY DEF TypeOK
<1>a. VerPc = {"verGet", "verMiss", "verMissExpire", "verExpire", "verExpireDrop", "verOrder",
               "verNonce", "verPaid", "verDrop", "verConfirm", "verNotify"}
  BY DEF VerPc, PayingPc
<1>b. req[r].pc \in VerPc => req[r].qr \in Qr /\ OrderOf[req[r].qr] = o /\ req[r].nonce \in Nonce
  BY <1>a DEF LocalsOK, OrderIn, GenPc
<1>2. CASE VerGet(r)
  <2>1. SameBooks /\ req[r].pc = "verGet" /\ overlapped' = overlapped
    BY <1>2 DEF VerGet, SameBooks, At
  <2>2. req[r].qr \in Qr /\ OrderOf[req[r].qr] = o
    BY <1>a, <1>b, <2>1
  <2>4. CASE Goto(r, "verMiss")
    <3>1. Moves(r) /\ req'[r].pc = "verMiss"
      BY <1>a, <2>1, <2>4, GotoMoves, GotoLocals
    <3> QED BY <2>1, <3>1, SameKeeps DEF Stage
  <2>5. CASE Return(r)
    BY <2>1, <2>5, ReturnKeeps
  <2>6. ASSUME NEW l \in {"verExpire", "verOrder"}, req[r].qr \in keys, Goto(r, l) PROVE Keeps(r, o)
    <3>1. Moves(r) /\ req'[r].pc = l /\ req'[r].qr = req[r].qr /\ req'[r].nonce = req[r].nonce
      BY <1>a, <2>1, <2>6, GotoMoves, GotoLocals
    <3>2. ASSUME BooksOf(o), Stage(r) PROVE BooksOf(o)' /\ RowsOf(o) /\ Stage(r)'
      <4>1. Payable(req[r].qr) /\ <<req[r].nonce, req[r].qr>> \notin everUsed
        BY <2>1, <2>2, <2>6, <3>2 DEF BooksOf, Stage
      <4>2. Stage(r)'
        BY <2>1, <3>1, <4>1 DEF Stage, SameBooks, Payable, Unpaid
      <4> QED BY <2>1, <3>2, <4>2, SameSpares, SparedBooks, SparedRows
    <3> QED BY <2>1, <3>1, <3>2, SameWithin, WithinSpares DEF Keeps
  <2> QED BY <1>2, <2>4, <2>5, <2>6 DEF VerGet
<1>3. CASE VerMiss(r)
  <2>1. SameBooks /\ req[r].pc = "verMiss" /\ overlapped' = overlapped
    BY <1>3 DEF VerMiss, SameBooks, At
  <2>2. CASE status[req[r].qr] = "pending" /\ Goto(r, "verMissExpire")
    <3>1. Moves(r) /\ req'[r].pc = "verMissExpire" /\ req'[r].qr = req[r].qr
      BY <1>a, <2>1, <2>2, GotoMoves, GotoLocals
    <3>2. Stage(r)'
      BY <2>1, <2>2, <3>1 DEF Stage, SameBooks, Unpaid
    <3> QED BY <2>1, <3>1, <3>2, SameKeeps
  <2> QED BY <1>3, <2>1, <2>2, ReturnKeeps DEF VerMiss
<1>4. CASE VerMissExpire(r)
  <2>1. /\ req[r].pc = "verMissExpire" /\ Return(r) /\ overlapped' = overlapped
        /\ SetStatus({req[r].qr}, "expired") /\ UNCHANGED <<order, keys, used, everUsed, finalize, told>>
    BY <1>4 DEF VerMissExpire, At
  <2>2. req[r].qr \in Qr /\ OrderOf[req[r].qr] = o
    BY <1>a, <1>b, <2>1
  <2>3. Moves(r) /\ Stage(r)'
    BY <2>1, ReturnMoves, ReturnIdle, StageIdle
  <2>4. Stage(r) => Unpaid(req[r].qr) /\ Payable(req[r].qr)
    BY <2>1 DEF Stage, Payable
  <2>5. Within(o) /\ (BooksOf(o) /\ Stage(r) => BooksOf(o)' /\ RowsOf(o))
    BY <2>1, <2>2, <2>4, ExpireKeeps
  <2> QED BY <2>3, <2>5, WithinSpares DEF Keeps
<1>5. CASE VerExpire(r)
  <2>1. /\ req[r].pc = "verExpire" /\ Goto(r, "verExpireDrop") /\ overlapped' = overlapped
        /\ SetStatus({req[r].qr}, "expired") /\ UNCHANGED <<order, keys, used, everUsed, finalize, told>>
    BY <1>5 DEF VerExpire, At
  <2>2. req[r].qr \in Qr /\ OrderOf[req[r].qr] = o
    BY <1>a, <1>b, <2>1
  <2>3. Moves(r) /\ Stage(r)'
    <3>1. Moves(r) /\ req'[r].pc = "verExpireDrop"
      BY <1>a, <2>1, GotoMoves, GotoLocals
    <3> QED BY <3>1 DEF Stage
  <2>4. Stage(r) => Payable(req[r].qr) /\ ExpiresUnderNewNonce(req[r].qr)
    BY <2>1 DEF Stage, ExpiresUnderNewNonce, At
  <2>5. Within(o) /\ (BooksOf(o) /\ Stage(r) => BooksOf(o)' /\ RowsOf(o))
    BY <2>1, <2>2, <2>4, ExpireKeeps
  <2> QED BY <2>3, <2>5, WithinSpares DEF Keeps
<1>6. CASE VerExpireDrop(r) \/ VerDrop(r)
  <2>1. /\ keys' = keys \ {req[r].qr} /\ overlapped' = overlapped
        /\ UNCHANGED <<order, status, used, everUsed, finalize, told>>
        /\ req[r].pc \in {"verExpireDrop", "verDrop"}
    BY <1>6 DEF VerExpireDrop, VerDrop, At
  <2>2. req[r].qr \in Qr /\ OrderOf[req[r].qr] = o
    BY <1>a, <1>b, <2>1
  <2>3. Within(o) /\ (BooksOf(o) => BooksOf(o)' /\ RowsOf(o))
    BY <2>1, <2>2 DEF Within, BooksOf, RowsOf, Unpaid, Payable
  <2>4. CASE VerDrop(r)
    <3>1. req[r].pc = "verDrop" /\ Goto(r, "verConfirm")
      BY <2>4 DEF VerDrop, At
    <3>2. Moves(r) /\ req'[r].pc = "verConfirm" /\ req'[r].qr = req[r].qr
      BY <1>a, <2>1, <3>1, GotoMoves, GotoLocals
    <3>3. Stage(r) => Stage(r)'
      BY <2>1, <3>1, <3>2 DEF Stage
    <3> QED BY <2>3, <3>2, <3>3, WithinSpares DEF Keeps
  <2>5. CASE VerExpireDrop(r)
    <3>1. Return(r)
      BY <2>5 DEF VerExpireDrop
    <3>2. Moves(r) /\ Stage(r)'
      BY <2>1, <3>1, ReturnMoves, ReturnIdle, StageIdle
    <3> QED BY <2>3, <3>2, WithinSpares DEF Keeps
  <2> QED BY <1>6, <2>4, <2>5
<1>7. CASE VerOrder(r)
  <2>1. SameBooks /\ req[r].pc = "verOrder" /\ overlapped' = overlapped
    BY <1>7 DEF VerOrder, SameBooks, At
  <2>2. CASE order[OrderOf[req[r].qr]] = "pending" /\ Goto(r, "verNonce")
    <3>1. Moves(r) /\ req'[r].pc = "verNonce" /\ req'[r].qr = req[r].qr
      BY <1>a, <2>1, <2>2, GotoMoves, GotoLocals
    <3>2. Stage(r) => Stage(r)'
      BY <2>1, <2>2, <3>1 DEF Stage, SameBooks, Payable, Unpaid
    <3> QED BY <2>1, <3>1, <3>2, SameKeeps
  <2> QED BY <1>7, <2>1, <2>2, ReturnKeeps DEF VerOrder
<1>8. CASE VerNonce(r)
  <2>1. /\ req[r].pc = "verNonce" /\ Goto(r, "verPaid") /\ overlapped' = overlapped
        /\ used' = used \cup {req[r].nonce}
        /\ everUsed' = everUsed \cup {<<req[r].nonce, req[r].qr>>}
        /\ UNCHANGED <<order, status, keys, finalize, told>>
    BY <1>8 DEF VerNonce, At
  <2>2. req[r].qr \in Qr /\ OrderOf[req[r].qr] = o
    BY <1>a, <1>b, <2>1
  <2>3. Moves(r) /\ req'[r].pc = "verPaid" /\ req'[r].qr = req[r].qr
    BY <1>a, <2>1, GotoMoves, GotoLocals
  <2>4. Within(o)
    BY <2>1, <2>2 DEF Within
  <2>5. ASSUME BooksOf(o), Stage(r) PROVE BooksOf(o)' /\ RowsOf(o) /\ Stage(r)'
    <3>1. Payable(req[r].qr)
      BY <2>1, <2>5 DEF Stage
    <3>2. BooksOf(o)' /\ RowsOf(o)
      BY <2>1, <2>2, <2>5, <3>1 DEF BooksOf, RowsOf, Unpaid, Payable
    <3>3. Stage(r)'
      BY <2>1, <2>3, <2>5 DEF Stage, Payable, Unpaid
    <3> QED BY <3>2, <3>3
  <2> QED BY <2>3, <2>4, <2>5, WithinSpares DEF Keeps
<1>9. CASE VerPaid(r)
  <2>1. /\ req[r].pc = "verPaid" /\ Goto(r, "verDrop") /\ overlapped' = overlapped
        /\ \A q \in Qr : status'[q] = IF q = req[r].qr THEN "paid" ELSE status[q]
        /\ UNCHANGED <<order, keys, used, everUsed, finalize, told>>
    BY <1>9 DEF VerPaid, SetStatus, At
  <2>2. req[r].qr \in Qr /\ OrderOf[req[r].qr] = o
    BY <1>a, <1>b, <2>1
  <2>3. Moves(r) /\ req'[r].pc = "verDrop" /\ req'[r].qr = req[r].qr
    BY <1>a, <2>1, GotoMoves, GotoLocals
  <2>4. Within(o)
    BY <2>1, <2>2 DEF Within
  <2>5. ASSUME BooksOf(o), Stage(r) PROVE BooksOf(o)' /\ RowsOf(o) /\ Stage(r)'
    <3>1. Payable(req[r].qr)
      BY <2>1, <2>5 DEF Stage
    <3>2. BooksOf(o)' /\ RowsOf(o)
      BY <2>1, <2>2, <2>5, <3>1 DEF BooksOf, RowsOf, Unpaid, Payable
    <3>3. Stage(r)'
      BY <2>1, <2>3, <2>5 DEF Stage
    <3> QED BY <3>2, <3>3
  <2> QED BY <2>3, <2>4, <2>5, WithinSpares DEF Keeps
<1>10. CASE VerConfirm(r)
  <2>1. /\ req[r].pc = "verConfirm" /\ Goto(r, "verNotify") /\ overlapped' = overlapped
        /\ order' = [order EXCEPT ![OrderOf[req[r].qr]] = "confirmed"]
        /\ UNCHANGED <<status, keys, used, everUsed, finalize, told>>
    BY <1>10 DEF VerConfirm, At
  <2>2. req[r].qr \in Qr /\ OrderOf[req[r].qr] = o
    BY <1>a, <1>b, <2>1
  <2>3. Moves(r) /\ req'[r].pc = "verNotify" /\ req'[r].qr = req[r].qr
    BY <1>a, <2>1, GotoMoves, GotoLocals
  <2>4. Within(o)
    BY <2>1, <2>2 DEF Within, TypeOK
  <2>5. ASSUME BooksOf(o), Stage(r) PROVE BooksOf(o)' /\ RowsOf(o) /\ Stage(r)'
    <3>1. finalize[req[r].qr] = 0 /\ req[r].qr \notin told
      BY <2>1, <2>2, <2>5 DEF Stage, ToldAfterConfirmation, TypeOK
    <3>2. BooksOf(o)' /\ RowsOf(o)
      BY <2>1, <2>5 DEF BooksOf, RowsOf, Unpaid, Payable
    <3>3. Stage(r)'
      BY <2>1, <2>3, <3>1 DEF Stage
    <3> QED BY <3>2, <3>3
  <2> QED BY <2>3, <2>4, <2>5, WithinSpares DEF Keeps
<1>11. CASE VerNotify(r)
  <2>1. /\ req[r].pc = "verNotify" /\ Return(r) /\ overlapped' = overlapped
        /\ finalize' = [finalize EXCEPT ![req[r].qr] = @ + 1]
        /\ UNCHANGED <<order, status, keys, used, everUsed, told>>
    BY <1>11 DEF VerNotify, At
  <2>2. req[r].qr \in Qr /\ OrderOf[req[r].qr] = o
    BY <1>a, <1>b, <2>1
  <2>3. Moves(r) /\ Stage(r)'
    BY <2>1, ReturnMoves, ReturnIdle, StageIdle
  <2>4. \A q \in Qr : finalize'[q] = IF q = req[r].qr THEN finalize[q] + 1 ELSE finalize[q]
    BY <2>1, <2>2 DEF TypeOK
  <2>5. Within(o)
    BY <2>1, <2>2, <2>4 DEF Within
  <2>6. ASSUME BooksOf(o), Stage(r) PROVE BooksOf(o)' /\ RowsOf(o)
    <3>1. finalize[req[r].qr] = 0 /\ req[r].qr \notin told
      BY <2>1, <2>6 DEF Stage
    <3> QED BY <2>1, <2>2, <2>4, <2>6, <3>1 DEF BooksOf, RowsOf, Unpaid, Payable
  <2> QED BY <2>3, <2>5, <2>6, WithinSpares DEF Keeps
<1>12. \A q \in Qr, n \in Nonce : ~VerStart(r, q, n)
  BY DEF VerStart
<1> QED
  BY <1>2, <1>3, <1>4, <1>5, <1>6, <1>7, <1>8, <1>9, <1>10, <1>11, <1>12 DEF Verify

\* The lazy sync, a cancelled order and a call that fails.
LEMMA OthersKeep ==
  ASSUME TypeOK, NEW r \in Req, LocalsOK(r), ~At(r, "idle"), NEW o \in Order, o = OrderIn(r),
         SyncExpire(r) \/ CancelWrite(r) \/ Fail(r)
  PROVE  Keeps(r, o)
<1> USE DEF rows, redis, jobs, outside, history
<1>1. CASE SyncExpire(r)
  <2>1. /\ req[r].pc = "syncExpire" /\ Return(r) /\ overlapped' = overlapped
        /\ SetStatus({req[r].qr}, "expired") /\ UNCHANGED <<order, keys, used, everUsed, finalize, told>>
    BY <1>1 DEF SyncExpire, At
  <2>2. req[r].qr \in Qr /\ OrderOf[req[r].qr] = o
    BY <2>1 DEF LocalsOK, OrderIn, GenPc
  <2>3. Moves(r) /\ Stage(r)'
    BY <2>1, ReturnMoves, ReturnIdle, StageIdle
  <2>4. Stage(r) => Unpaid(req[r].qr) /\ Payable(req[r].qr)
    BY <2>1 DEF Stage, Payable
  <2>5. Within(o) /\ (BooksOf(o) /\ Stage(r) => BooksOf(o)' /\ RowsOf(o))
    BY <2>1, <2>2, <2>4, ExpireKeeps
  <2> QED BY <2>3, <2>5, WithinSpares DEF Keeps
<1>2. CASE CancelWrite(r)
  <2>1. /\ Return(r) /\ overlapped' = overlapped /\ req[r].pc = "cancelWrite"
        /\ order' = [order EXCEPT ![req[r].order] = "cancelled"]
        /\ UNCHANGED <<status, keys, used, everUsed, finalize, told>>
    BY <1>2 DEF CancelWrite, At
  <2>2. req[r].order = o
    BY <2>1 DEF OrderIn
  <2>3. Moves(r) /\ Stage(r)'
    BY <2>1, ReturnMoves, ReturnIdle, StageIdle
  <2>4. Within(o) /\ (BooksOf(o) => BooksOf(o)' /\ RowsOf(o))
    BY <2>1, <2>2 DEF TypeOK, Within, BooksOf, RowsOf, Unpaid, Payable
  <2> QED BY <2>3, <2>4, WithinSpares DEF Keeps
<1>3. CASE Fail(r)
  <2>1. SameBooks /\ Return(r) /\ overlapped' = overlapped
    BY <1>3 DEF Fail, SameBooks
  <2> QED BY <2>1, ReturnKeeps
<1> QED BY <1>1, <1>2, <1>3

-----------------------------------------------------------------------------
LEMMA InitSerial == Init => SerialInv
<1> SUFFICES ASSUME Init PROVE SerialInv
  OBVIOUS
<1>1. \A r \in Req : At(r, "idle")
  BY DEF Init, Idle, At
<1>2. /\ \A q \in Qr : status[q] = "none" /\ finalize[q] = 0
      /\ keys = {} /\ told = {} /\ everUsed = {}
  BY DEF Init
<1>3. ASSUME NEW o \in Order PROVE BooksOf(o)
  <2>1. ASSUME NEW q \in Qr
        PROVE  /\ finalize[q] <= 1 /\ q \notin told /\ q \notin keys
               /\ \A n \in Nonce : <<n, q>> \notin everUsed
    BY <1>2
  <2>2. \A q \in Qr : status[q] # "pending"
    BY <1>2
  <2> QED BY <2>1, <2>2 DEF BooksOf
<1> QED BY <1>1, <1>3 DEF SerialInv, Apart

\* The order a request in flight is about is an order.
LEMMA OrderTyped ==
  ASSUME NEW r \in Req, LocalsOK(r), TypeOK, ~At(r, "idle")
  PROVE  OrderIn(r) \in Order
BY PaymentsAssumption DEF LocalsOK, TypeOK, OrderIn, At, Request, Pc, GenPc, VerPc

\* The rows of the orders whose requests came one at a time.
RowsStep == \A o \in Order \ overlapped : RowsOf(o)

\* A request that begins, or goes on, keeps what is known of every order that
\* is still without an overlap.
LEMMA RequestSerial ==
  ASSUME IInv, SerialInv, NEW r \in Req, RequestStep(r) \/ Fail(r)
  PROVE  SerialInv' /\ RowsStep
<1>0. /\ TypeOK /\ ToldAfterConfirmation /\ \A s \in Req : LocalsOK(s)
      /\ Apart /\ \A o \in Order \ overlapped : BooksOf(o)
      /\ \A s \in Req : ~At(s, "idle") /\ OrderIn(s) \notin overlapped => Stage(s)
  BY DEF IInv, SerialInv, RequestOK
<1>1. CASE At(r, "idle")
  <2>1. \/ \E o \in Order : GenLoad(r, o) \/ CancelRead(r, o)
        \/ \E q \in Qr : SyncRead(r, q)
        \/ \E q \in Qr, n \in Nonce : VerStart(r, q, n)
    BY <1>1 DEF RequestStep, Generate, Verify, GenFind, GenDrop, GenCancel, GenCreate, GenCache,
          GenSchedule, VerGet, VerMiss, VerMissExpire, VerExpire, VerExpireDrop, VerOrder, VerNonce,
          VerPaid, VerDrop, VerConfirm, VerNotify, SyncExpire, CancelWrite, Fail, At
  <2>2. /\ Moves(r) /\ SparesOthers(r) /\ SameBooks /\ OrderIn(r)' \in Order
        /\ \A o \in Order : o = OrderIn(r)' /\ BooksOf(o) => Stage(r)'
    BY <1>0, <2>1, BeginsKeep
  <2>3. Begins(OrderIn(r)') /\ overlapped \subseteq overlapped' /\ \A s \in Req : s # r => req'[s] = req[s]
    BY <1>1, <2>2 DEF Moves, Begins
  <2>4. \A o \in Order : Spares(o)
    BY <1>1, <2>2 DEF SparesOthers
  <2>5. ASSUME NEW s \in Req, s # r PROVE (At(s, "idle")' <=> At(s, "idle")) /\ OrderIn(s)' = OrderIn(s)
    BY <2>3, <2>5 DEF At, OrderIn
  <2>6. Apart'
    <3>1. ASSUME NEW s \in Req, s # r, ~At(s, "idle"), OrderIn(s) = OrderIn(r)'
          PROVE  OrderIn(s) \in overlapped'
      BY <2>3, <3>1 DEF Begins
    <3> QED BY <1>0, <2>3, <2>5, <3>1 DEF Apart
  <2>7. \A o \in Order \ overlapped' : BooksOf(o)'
    BY <1>0, <2>3, <2>4, SparedBooks
  <2>8. ASSUME NEW s \in Req, ~At(s, "idle")', OrderIn(s)' \notin overlapped' PROVE Stage(s)'
    <3>1. CASE s = r
      BY <1>0, <2>2, <2>3, <2>8, <3>1
    <3>2. CASE s # r
      <4>1. ~At(s, "idle") /\ OrderIn(s) \in Order /\ OrderIn(s) \notin overlapped
        BY <1>0, <2>3, <2>5, <2>8, <3>2, OrderTyped
      <4> QED BY <1>0, <2>3, <2>4, <3>2, <4>1, SparedStage
    <3> QED BY <3>1, <3>2
  <2> QED BY <2>4, <2>6, <2>7, <2>8, SparedRows DEF SerialInv, RowsStep
<1>2. CASE ~At(r, "idle")
  <2>1. PICK o \in Order : o = OrderIn(r)
    BY <1>0, <1>2, OrderTyped
  <2>2. Keeps(r, o)
    <3>1. /\ \A p \in Order : ~GenLoad(r, p) /\ ~CancelRead(r, p)
          /\ \A q \in Qr : ~SyncRead(r, q)
      BY <1>2 DEF GenLoad, CancelRead, SyncRead
    <3> QED BY <1>0, <1>2, <2>1, <3>1, GenerateKeeps, VerifyKeeps, OthersKeep DEF RequestStep
  <2>3. /\ overlapped' = overlapped /\ \A s \in Req : s # r => req'[s] = req[s]
        /\ req'[r].pc = "idle" \/ OrderIn(r)' = o
    BY <1>2, <2>1, <2>2 DEF Keeps, Moves
  <2>4. \A p \in Order : p # o => Spares(p)
    BY <1>2, <2>1, <2>2 DEF Keeps, SparesOthers
  <2>5. ASSUME NEW s \in Req, s # r PROVE (At(s, "idle")' <=> At(s, "idle")) /\ OrderIn(s)' = OrderIn(s)
    BY <2>3, <2>5 DEF At, OrderIn
  <2>6. o \notin overlapped => BooksOf(o)' /\ RowsOf(o) /\ Stage(r)'
    BY <1>0, <1>2, <2>1, <2>2 DEF Keeps
  <2>7. Apart'
    <3>1. At(r, "idle")' \/ OrderIn(r)' = OrderIn(r)
      BY <2>1, <2>3 DEF At
    <3> QED BY <1>0, <1>2, <2>3, <2>5, <3>1 DEF Apart
  <2>8. \A p \in Order \ overlapped' : BooksOf(p)'
    BY <1>0, <2>3, <2>4, <2>6, SparedBooks
  <2>9. ASSUME NEW s \in Req, ~At(s, "idle")', OrderIn(s)' \notin overlapped' PROVE Stage(s)'
    <3>1. CASE s = r
      <4>1. o \notin overlapped
        BY <2>3, <2>9, <3>1 DEF At
      <4> QED BY <2>6, <3>1, <4>1
    <3>2. CASE s # r
      <4>1. ~At(s, "idle") /\ OrderIn(s) \in Order /\ OrderIn(s) \notin overlapped
        BY <1>0, <2>3, <2>5, <2>9, <3>2, OrderTyped
      <4>2. OrderIn(s) # o
        BY <1>0, <1>2, <2>1, <3>2, <4>1 DEF Apart
      <4> QED BY <1>0, <2>3, <2>4, <3>2, <4>1, <4>2, SparedStage
    <3> QED BY <3>1, <3>2
  <2>10. RowsStep
    BY <2>4, <2>6, SparedRows DEF RowsStep
  <2> QED BY <2>7, <2>8, <2>9, <2>10 DEF SerialInv
<1> QED BY <1>1, <1>2

\* Every step keeps the books, and every request that is alone with its order
\* still knows what it knew.
LEMMA NextSerial ==
  ASSUME IInv, SerialInv, [Next]_vars
  PROVE  SerialInv' /\ RowsStep
<1>0. /\ TypeOK /\ \A s \in Req : LocalsOK(s)
      /\ Apart /\ \A o \in Order \ overlapped : BooksOf(o)
      /\ \A s \in Req : ~At(s, "idle") /\ OrderIn(s) \notin overlapped => Stage(s)
  BY DEF IInv, SerialInv, RequestOK
<1>1. ASSUME Settles, UNCHANGED req, \A o \in Order : (BooksOf(o) => BooksOf(o)') /\ RowsOf(o)
      PROVE  SerialInv' /\ RowsStep
  <2>1. overlapped' = overlapped /\ req' = req
    BY <1>1 DEF Settles
  <2>2. \A s \in Req : (At(s, "idle")' <=> At(s, "idle")) /\ OrderIn(s)' = OrderIn(s)
    BY <2>1 DEF At, OrderIn
  <2>3. Apart'
    BY <1>0, <2>1, <2>2 DEF Apart
  <2>4. ASSUME NEW s \in Req, ~At(s, "idle")', OrderIn(s)' \notin overlapped' PROVE Stage(s)'
    <3>1. Stage(s) /\ LocalsOK(s)
      BY <1>0, <2>1, <2>2, <2>4
    <3> QED BY <1>0, <1>1, <2>1, <3>1, StageSettles
  <2> QED BY <1>0, <1>1, <2>1, <2>3, <2>4 DEF SerialInv, RowsStep
<1>2. ASSUME NEW r \in Req, RequestStep(r) \/ Fail(r) PROVE SerialInv' /\ RowsStep
  BY <1>2, RequestSerial
<1>3. ASSUME NEW q \in Qr,
             \/ HistorySync(q) \/ ExpireJob(q) \/ ExpireBroadcast(q) \/ FinalizeJob(q)
             \/ Elapse(q) \/ KeyExpires(q) \/ ExpireFails(q)
      PROVE  SerialInv' /\ RowsStep
  BY <1>0, <1>1, <1>3, WorkerKeeps
<1>4. ASSUME NEW n \in Nonce, NonceExpires(n) PROVE SerialInv' /\ RowsStep
  BY <1>1, <1>4, NonceKeeps
<1>5. CASE Crash
  <2>1. SameBooks /\ overlapped' = overlapped /\ \A s \in Req : req'[s].pc = "idle"
    BY <1>5 DEF Crash, SameBooks, Idle, rows, redis, outside, history
  <2> QED BY <1>0, <2>1, SameSettles DEF SerialInv, RowsStep, Apart, At
<1>6. CASE UNCHANGED vars
  <2>1. SameBooks /\ UNCHANGED <<overlapped, req>>
    BY <1>6 DEF vars, SameBooks, rows, redis, jobs, outside, history
  <2> QED BY <1>1, <2>1, SameSettles
<1> QED BY <1>2, <1>3, <1>4, <1>5, <1>6 DEF Next

\* What the comments of generateQr, verifyAndProcess and the lazy sync promise
\* holds of every order whose requests come one at a time, whatever is in flight
\* for other orders and whatever the worker, the clock, a failed call or a crash
\* does: one active QR, one finalize-payment job per QR, no payment by a cancelled
\* QR, and no payment that expires but under a nonce never recorded for its QR.
THEOREM SerialKept == Spec => SerialPromises
<1>1. IInv /\ SerialInv /\ [Next]_vars => SerialInv' /\ RowsStep
  BY NextSerial
<1>2. IInv /\ SerialInv => OneActiveQr /\ PaidOnce
  BY PaymentsAssumption DEF SerialInv, BooksOf, OneActiveQr, PaidOnce, OneByOne
<1>3. RowsStep =>
        /\ [\A q \in Qr : OneByOne(q) /\ status[q] = "cancelled" => status'[q] # "paid"]_status
        /\ [\A q \in Qr : OneByOne(q) /\ status'[q] = "expired" =>
              \/ status[q] \in {"pending", "expired"}
              \/ status[q] = "paid" /\ ExpiresUnderNewNonce(q)]_status
  BY PaymentsAssumption DEF RowsStep, RowsOf, Unpaid, OneByOne
<1>4. IInv /\ SerialInv /\ IInv' /\ [Next]_vars =>
        /\ SerialInv'
        /\ [OneActiveQr' /\ PaidOnce']_vars
        /\ [\A q \in Qr : OneByOne(q) /\ status[q] = "cancelled" => status'[q] # "paid"]_status
        /\ [\A q \in Qr : OneByOne(q) /\ status'[q] = "expired" =>
              \/ status[q] \in {"pending", "expired"}
              \/ status[q] = "paid" /\ ExpiresUnderNewNonce(q)]_status
  <2>1. (IInv /\ SerialInv)' => OneActiveQr' /\ PaidOnce'
    BY <1>2, PTL
  <2> QED BY <1>1, <1>3, <2>1
<1> QED
  BY <1>4, InitSerial, Invariance, PTL
  DEF Spec, SerialPromises, CancelledQrNeverPaid, OnlyPendingExpires
=============================================================================
