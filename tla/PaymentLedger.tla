---------------------------- MODULE PaymentLedger ----------------------------
(***************************************************************************)
(* What the QR payment flow promises about an order, without QR rows,      *)
(* Redis keys, requests or jobs: money first, then the order is CONFIRMED, *)
(* then the payer is told.  A cancellation may come at any time, also      *)
(* between the payment and its confirmation.                               *)
(***************************************************************************)
CONSTANTS Order, Qr, OrderOf
VARIABLES order, paid, told
vars == <<order, paid, told>>

Init == order = [o \in Order |-> "pending"] /\ paid = {} /\ told = {}

\* A payment by QR q is recorded.
Pay(q) == paid' = paid \cup {q} /\ UNCHANGED <<order, told>>

\* The order of a recorded payment is confirmed.
Confirm(q) ==
  /\ q \in paid
  /\ order' = [order EXCEPT ![OrderOf[q]] = "confirmed"]
  /\ UNCHANGED <<paid, told>>

\* The client gives the order up.
Cancel(o) == order' = [order EXCEPT ![o] = "cancelled"] /\ UNCHANGED <<paid, told>>

\* The payer learns the outcome, only once there is one.
Tell(q) ==
  /\ q \in paid /\ order[OrderOf[q]] # "pending"
  /\ told' = told \cup {q}
  /\ UNCHANGED <<order, paid>>

Next == \/ \E q \in Qr : Pay(q) \/ Confirm(q) \/ Tell(q)
        \/ \E o \in Order : Cancel(o)

Spec == Init /\ [][Next]_vars
=============================================================================
