----------------------------- MODULE MCPayments -----------------------------
(* Small instances of Payments for TLC. *)
EXTENDS Payments, TLC

CONSTANTS q1, q2, o1

\* Two QR ids of a single order: the races of the code are between QRs of
\* one order, and requests of different orders share no row and no key.
MCOrderOf == [q \in Qr |-> o1]

Symm == Permutations(Req) \cup Permutations(Qr) \cup Permutations(Nonce)
=============================================================================
